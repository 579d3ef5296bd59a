-------------------------------- MODULE M2M --------------------------------
(***************************************************************************)
(* The mem2mem node, kmod/vpipe-m2m.c, together with the parts of videobuf2*)
(* and of the V4L2 mem2mem framework it is written against.                *)
(*                                                                         *)
(* Every open file is a context with an OUTPUT and a CAPTURE queue.  A     *)
(* buffer travels: user -> queued (before STREAMON) -> ready (owned by the *)
(* driver) -> removed by device_run -> done -> user.  The ioctls of all    *)
(* contexts serialise on dev_lock; device_run is executed either inside    *)
(* the ioctl that scheduled the job, with dev_lock held ("ioctl"), or by   *)
(* the framework's work item ("worker"), which does not take dev_lock.     *)
(* device_run is four steps: pick the pair, remove it once processed, give *)
(* it back with its metadata, finish the job.                              *)
(*                                                                         *)
(* "rows" is what reaches vpipe_meta_publish, in order.  The controls of a *)
(* frame are one value; so is the provenance its source stamps on it.      *)
(***************************************************************************)
EXTENDS Naturals, Sequences, SequencesExt, FiniteSets

CONSTANTS
  Ctxs,       \* contexts: open files of the video node
  NoCtx,      \* m2m_dev->curr_ctx = NULL
  Index,      \* buffer indices the program uses on a queue
  NoBuf,      \* no buffer
  Ctls,       \* values of the per-frame controls, taken together
  Backends,   \* those in use: "FIXTURE" and "VCAM", which must be started
  NoRow,      \* meta_pending.seq = 0
  MaxFrames,  \* bound on the OUTPUT buffers queued
  MaxSets,    \* bound on the control changes
  Allow       \* what the program and the machine may do, see Liberties

(* StopWhileRunning: STREAMOFF or close while the worker runs a job of the *)
(*   same context;                                                         *)
(* RetryStreamOn: a STREAMON that failed is called again without STREAMOFF;*)
(* StartFails: vcam_start runs out of memory;                              *)
(* JobFails: a buffer has no kernel mapping, or vpipe_cv_process rejects.  *)
Liberties == {"StopWhileRunning", "RetryStreamOn", "StartFails", "JobFails"}

(* A row of metadata; "asked" is history: what was true at the QBUF. *)
Asked == [frame : Nat, ctl : Ctls, streaming : BOOLEAN]
Row == [seq : Nat, ctx : Ctxs, ctl : Ctls, backend : Backends \cup {"none"},
        asked : Asked]

ASSUME M2MAssumption ==
  /\ NoCtx \notin Ctxs /\ NoBuf \notin Index /\ NoRow \notin Row
  /\ Index \subseteq Nat /\ IsFiniteSet(Index) /\ 0 \in Ctls
  /\ "FIXTURE" \in Backends /\ Backends \subseteq {"FIXTURE", "VCAM"}
  /\ Allow \subseteq Liberties
  /\ MaxFrames \in Nat /\ MaxSets \in Nat

Queues == {"OUT", "CAP"}
Executors == {"ioctl", "worker"}

VARIABLES
  sequence,  \* dev->sequence
  job,       \* m2m_dev: curr_ctx, job_queue and every context's job_flags
  work,      \* m2m_dev->job_work is pending
  run,       \* run[e]: the device_run that executor e is in
  open,      \* contexts that are open
  ctl,       \* ctl[c]: the control values of the context
  source,    \* source[c]: the backend and whether it has been started
  q,         \* q[c][t]: a vb2 queue with its m2m ready list
  stamp,     \* stamp[c][i]: what buf_queue wrote into OUTPUT buffer i
  pend,      \* pend[c][i]: meta_pending of CAPTURE buffer i
  rows,      \* rows published so far
  frames,    \* history: number of OUTPUT buffers queued
  asked,     \* history: asked[c][i]: what was true at the QBUF of i
  sets       \* number of control changes made

ctxVars == <<open, ctl, source, sets>>
jobVars == <<job, work, run>>
rowVars == <<sequence, pend, rows>>
stampVars == <<stamp, frames, asked>>
vars == <<sequence, job, work, run, open, ctl, source, q, stamp, pend, rows,
          frames, asked, sets>>

NoStamp == [ctl |-> 0, backend |-> "none"]
NotAsked == [frame |-> 0, ctl |-> 0, streaming |-> FALSE]

(* by: the context whose ioctl it is; src, dst: the pair picked, asked: its*)
(* frame; srcOut, dstOut: the pair removed.                                *)
Off == [at |-> "off", by |-> NoCtx, ctx |-> NoCtx, asked |-> NotAsked, src |-> NoBuf,
        dst |-> NoBuf, srcOut |-> NoBuf, dstOut |-> NoBuf, bad |-> FALSE]
Fixture == [id |-> "FIXTURE", started |-> FALSE]

(* queued: QBUF'd before STREAMON; owned: state ACTIVE. *)
Unused == [alloc |-> FALSE, on |-> FALSE, queued |-> << >>, ready |-> << >>,
           owned |-> {}, done |-> << >>]

Init ==
  /\ sequence = 0
  /\ job = [curr |-> NoCtx, queue |-> << >>, flags |-> [c \in Ctxs |-> {}]]
  /\ work = FALSE
  /\ run = [e \in Executors |-> Off]
  /\ open = {}
  /\ ctl = [c \in Ctxs |-> 0]
  /\ source = [c \in Ctxs |-> Fixture]
  /\ q = [c \in Ctxs |-> [t \in Queues |-> Unused]]
  /\ stamp = [c \in Ctxs |-> [i \in Index |-> NoStamp]]
  /\ pend = [c \in Ctxs |-> [i \in Index |-> NoRow]]
  /\ rows = << >>
  /\ frames = 0
  /\ asked = [c \in Ctxs |-> [i \in Index |-> NotAsked]]
  /\ sets = 0

-----------------------------------------------------------------------------
(* The mem2mem framework's job bookkeeping, as functions on job records.   *)
(* TRANS_ABORT is set and cleared within one STREAMOFF and is left out.    *)

(* __v4l2_m2m_try_queue, with qs the context's queues. *)
TryQueue(j, c, qs) ==
  IF /\ \A t \in Queues : qs[t].on /\ qs[t].ready # << >>
     /\ "QUEUED" \notin j.flags[c]
  THEN [j EXCEPT !.queue = Append(@, c), !.flags[c] = @ \cup {"QUEUED"}]
  ELSE j

(* v4l2_m2m_try_run up to the call of device_run. *)
TryRun(j) ==
  IF j.curr = NoCtx /\ j.queue # << >>
  THEN [j EXCEPT !.curr = Head(j.queue),
                 !.flags[Head(j.queue)] = @ \cup {"RUNNING"}]
  ELSE j

(* list_del of the one entry a context has in the job queue. *)
Unqueue(s, c) ==
  IF c \in Range(s) THEN RemoveAt(s, CHOOSE k \in DOMAIN s : s[k] = c) ELSE s

(* _v4l2_m2m_job_finish: nothing unless c is the current context. *)
JobFinish(j, c) ==
  IF j.curr # c THEN j
  ELSE [j EXCEPT !.curr = NoCtx, !.queue = Unqueue(j.queue, c), !.flags[c] = {}]

(* v4l2_m2m_cancel_job; vpipe_job_abort finishes a running job at once. *)
CancelJob(j, c) ==
  LET k == JobFinish(j, c)
  IN [k EXCEPT !.queue = Unqueue(k.queue, c), !.flags[c] = {}]

(* Start what try_run finds, in executor e called by c. *)
Schedule(e, c, j) ==
  /\ job' = TryRun(j)
  /\ run' = IF TryRun(j) = j THEN run
            ELSE [run EXCEPT ![e] = [Off EXCEPT !.at = "pick", !.by = c,
                                                !.ctx = TryRun(j).curr]]

Running(c) == \E e \in Executors : run[e].ctx = c
DevLock == run["ioctl"].at = "off"   \* the caller can get dev_lock
Quiet(c) == Running(c) => "StopWhileRunning" \in Allow

-----------------------------------------------------------------------------
(* The source and per-buffer part of the driver. *)

(* vpipe_source_next_frame: a backend that was not started rejects, the    *)
(* descriptor stays zeroed and the result is ignored.                      *)
NextFrame(c) ==
  IF source[c].id = "VCAM" /\ ~source[c].started THEN "none"
  ELSE source[c].id

Snapshot(c) == [ctl |-> ctl[c], backend |-> NextFrame(c)]

(* Plausible bug: a new buffer is put at the front of the ready list. *)
BufQueueFront(qt, bs) ==
  [qt EXCEPT !.ready = bs \o @, !.owned = @ \cup Range(bs)]

(* vpipe_buf_queue for the buffers bs of queue t, in order. *)
BufQueue(qt, bs) == [qt EXCEPT !.ready = @ \o bs, !.owned = @ \cup Range(bs)]
StampAll(c, t, bs) ==
  stamp' = IF t = "OUT"
           THEN [stamp EXCEPT ![c] = [i \in Index |->
                   IF i \in Range(bs) THEN Snapshot(c) ELSE stamp[c][i]]]
           ELSE stamp

(* The one increasing sequence of the elements of S. *)
Increasing(S) ==
  {s \in [1 .. Cardinality(S) -> S] :
     Range(s) = S /\ \A k, n \in DOMAIN s : k < n => s[k] < s[n]}

(* Plausible bug: the row stays pending after it was published. *)
BufFinishKeeps(c, S) ==
  /\ \E s \in Increasing({i \in S : pend[c][i] # NoRow}) :
       rows' = rows \o [k \in DOMAIN s |-> pend[c][s[k]]]
  /\ UNCHANGED pend

(* vpipe_buf_finish for the CAPTURE buffers S, in index order. *)
BufFinish(c, S) ==
  /\ \E s \in Increasing({i \in S : pend[c][i] # NoRow}) :
       rows' = rows \o [k \in DOMAIN s |-> pend[c][s[k]]]
  /\ pend' = [pend EXCEPT ![c] = [i \in Index |->
                IF i \in S THEN NoRow ELSE pend[c][i]]]

(* Buffers the program may not queue now. *)
Held(qt) == Range(qt.queued) \cup qt.owned \cup Range(qt.done)

(* What was stamped on OUTPUT buffers S is of no more use once they are    *)
(* back with the program, unless a job still looks at it.                  *)
Forget(c, t, S) ==
  LET gone == {i \in S : t = "OUT" /\ \A e \in Executors :
                           run[e].ctx = c => run[e].src # i}
  IN
  /\ stamp' = [stamp EXCEPT ![c] = [i \in Index |->
                 IF i \in gone THEN NoStamp ELSE stamp[c][i]]]
  /\ asked' = [asked EXCEPT ![c] = [i \in Index |->
                 IF i \in gone THEN NotAsked ELSE asked[c][i]]]
  /\ UNCHANGED frames

(* __vb2_queue_cancel finishes every buffer that was prepared. *)
FinishQueue(c, t) == BufFinish(c, IF t = "CAP" THEN Held(q[c][t]) ELSE {})

-----------------------------------------------------------------------------
(* File operations and ioctls *)

Open(c) ==
  /\ c \notin open
  /\ open' = open \cup {c}
  /\ ctl' = [ctl EXCEPT ![c] = 0]
  /\ source' = [source EXCEPT ![c] = Fixture]
  /\ UNCHANGED <<sets, jobVars, q, rowVars, stampVars>>

(* vpipe_release: the source is destroyed, the job is cancelled, CAPTURE   *)
(* rows are published, the buffers and the context are freed.  One step,   *)
(* though it does not hold dev_lock: a DQBUF of another file could publish *)
(* between two of its rows.                                                *)
Release(c) ==
  /\ c \in open /\ Quiet(c) /\ run["ioctl"].by # c
  /\ open' = open \ {c}
  /\ job' = CancelJob(job, c)
  /\ work' = (work \/ job.curr = c)
  /\ FinishQueue(c, "CAP")
  /\ q' = [q EXCEPT ![c] = [t \in Queues |-> Unused]]
  /\ source' = [source EXCEPT ![c] = Fixture]
  /\ ctl' = [ctl EXCEPT ![c] = 0]
  /\ Forget(c, "OUT", Index)
  /\ UNCHANGED <<sequence, run, sets>>

(* VIDIOC_REQBUFS with a count, or with 0. *)
ReqBufs(c, t, b) ==
  /\ DevLock /\ c \in open /\ ~q[c][t].on
  /\ q[c][t].ready # << >> => "RetryStreamOn" \in Allow
  /\ q[c][t].alloc \/ b
  /\ FinishQueue(c, t)
  /\ q' = [q EXCEPT ![c][t] = [Unused EXCEPT !.alloc = b, !.ready = q[c][t].ready]]
  /\ Forget(c, t, Index)
  /\ UNCHANGED <<sequence, jobVars, ctxVars>>

SetCtrl(c, v) ==
  /\ DevLock /\ c \in open /\ ctl[c] # v /\ sets < MaxSets
  /\ ctl' = [ctl EXCEPT ![c] = v]
  /\ sets' = sets + 1
  /\ UNCHANGED <<open, source, jobVars, q, rowVars, stampVars>>

(* Plausible bug: the backend is switched under a streaming queue. *)
SetBackendAnyTime(c, b) ==
  /\ DevLock /\ c \in open
  /\ source' = [source EXCEPT ![c] = [id |-> b, started |-> FALSE]]
  /\ UNCHANGED <<open, ctl, sets, jobVars, q, rowVars, stampVars>>

SetBackend(c, b) ==
  /\ DevLock /\ c \in open
  /\ \A t \in Queues : ~q[c][t].on
  /\ source' = [source EXCEPT ![c] = [id |-> b, started |-> FALSE]]
  /\ UNCHANGED <<open, ctl, sets, jobVars, q, rowVars, stampVars>>

(* VIDIOC_QBUF: buf_prepare, buf_queue if streaming, then try_schedule. *)
QBuf(c, t, i) ==
  LET qt == q[c][t]
      new == IF qt.on THEN BufQueue(qt, <<i>>)
             ELSE [qt EXCEPT !.queued = Append(@, i)]
  IN
  /\ DevLock /\ c \in open /\ qt.alloc /\ i \notin Held(qt)
  /\ q' = [q EXCEPT ![c][t] = new]
  /\ StampAll(c, t, IF qt.on THEN <<i>> ELSE << >>)
  /\ IF t = "OUT"
     THEN /\ frames < MaxFrames
          /\ frames' = frames + 1
          /\ asked' = [asked EXCEPT ![c][i] =
               [frame |-> frames + 1, ctl |-> ctl[c], streaming |-> qt.on]]
     ELSE UNCHANGED <<frames, asked>>
  /\ Schedule("ioctl", c, TryQueue(job, c, q'[c]))
  /\ UNCHANGED <<work, ctxVars, rowVars>>

(* VIDIOC_STREAMON: buf_queue for what is waiting, then start_streaming,   *)
(* then try_schedule.                                                      *)
StreamOn(c, t) ==
  LET qt == q[c][t] IN
  /\ DevLock /\ c \in open /\ qt.alloc /\ ~qt.on
  /\ qt.ready # << >> => "RetryStreamOn" \in Allow
  /\ StampAll(c, t, qt.queued)
  /\ q' = [q EXCEPT ![c][t] =
             [BufQueue(qt, qt.queued) EXCEPT !.queued = << >>, !.on = TRUE]]
  /\ source' = [source EXCEPT ![c].started = @ \/ t = "OUT"]
  /\ Schedule("ioctl", c, TryQueue(job, c, q'[c]))
  /\ UNCHANGED <<work, open, ctl, sets, rowVars, frames, asked>>

(* start_streaming fails: vb2 takes its buffers back, the ready list keeps *)
(* them.                                                                   *)
StreamOnFails(c) ==
  LET qt == q[c]["OUT"] IN
  /\ "StartFails" \in Allow
  /\ DevLock /\ c \in open /\ qt.alloc /\ ~qt.on /\ source[c].id = "VCAM"
  /\ qt.ready # << >> => "RetryStreamOn" \in Allow
  /\ StampAll(c, "OUT", qt.queued)
  /\ q' = [q EXCEPT ![c]["OUT"].ready = @ \o qt.queued]
  /\ UNCHANGED <<jobVars, ctxVars, rowVars, frames, asked>>

(* VIDIOC_DQBUF: the oldest done buffer; a CAPTURE buffer's row goes out. *)
DQBuf(c, t) ==
  LET qt == q[c][t]  i == Head(qt.done) IN
  /\ DevLock /\ c \in open /\ qt.on /\ qt.done # << >>
  /\ q' = [q EXCEPT ![c][t].done = Tail(@)]
  /\ BufFinish(c, IF t = "CAP" THEN {i} ELSE {})
  /\ Forget(c, t, {i})
  /\ UNCHANGED <<sequence, jobVars, ctxVars>>

(* VIDIOC_STREAMOFF: cancel the job, stop_streaming, hand every buffer     *)
(* back to the program.                                                    *)
StreamOff(c, t) ==
  /\ DevLock /\ c \in open /\ q[c][t].alloc /\ Quiet(c)
  /\ job' = CancelJob(job, c)
  /\ work' = (work \/ job.curr = c)
  /\ source' = [source EXCEPT ![c].started = @ /\ t # "OUT"]
  /\ FinishQueue(c, t)
  /\ q' = [q EXCEPT ![c][t] = [Unused EXCEPT !.alloc = TRUE]]
  /\ Forget(c, t, Index)
  /\ UNCHANGED <<sequence, run, open, ctl, sets>>

-----------------------------------------------------------------------------
(* vpipe_device_run *)

Work ==
  /\ work /\ run["worker"].at = "off"
  /\ work' = FALSE
  /\ Schedule("worker", NoCtx, job)
  /\ UNCHANGED <<ctxVars, q, rowVars, stampVars>>

Ready(c, t) == q[c][t].ready
Paired(c) == \A t \in Queues : Ready(c, t) # << >>

(* Plausible bug: the job is reported finished when it is picked. *)
RunPickFinishes(e) ==
  LET c == run[e].ctx IN
  /\ run[e].at = "pick"
  /\ run' = [run EXCEPT ![e] =
       IF ~Paired(c) THEN Off
       ELSE [@ EXCEPT !.at = "remove",
                      !.asked = asked[c][Head(Ready(c, "OUT"))],
                      !.src = Head(Ready(c, "OUT")),
                      !.dst = Head(Ready(c, "CAP"))]]
  /\ job' = TryQueue(JobFinish(job, c), c, q[c]) /\ work' = TRUE
  /\ UNCHANGED <<ctxVars, q, rowVars, stampVars>>

(* Return without finishing the job when a list is empty. *)
RunPick(e) ==
  LET c == run[e].ctx IN
  /\ run[e].at = "pick"
  /\ \E bad \in BOOLEAN :
       /\ bad => "JobFails" \in Allow
       /\ run' = [run EXCEPT ![e] =
            IF ~Paired(c) THEN Off
            ELSE [run[e] EXCEPT !.at = "remove", !.bad = bad,
                   !.asked = asked[c][Head(Ready(c, "OUT"))],
                   !.src = Head(Ready(c, "OUT")), !.dst = Head(Ready(c, "CAP"))]]
  /\ UNCHANGED <<job, work, ctxVars, q, rowVars, stampVars>>

(* Plausible bug: the buffers are looked at again instead of removed. *)
RunPeek(e) ==
  LET c == run[e].ctx IN
  /\ run[e].at = "remove"
  /\ run' = [run EXCEPT ![e] =
       IF ~Paired(c) THEN [@ EXCEPT !.at = "oops"]
       ELSE [@ EXCEPT !.at = "give", !.srcOut = Head(Ready(c, "OUT")),
                      !.dstOut = Head(Ready(c, "CAP"))]]
  /\ UNCHANGED <<job, work, q, ctxVars, rowVars, stampVars>>

(* v4l2_m2m_buf_remove *)
BufRemove(qt) == [qt EXCEPT !.ready = IF @ = << >> THEN @ ELSE Tail(@)]

(* The frame is processed; take the heads of both lists.  An empty list    *)
(* yields NULL, which is dereferenced.                                     *)
RunRemove(e) ==
  LET c == run[e].ctx IN
  /\ run[e].at = "remove"
  /\ q' = [q EXCEPT ![c] = [t \in Queues |-> BufRemove(q[c][t])]]
  /\ run' = [run EXCEPT ![e] =
       IF ~Paired(c) THEN [run[e] EXCEPT !.at = "oops"]
       ELSE [run[e] EXCEPT !.at = "give", !.srcOut = Head(Ready(c, "OUT")),
                           !.dstOut = Head(Ready(c, "CAP"))]]
  /\ UNCHANGED <<job, work, ctxVars, rowVars, stampVars>>

(* v4l2_m2m_buf_done: ignored for a buffer vb2 has taken back. *)
BufDone(qt, i) ==
  IF i \notin qt.owned THEN qt
  ELSE [qt EXCEPT !.owned = @ \ {i}, !.done = Append(@, i)]

(* Plausible bug: the number is read before it is incremented. *)
MetaOldNumber(r) ==
  [seq |-> sequence, ctx |-> r.ctx, asked |-> r.asked,
   ctl |-> stamp[r.ctx][r.src].ctl, backend |-> stamp[r.ctx][r.src].backend]

(* Plausible bug: the context's present controls end up in the metadata. *)
MetaOfContext(r) ==
  [seq |-> sequence + 1, ctx |-> r.ctx, asked |-> r.asked,
   ctl |-> ctl[r.ctx], backend |-> stamp[r.ctx][r.src].backend]

(* The row of the frame r processed; "asked" is history. *)
Meta(r) ==
  [seq |-> sequence + 1, ctx |-> r.ctx, asked |-> r.asked,
   ctl |-> stamp[r.ctx][r.src].ctl, backend |-> stamp[r.ctx][r.src].backend]

(* Both buffers go back, with two calls that are one step here; a failed   *)
(* job takes no number and leaves no row.                                  *)
RunGive(e) ==
  LET r == run[e]  c == r.ctx IN
  /\ r.at = "give"
  /\ q' = [q EXCEPT ![c]["OUT"] = BufDone(q[c]["OUT"], r.srcOut),
                    ![c]["CAP"] = BufDone(q[c]["CAP"], r.dstOut)]
  /\ run' = [run EXCEPT ![e] = [Off EXCEPT !.at = "finish", !.ctx = c,
                                           !.by = r.by, !.bad = r.bad]]
  /\ IF r.bad THEN UNCHANGED <<sequence, pend>>
     ELSE /\ sequence' = sequence + 1
          /\ pend' = [pend EXCEPT ![c][r.dstOut] = Meta(r)]
  /\ UNCHANGED <<job, work, ctxVars, rows, stampVars>>

(* Plausible bug: the error path returns without finishing the job. *)
RunFinishUnlessBad(e) ==
  LET c == run[e].ctx IN
  /\ run[e].at = "finish"
  /\ run' = [run EXCEPT ![e] = Off]
  /\ IF job.curr = c /\ ~run[e].bad
     THEN job' = TryQueue(JobFinish(job, c), c, q[c]) /\ work' = TRUE
     ELSE UNCHANGED <<job, work>>
  /\ UNCHANGED <<ctxVars, q, rowVars, stampVars>>

(* v4l2_m2m_job_finish: queue the next pair and schedule the work item. *)
RunFinish(e) ==
  LET c == run[e].ctx IN
  /\ run[e].at = "finish"
  /\ run' = [run EXCEPT ![e] = Off]
  /\ IF job.curr = c
     THEN job' = TryQueue(JobFinish(job, c), c, q[c]) /\ work' = TRUE
     ELSE UNCHANGED <<job, work>>
  /\ UNCHANGED <<ctxVars, q, rowVars, stampVars>>

DeviceRun(e) == RunPick(e) \/ RunRemove(e) \/ RunGive(e) \/ RunFinish(e)

Next ==
  \/ Work
  \/ \E e \in Executors : DeviceRun(e)
  \/ \E c \in Ctxs :
       \/ Open(c) \/ Release(c) \/ StreamOnFails(c)
       \/ \E v \in Ctls : SetCtrl(c, v)
       \/ \E b \in Backends : SetBackend(c, b)
       \/ \E t \in Queues :
            \/ StreamOn(c, t) \/ StreamOff(c, t) \/ DQBuf(c, t)
            \/ \E b \in BOOLEAN : ReqBufs(c, t, b)
            \/ \E i \in Index : QBuf(c, t, i)

(* Kernel code that has been entered runs on; the work queue runs what was *)
(* scheduled.  Nothing is assumed of the program.                          *)
Fairness ==
  /\ WF_vars(Work)
  /\ \A e \in Executors : WF_vars(DeviceRun(e))

Spec == Init /\ [][Next]_vars /\ Fairness
-----------------------------------------------------------------------------
RowSet == [seq : 1 .. MaxFrames, ctx : Ctxs, ctl : Ctls,
           backend : Backends \cup {"none"},
           asked : [frame : 1 .. MaxFrames, ctl : Ctls, streaming : BOOLEAN]]

(* The buffer and job records have their shapes; in particular no pending  *)
(* row has number 0, which vpipe_buf_finish takes for "no row".            *)
TypeOK ==
  /\ sequence \in 0 .. MaxFrames /\ frames \in 0 .. MaxFrames
  /\ sets \in 0 .. MaxSets
  /\ job.curr \in Ctxs \cup {NoCtx} /\ job.queue \in Seq(Ctxs)
  /\ \A c \in Ctxs : job.flags[c] \subseteq {"QUEUED", "RUNNING"}
  /\ work \in BOOLEAN
  /\ \A e \in Executors :
       run[e].at \in {"off", "pick", "remove", "give", "finish", "oops"}
  /\ open \subseteq Ctxs
  /\ ctl \in [Ctxs -> Ctls]
  /\ source \in [Ctxs -> [id : Backends, started : BOOLEAN]]
  /\ \A c \in Ctxs, t \in Queues :
       /\ q[c][t].queued \in Seq(Index) /\ q[c][t].ready \in Seq(Index)
       /\ q[c][t].done \in Seq(Index) /\ q[c][t].owned \subseteq Index
  /\ stamp \in [Ctxs -> [Index -> [ctl : Ctls,
                                   backend : Backends \cup {"none"}]]]
  /\ pend \in [Ctxs -> [Index -> RowSet \cup {NoRow}]]
  /\ \A n \in DOMAIN rows : rows[n] \in RowSet

Pending == {b \in Ctxs \X Index : pend[b[1]][b[2]] # NoRow}
PendingRow(b) == pend[b[1]][b[2]]
Produced == Range(rows) \cup {PendingRow(b) : b \in Pending}

(* Every processed frame has exactly one metadata row: published once, or  *)
(* pending in one CAPTURE buffer the program can still dequeue             *)
(* (vpipe_device_run, vpipe_buf_finish; also across STREAMOFF and close).  *)
OneRowPerFrame ==
  /\ \A n \in 1 .. sequence :
       Cardinality({k \in DOMAIN rows : rows[k].seq = n})
       + Cardinality({b \in Pending : PendingRow(b).seq = n}) = 1
  /\ \A b \in Pending : b[2] \in Range(q[b[1]]["CAP"].done)

(* A frame queued on a streaming queue is processed with the controls of   *)
(* its QBUF, whatever S_CTRL did while it waited (vpipe_buf_queue).        *)
QueuedControlsUsed ==
  \A r \in Produced : r.asked.streaming => r.ctl = r.asked.ctl

(* "in-flight buffers stay paired with the producer that stamped them":    *)
(* a buffer waiting for its job carries the backend the context still has, *)
(* or none (vpipe_default_ioctl, VPIPE_IOC_SET_BACKEND).                   *)
ProducerPaired ==
  \A c \in Ctxs : q[c]["OUT"].on =>
    \A i \in Range(q[c]["OUT"].ready) :
      stamp[c][i].backend \in {source[c].id, "none"}

(* The pair device_run processed is the pair it gives back, and there is   *)
(* one: nobody empties or reorders the ready lists while it computes       *)
(* (vpipe_device_run).                                                     *)
PairStable ==
  \A e \in Executors :
    /\ run[e].at # "oops"
    /\ run[e].at = "give" =>
         /\ run[e].srcOut = run[e].src /\ run[e].dstOut = run[e].dst
         /\ asked[run[e].ctx][run[e].srcOut] = run[e].asked

Removed(c, t) ==
  {IF t = "OUT" THEN run[e].srcOut ELSE run[e].dstOut :
     e \in {x \in Executors : run[x].ctx = c /\ run[x].at = "give"}}

(* On a streaming queue each buffer is in one place: waiting on the ready  *)
(* list or held by the running job while the driver owns it, else on the   *)
(* done list or with the program (v4l2_m2m_*_buf_remove before buf_done).  *)
BufferOwnership ==
  \A c \in Ctxs, t \in Queues : q[c][t].on =>
    LET qt == q[c][t] IN
    /\ qt.queued = << >>
    /\ IsInjective(qt.ready) /\ IsInjective(qt.done)
    /\ qt.owned = Range(qt.ready) \cup Removed(c, t)
    /\ Range(qt.ready) \cap Removed(c, t) = {}
    /\ qt.owned \cap Range(qt.done) = {}

BothOn(c) == \A t \in Queues : q[c][t].on

(* No job is lost: an OUTPUT buffer waiting on a streaming context with a  *)
(* CAPTURE buffer is processed, also after a job of it failed and whoever  *)
(* else uses the device (every path of device_run ends in job_finish).     *)
JobsComplete ==
  \A c \in Ctxs, i \in Index :
    (BothOn(c) /\ Paired(c) /\ i \in Range(Ready(c, "OUT")))
      ~> (~BothOn(c) \/ ~Paired(c) \/ i \notin Range(Ready(c, "OUT")))

Waiting(c, t) ==
  IF q[c][t].on THEN SetToSeq(Removed(c, t)) \o Ready(c, t) ELSE q[c][t].queued
FrameIn(c, i) == IF pend[c][i] = NoRow THEN 0 ELSE pend[c][i].asked.frame

(* The file c as the contract sees it: a job happens when it gives its     *)
(* buffers back.                                                           *)
Streaming(c) == {t \in Queues : q[c][t].on}
OutShown(c) ==
  [k \in DOMAIN Waiting(c, "OUT") |->
     [idx |-> Waiting(c, "OUT")[k],
      frame |-> asked[c][Waiting(c, "OUT")[k]].frame]]
CapShown(c) ==
  [k \in DOMAIN q[c]["CAP"].done |->
     [idx |-> q[c]["CAP"].done[k], frame |-> FrameIn(c, q[c]["CAP"].done[k])]]
RowsFor(c) ==
  [n \in {k \in DOMAIN rows : rows[k].ctx = c} |-> rows[n].asked.frame]

File(c) == INSTANCE Node WITH
  Frame <- 1 .. MaxFrames,
  NoFrame <- 0,
  on <- Streaming(c),
  outQ <- OutShown(c),
  capQ <- Waiting(c, "CAP"),
  outDone <- q[c]["OUT"].done,
  capDone <- CapShown(c),
  rows <- RowsFor(c)

(* Every file keeps the contract of Node whatever other files do: no step  *)
(* of the device, the framework or another program is visible through it   *)
(* but as one of Node's steps (vpipe_device_run, vpipe_buf_finish,         *)
(* vpipe_stop_streaming).                                                  *)
ImplementsNode ==
  /\ \A c \in Ctxs : File(c)!Init
  /\ [][\A c \in Ctxs : [File(c)!Next]_(File(c)!nodeVars)]_vars

(* README: per-buffer controls "are snapshotted at QBUF time".             *)
SnapshotAtQbuf == \A r \in Produced : r.ctl = r.asked.ctl
=============================================================================
