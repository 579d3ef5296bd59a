-------------------------------- MODULE Node --------------------------------
(***************************************************************************)
(* What one open file of the video node promises the program that uses it, *)
(* whoever else uses the device: two FIFO queues; a job takes the oldest   *)
(* buffer of each while both stream, and returns both; the frame's row is  *)
(* published when its CAPTURE buffer leaves the queue, once, and in the    *)
(* order of dequeueing, or of the index if the queue is stopped; a frame   *)
(* whose job failed has none.                                              *)
(*                                                                         *)
(* M2M implements it; the programs of Tools are checked over it.           *)
(***************************************************************************)
EXTENDS Naturals, Sequences, FiniteSets

CONSTANTS
  Index,    \* buffer indices of a queue
  Frame,    \* identities of frames
  NoFrame   \* in a CAPTURE buffer: its job failed

VARIABLES
  on,       \* queues that are streaming
  outQ,     \* OUTPUT buffers waiting, with their frames
  capQ,     \* CAPTURE buffers waiting
  outDone,  \* OUTPUT buffers to be dequeued
  capDone,  \* CAPTURE buffers to be dequeued, with the frames they show
  rows      \* this file's rows: place in the metadata stream -> frame

nodeVars == <<on, outQ, capQ, outDone, capDone, rows>>

Indices(queue) == {queue[k] : k \in DOMAIN queue}
Of(bufs) == {bufs[k].idx : k \in DOMAIN bufs}
OutHeld == Of(outQ) \cup Indices(outDone)
CapHeld == Indices(capQ) \cup Of(capDone)

(* The frames fs get the next places, after every row of this file. *)
Publish(fs) ==
  \/ fs = << >> /\ UNCHANGED rows
  \/ \E at \in DOMAIN rows' :
       /\ \A n \in DOMAIN rows : n < at
       /\ rows' = [n \in DOMAIN rows \cup at .. at + Len(fs) - 1 |->
                     IF n < at THEN rows[n] ELSE fs[n - at + 1]]

(* The queue is stopped: what it holds is published in the order of the    *)
(* index.                                                                  *)
Good == {k \in DOMAIN capDone : capDone[k].frame # NoFrame}
PublishAll ==
  \E n \in 0 .. Len(capDone) : \E s \in [1 .. n -> Good] :
    /\ \A k \in Good : \E a \in 1 .. n : s[a] = k
    /\ \A a, b \in 1 .. n : a < b => capDone[s[a]].idx < capDone[s[b]].idx
    /\ Publish([a \in 1 .. n |-> capDone[s[a]].frame])

Init ==
  /\ on = {} /\ outQ = << >> /\ capQ = << >>
  /\ outDone = << >> /\ capDone = << >> /\ DOMAIN rows = {}

QueueOutput ==
  /\ \E i \in Index \ OutHeld, f \in Frame :
       outQ' = Append(outQ, [idx |-> i, frame |-> f])
  /\ UNCHANGED <<on, capQ, outDone, capDone, rows>>

(* one or several in a row *)
QueueCapture ==
  /\ \E n \in 1 .. Cardinality(Index) : \E is \in [1 .. n -> Index \ CapHeld] :
       /\ \A a, b \in 1 .. n : is[a] = is[b] => a = b
       /\ capQ' = capQ \o is
  /\ UNCHANGED <<on, outQ, outDone, capDone, rows>>

Start(t) ==
  /\ on' = on \cup {t}
  /\ UNCHANGED <<outQ, capQ, outDone, capDone, rows>>

Job ==
  /\ on = {"OUT", "CAP"} /\ outQ # << >> /\ capQ # << >>
  /\ outQ' = Tail(outQ) /\ outDone' = Append(outDone, Head(outQ).idx)
  /\ capQ' = Tail(capQ)
  /\ \E f \in {Head(outQ).frame, NoFrame} :
       capDone' = Append(capDone, [idx |-> Head(capQ), frame |-> f])
  /\ UNCHANGED <<on, rows>>

DequeueOutput ==
  /\ "OUT" \in on /\ outDone # << >> /\ outDone' = Tail(outDone)
  /\ UNCHANGED <<on, outQ, capQ, capDone, rows>>

DequeueCapture ==
  /\ "CAP" \in on /\ capDone # << >> /\ capDone' = Tail(capDone)
  /\ LET f == Head(capDone).frame IN Publish(IF f = NoFrame THEN << >> ELSE <<f>>)
  /\ UNCHANGED <<on, outQ, capQ, outDone>>

StopOutput ==
  /\ on' = on \ {"OUT"} /\ outQ' = << >> /\ outDone' = << >>
  /\ UNCHANGED <<capQ, capDone, rows>>

StopCapture ==
  /\ on' = on \ {"CAP"} /\ capQ' = << >> /\ capDone' = << >>
  /\ PublishAll
  /\ UNCHANGED <<outQ, outDone>>

Close ==
  /\ on' = {} /\ outQ' = << >> /\ outDone' = << >>
  /\ capQ' = << >> /\ capDone' = << >>
  /\ PublishAll

Next ==
  \/ QueueOutput \/ QueueCapture \/ Job \/ DequeueOutput \/ DequeueCapture
  \/ \E t \in {"OUT", "CAP"} : Start(t)
  \/ StopOutput \/ StopCapture \/ Close

Spec == Init /\ [][Next]_nodeVars
=============================================================================
