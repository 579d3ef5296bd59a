------------------------------- MODULE TinyCV -------------------------------
(***************************************************************************)
(* The frame processing of kmod/vpipe-cv.c, one call of vpipe_cv_process,  *)
(* against the userspace mirror in user/vpipe-common.c                     *)
(* (vpipe_threshold_reference) that the fixture harness compares it with.  *)
(*                                                                         *)
(* A frame is a function of row and column: strides are layout and are     *)
(* left out.  Integers are mathematical: the kernel widens the additions   *)
(* of the clamp to s64, and everything after the clamp is bounded by the   *)
(* frame.                                                                  *)
(***************************************************************************)
EXTENDS Integers, FiniteSets

CONSTANTS
  Width, Height,  \* job->width, job->height
  Black, White,   \* 0 and 255
  Pixels,         \* pixel values
  Thresholds,     \* values of the threshold control
  Rois,           \* regions of interest the caller may pass
  Srcs,           \* source frames
  Olds,           \* what the destination buffer holds before the call
  Algos           \* algorithm ids: "NONE", "THRESHOLD", anything else

Rows == 0 .. Height - 1
Cols == 0 .. Width - 1
Frames == [Rows -> [Cols -> Pixels]]

ASSUME FrameAssumption ==
  /\ Width \in Nat /\ Height \in Nat
  /\ Pixels \subseteq Int /\ Thresholds \subseteq Int
  /\ Black \in Pixels /\ White \in Pixels /\ Black # White
  /\ Srcs \subseteq Frames /\ Olds \subseteq Frames
  /\ Rois \subseteq [left : Int, top : Int, width : Int, height : Int]

VARIABLES
  src,        \* job->src
  dst,        \* job->dst
  algo,       \* algo_id
  threshold,
  roi,        \* the caller's region
  old,        \* history: dst before the call
  clamped,    \* the region after vpipe_clamp_roi
  pc,         \* where the call is
  row,        \* loop variable of vpipe_copy_frame
  x, y,       \* loop variables of vpipe_threshold_frame
  white, black

args == <<src, algo, threshold, roi, old>>
vars == <<src, dst, algo, threshold, roi, old, clamped, pc, row, x, y, white,
          black>>

NoRoi == [left |-> 0, top |-> 0, width |-> 0, height |-> 0]

Init ==
  /\ src \in Srcs /\ old \in Olds /\ dst = old
  /\ algo \in Algos /\ threshold \in Thresholds /\ roi \in Rois
  /\ clamped = NoRoi
  /\ pc = "call"
  /\ row = 0 /\ x = 0 /\ y = 0 /\ white = 0 /\ black = 0

(* clamp_t *)
Clamp(v, lo, hi) == IF v < lo THEN lo ELSE IF v > hi THEN hi ELSE v

(* Plausible bug: a region that starts before the frame is not moved.      *)
ClampRoiNegative(r) ==
  IF r.width <= 0 \/ r.height <= 0
  THEN [left |-> 0, top |-> 0, width |-> Width, height |-> Height]
  ELSE LET left == Clamp(r.left, r.left, Width)
           top  == Clamp(r.top, 0, Height)
       IN  [left |-> left, top |-> top,
            width |-> Clamp(left + r.width, left, Width) - left,
            height |-> Clamp(top + r.height, top, Height) - top]

(* Plausible bug: the right edge ignores where the clamped region starts.  *)
ClampRoiUnshifted(r) ==
  IF r.width <= 0 \/ r.height <= 0
  THEN [left |-> 0, top |-> 0, width |-> Width, height |-> Height]
  ELSE LET left == Clamp(r.left, 0, Width)
           top  == Clamp(r.top, 0, Height)
       IN  [left |-> left, top |-> top,
            width |-> Clamp(r.width, 0, Width),
            height |-> Clamp(r.height, 0, Height)]

ClampRoi(r) ==
  IF r.width <= 0 \/ r.height <= 0
  THEN [left |-> 0, top |-> 0, width |-> Width, height |-> Height]
  ELSE LET left == Clamp(r.left, 0, Width)
           top  == Clamp(r.top, 0, Height)
       IN  [left |-> left, top |-> top,
            width |-> Clamp(left + r.width, left, Width) - left,
            height |-> Clamp(top + r.height, top, Height) - top]

(* vpipe_cv_process: clamp, then the switch on the algorithm. *)
Process ==
  /\ pc = "call"
  /\ clamped' = ClampRoi(roi)
  /\ pc' = IF algo \in {"NONE", "THRESHOLD"} THEN "copy" ELSE "rejected"
  /\ UNCHANGED <<args, dst, row, x, y, white, black>>

CopyRow ==
  /\ pc = "copy" /\ row < Height
  /\ dst' = [dst EXCEPT ![row] = src[row]]
  /\ row' = row + 1
  /\ UNCHANGED <<args, clamped, pc, x, y, white, black>>

CopyDone ==
  /\ pc = "copy" /\ row = Height
  /\ pc' = IF algo = "THRESHOLD" THEN "pixels" ELSE "done"
  /\ x' = clamped.left /\ y' = clamped.top
  /\ UNCHANGED <<args, dst, clamped, row, white, black>>

(* Plausible bug: the comparison is not strict. *)
LevelInclusive(p) == IF p >= threshold THEN White ELSE Black

Level(p) == IF p > threshold THEN White ELSE Black

InRow == y < clamped.top + clamped.height
InCol == x < clamped.left + clamped.width

(* Plausible bug: only one of the two counters is kept. *)
ThresholdPixelOneCounter ==
  /\ pc = "pixels" /\ InRow /\ InCol
  /\ dst' = [dst EXCEPT ![y][x] = Level(src[y][x])]
  /\ white' = IF Level(src[y][x]) # Black THEN white + 1 ELSE white
  /\ x' = x + 1
  /\ UNCHANGED <<args, clamped, pc, row, y, black>>

(* Plausible bug: the source pixel is counted, not the level written.      *)
ThresholdPixelCountsSource ==
  /\ pc = "pixels" /\ InRow /\ InCol
  /\ dst' = [dst EXCEPT ![y][x] = Level(src[y][x])]
  /\ white' = IF src[y][x] # Black THEN white + 1 ELSE white
  /\ black' = IF src[y][x] # Black THEN black ELSE black + 1
  /\ x' = x + 1
  /\ UNCHANGED <<args, clamped, pc, row, y>>

ThresholdPixel ==
  /\ pc = "pixels" /\ InRow /\ InCol
  /\ dst' = [dst EXCEPT ![y][x] = Level(src[y][x])]
  /\ white' = IF Level(src[y][x]) # Black THEN white + 1 ELSE white
  /\ black' = IF Level(src[y][x]) # Black THEN black ELSE black + 1
  /\ x' = x + 1
  /\ UNCHANGED <<args, clamped, pc, row, y>>

ThresholdRow ==
  /\ pc = "pixels" /\ InRow /\ ~InCol
  /\ y' = y + 1 /\ x' = clamped.left
  /\ UNCHANGED <<args, dst, clamped, pc, row, white, black>>

ThresholdDone ==
  /\ pc = "pixels" /\ ~InRow
  /\ pc' = "done"
  /\ UNCHANGED <<args, dst, clamped, row, x, y, white, black>>

Next ==
  \/ Process \/ CopyRow \/ CopyDone
  \/ ThresholdPixel \/ ThresholdRow \/ ThresholdDone

Spec == Init /\ [][Next]_vars

-----------------------------------------------------------------------------
(* The userspace mirror, vpipe_threshold_reference.  Its edges are         *)
(* unsigned and it avoids the addition that could overflow.                *)

RefLow(v, size) == IF v < 0 THEN 0 ELSE IF v > size THEN size ELSE v
RefHigh(v, low, size) == IF v > size - low THEN size ELSE low + v

RefLevel(p) == IF p > threshold THEN White ELSE Black

RefEdges(r) ==
  IF r.width <= 0 \/ r.height <= 0
  THEN [left |-> 0, top |-> 0, right |-> Width, bottom |-> Height]
  ELSE [left |-> RefLow(r.left, Width), top |-> RefLow(r.top, Height),
        right |-> RefHigh(r.width, RefLow(r.left, Width), Width),
        bottom |-> RefHigh(r.height, RefLow(r.top, Height), Height)]

ThresholdReference(s, r) ==
  LET e == RefEdges(r) IN
  [i \in Rows |-> [k \in Cols |->
     IF e.top <= i /\ i < e.bottom /\ e.left <= k /\ k < e.right
     THEN RefLevel(s[i][k]) ELSE s[i][k]]]

-----------------------------------------------------------------------------
(* Every variable has its type: dst holds pixels, the counters of the      *)
(* loops and the clamped region natural numbers.                           *)
TypeOK ==
  /\ src \in Frames /\ dst \in Frames /\ old \in Frames
  /\ threshold \in Int
  /\ roi \in [left : Int, top : Int, width : Int, height : Int]
  /\ clamped \in [left : Nat, top : Nat, width : Nat, height : Nat]
  /\ pc \in {"call", "copy", "pixels", "done", "rejected"}
  /\ row \in 0 .. Height /\ x \in Nat /\ y \in Nat
  /\ white \in Nat /\ black \in Nat

(* The loops of vpipe_threshold_frame index the frame: the clamped region  *)
(* lies inside it, whatever region the caller passed.                      *)
RoiInside ==
  /\ clamped.left + clamped.width <= Width
  /\ clamped.top + clamped.height <= Height
  /\ pc = "pixels" /\ InRow /\ InCol => y \in Rows /\ x \in Cols

(* vpipe_cv_process computes what the userspace mirror computes, for every *)
(* region: thresholded inside, untouched border; NONE is a copy; a rejected*)
(* algorithm writes nothing.                                               *)
OutputIsReference ==
  /\ pc = "done" => dst = IF algo = "THRESHOLD"
                          THEN ThresholdReference(src, roi) ELSE src
  /\ pc = "rejected" => dst = old

(* algo_value0 and algo_value1 of the row count every pixel of the clamped *)
(* region once (vpipe_threshold_frame).                                    *)
CountsCoverRoi ==
  pc = "done" /\ algo = "THRESHOLD" =>
    white + black = clamped.width * clamped.height

(* algo_value0 is the number of white pixels the frame shows there. *)
WhiteCounted ==
  pc = "done" /\ algo = "THRESHOLD" =>
    white = Cardinality({p \in Rows \X Cols :
               /\ p[1] >= clamped.top /\ p[1] < clamped.top + clamped.height
               /\ p[2] >= clamped.left /\ p[2] < clamped.left + clamped.width
               /\ dst[p[1]][p[2]] = White})

-----------------------------------------------------------------------------
(* The inductive invariant behind the theorems of TinyCVProofs. *)

Inside(i, k) ==
  /\ clamped.top <= i /\ i < clamped.top + clamped.height
  /\ clamped.left <= k /\ k < clamped.left + clamped.width

(* The pixels the two loops have been through. *)
Visited(i, k) == i < y \/ (i = y /\ k < x)

IndCopy ==
  \A i \in Rows : dst[i] = IF i < row THEN src[i] ELSE old[i]

IndPixels ==
  \A i \in Rows, k \in Cols :
    dst[i][k] = IF Inside(i, k) /\ Visited(i, k)
                THEN Level(src[i][k]) ELSE src[i][k]

IndCounts ==
  white + black = (y - clamped.top) * clamped.width + (x - clamped.left)

IndControl ==
  /\ pc = "call" => dst = old /\ row = 0 /\ clamped = NoRoi
  /\ pc # "call" => clamped = ClampRoi(roi)
  /\ pc \in {"call", "copy"} => white = 0 /\ black = 0
  /\ pc \in {"copy", "pixels"} => algo \in {"NONE", "THRESHOLD"}
  /\ pc = "pixels" => algo = "THRESHOLD"

(* The loop variables; after the last row x is back at the left edge. *)
IndLoops ==
  /\ clamped.top <= y /\ y <= clamped.top + clamped.height
  /\ clamped.left <= x /\ x <= clamped.left + clamped.width
  /\ y = clamped.top + clamped.height => x = clamped.left

IndInv ==
  /\ TypeOK /\ IndControl
  /\ pc = "copy" => IndCopy
  /\ pc = "pixels" => IndPixels /\ IndCounts /\ IndLoops
  /\ OutputIsReference /\ CountsCoverRoi
=============================================================================
