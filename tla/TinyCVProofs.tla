---------------------------- MODULE TinyCVProofs ----------------------------
(***************************************************************************)
(* Proofs about TinyCV, for every frame size, every region of interest,    *)
(* every threshold and every image.                                        *)
(***************************************************************************)
EXTENDS TinyCV, FiniteSetTheorems, TLAPS

USE FrameAssumption

Regions == [left : Int, top : Int, width : Int, height : Int]

(* The clamp of vpipe_clamp_roi yields a region inside the frame. *)
LEMMA ClampInside ==
  ASSUME NEW r \in Regions
  PROVE  /\ ClampRoi(r) \in [left : Nat, top : Nat, width : Nat, height : Nat]
         /\ ClampRoi(r).left + ClampRoi(r).width <= Width
         /\ ClampRoi(r).top + ClampRoi(r).height <= Height
<1>1. CASE r.width <= 0 \/ r.height <= 0
  BY <1>1 DEF ClampRoi, Regions
<1>2. CASE ~(r.width <= 0 \/ r.height <= 0)
  <2> DEFINE left == Clamp(r.left, 0, Width)
             top == Clamp(r.top, 0, Height)
             right == Clamp(left + r.width, left, Width)
             bottom == Clamp(top + r.height, top, Height)
  <2>1. left \in Nat /\ left <= Width /\ top \in Nat /\ top <= Height
    BY DEF Clamp, Regions
  <2>2. /\ right \in Nat /\ left <= right /\ right <= Width
        /\ bottom \in Nat /\ top <= bottom /\ bottom <= Height
    <3> HIDE DEF left, top
    <3> QED
      BY <2>1, <1>2 DEF Clamp, Regions
  <2>3. ClampRoi(r) = [left |-> left, top |-> top, width |-> right - left,
                       height |-> bottom - top]
    BY <1>2 DEF ClampRoi
  <2> HIDE DEF left, top, right, bottom
  <2> QED
    BY <2>1, <2>2, <2>3
<1> QED
  BY <1>1, <1>2

(* The kernel's clamp and the userspace mirror's agree on every region. *)
LEMMA ClampsAgree ==
  ASSUME NEW r \in Regions
  PROVE  /\ RefEdges(r).left = ClampRoi(r).left
         /\ RefEdges(r).top = ClampRoi(r).top
         /\ RefEdges(r).right = ClampRoi(r).left + ClampRoi(r).width
         /\ RefEdges(r).bottom = ClampRoi(r).top + ClampRoi(r).height
<1>1. CASE r.width <= 0 \/ r.height <= 0
  BY <1>1 DEF ClampRoi, RefEdges, Regions
<1>2. CASE ~(r.width <= 0 \/ r.height <= 0)
  <2> DEFINE left == Clamp(r.left, 0, Width)
             top == Clamp(r.top, 0, Height)
  <2>1. left \in Nat /\ left <= Width /\ top \in Nat /\ top <= Height
    BY DEF Clamp, Regions
  <2>2. RefLow(r.left, Width) = left /\ RefLow(r.top, Height) = top
    BY DEF Clamp, RefLow, Regions
  <2>3. ClampRoi(r) =
          [left |-> left, top |-> top,
           width |-> Clamp(left + r.width, left, Width) - left,
           height |-> Clamp(top + r.height, top, Height) - top]
    BY <1>2 DEF ClampRoi
  <2>4. RefEdges(r) =
          [left |-> left, top |-> top,
           right |-> RefHigh(r.width, left, Width),
           bottom |-> RefHigh(r.height, top, Height)]
    BY <1>2, <2>2 DEF RefEdges
  <2> HIDE DEF left, top
  <2>5. /\ RefHigh(r.width, left, Width)
             = left + (Clamp(left + r.width, left, Width) - left)
        /\ RefHigh(r.height, top, Height)
             = top + (Clamp(top + r.height, top, Height) - top)
    BY <1>2, <2>1 DEF Clamp, RefHigh, Regions
  <2> QED
    BY <2>3, <2>4, <2>5
<1> QED
  BY <1>1, <1>2

(* A threshold level is a pixel value. *)
LEMMA LevelIsPixel ==
  ASSUME NEW p
  PROVE  Level(p) \in Pixels
  BY DEF Level

(* The clamped region, and with it every index of the loops, is inside.    *)
LEMMA IndImpliesInside ==
  ASSUME IndInv
  PROVE  RoiInside
<1>1. TypeOK /\ (pc # "call" => clamped = ClampRoi(roi))
             /\ (pc = "call" => clamped = NoRoi)
  BY DEF IndInv, IndControl
<1>2. pc = "pixels" => clamped.top <= y /\ clamped.left <= x
  BY DEF IndInv, IndLoops
<1>3. /\ clamped.left + clamped.width <= Width
      /\ clamped.top + clamped.height <= Height
  <2>1. CASE pc = "call"
    BY <1>1, <2>1 DEF NoRoi
  <2>2. CASE pc # "call"
    BY <1>1, <2>2, ClampInside DEF TypeOK, Regions
  <2> QED
    BY <2>1, <2>2
<1>4. /\ clamped.left \in Nat /\ clamped.width \in Nat
      /\ clamped.top \in Nat /\ clamped.height \in Nat
      /\ x \in Nat /\ y \in Nat
  BY <1>1 DEF TypeOK
<1> QED
  BY <1>2, <1>3, <1>4 DEF RoiInside, InRow, InCol, Rows, Cols

(* Every step of vpipe_cv_process keeps the types: what it writes is a     *)
(* pixel of the frame.                                                     *)
LEMMA TypeStep ==
  ASSUME IndInv, [Next]_vars
  PROVE  TypeOK'
<1> USE DEF args
<1>1. TypeOK
  BY DEF IndInv
<1>2. CASE Process
  <2>1. clamped' \in [left : Nat, top : Nat, width : Nat, height : Nat]
    BY <1>1, <1>2, ClampInside DEF Process, TypeOK, Regions
  <2> QED
    BY <1>1, <1>2, <2>1 DEF Process, TypeOK
<1>3. CASE CopyRow
  <2>1. src[row] \in [Cols -> Pixels] /\ row \in Rows
    BY <1>1, <1>3 DEF CopyRow, TypeOK, Frames, Rows
  <2>2. dst' \in Frames
    BY <1>1, <1>3, <2>1 DEF CopyRow, TypeOK, Frames
  <2> QED
    BY <1>1, <1>3, <2>2 DEF CopyRow, TypeOK
<1>4. CASE CopyDone
  BY <1>1, <1>4 DEF CopyDone, TypeOK
<1>5. CASE ThresholdPixel
  <2>1. y \in Rows /\ x \in Cols
    BY <1>5, IndImpliesInside DEF ThresholdPixel, RoiInside
  <2>2. dst' \in Frames
    <3>1. dst[y] \in [Cols -> Pixels]
      BY <1>1, <2>1 DEF TypeOK, Frames
    <3>2. [dst[y] EXCEPT ![x] = Level(src[y][x])] \in [Cols -> Pixels]
      BY <3>1, LevelIsPixel
    <3>3. dst' = [dst EXCEPT ![y] = [dst[y] EXCEPT ![x] = Level(src[y][x])]]
      BY <1>5 DEF ThresholdPixel
    <3> QED
      BY <1>1, <3>2, <3>3 DEF TypeOK, Frames
  <2>3. white' \in Nat /\ black' \in Nat /\ x' \in Nat
    BY <1>1, <1>5 DEF ThresholdPixel, TypeOK
  <2> QED
    BY <1>1, <1>5, <2>2, <2>3 DEF ThresholdPixel, TypeOK
<1>6. CASE ThresholdRow
  BY <1>1, <1>6 DEF ThresholdRow, TypeOK
<1>7. CASE ThresholdDone
  BY <1>1, <1>7 DEF ThresholdDone, TypeOK
<1>8. CASE UNCHANGED vars
  BY <1>1, <1>8 DEF vars, TypeOK
<1> QED
  BY <1>2, <1>3, <1>4, <1>5, <1>6, <1>7, <1>8 DEF Next

(* Control: the region is clamped once, the counters start at zero. *)
LEMMA ControlStep ==
  ASSUME IndInv, [Next]_vars
  PROVE  IndControl'
<1>1. IndControl
  BY DEF IndInv
<1> QED
  BY <1>1 DEF IndControl, Next, Process, CopyRow, CopyDone, ThresholdPixel,
              ThresholdRow, ThresholdDone, vars, args

(* vpipe_copy_frame: the rows before the loop variable are the source's. *)
LEMMA CopyStep ==
  ASSUME IndInv, [Next]_vars, pc' = "copy"
  PROVE  IndCopy'
<1> USE DEF args
<1>1. TypeOK
  BY DEF IndInv
<1>2. CASE Process
  BY <1>1, <1>2 DEF Process, IndInv, IndControl, IndCopy, TypeOK, Rows
<1>3. CASE CopyRow
  <2>1. IndCopy
    BY <1>3 DEF CopyRow, IndInv
  <2>2. \A i \in Rows : dst'[i] = IF i = row THEN src[row] ELSE dst[i]
    BY <1>1, <1>3 DEF CopyRow, TypeOK, Frames
  <2>3. row' = row + 1 /\ src' = src /\ old' = old /\ row \in Nat
    BY <1>1, <1>3 DEF CopyRow, TypeOK
  <2> QED
    BY <2>1, <2>2, <2>3 DEF IndCopy, Rows
<1>4. CASE UNCHANGED vars
  BY <1>4 DEF vars, IndInv, IndCopy
<1> QED
  BY <1>2, <1>3, <1>4 DEF Next, CopyDone, ThresholdPixel, ThresholdRow,
                          ThresholdDone

(* The bounds of the two loops. *)
LEMMA LoopsStep ==
  ASSUME IndInv, [Next]_vars, pc' = "pixels"
  PROVE  IndLoops'
<1> USE DEF args
<1>1. /\ clamped.left \in Nat /\ clamped.width \in Nat
      /\ clamped.top \in Nat /\ clamped.height \in Nat
      /\ x \in Nat /\ y \in Nat
  BY DEF IndInv, TypeOK
<1>2. pc = "pixels" => IndLoops
  BY DEF IndInv
<1>3. CASE CopyDone
  BY <1>1, <1>3 DEF CopyDone, IndLoops
<1>4. CASE ThresholdPixel
  BY <1>1, <1>2, <1>4 DEF ThresholdPixel, InRow, InCol, IndLoops
<1>5. CASE ThresholdRow
  BY <1>1, <1>2, <1>5 DEF ThresholdRow, InRow, InCol, IndLoops
<1>6. CASE UNCHANGED vars
  BY <1>2, <1>6 DEF vars, IndLoops
<1> QED
  BY <1>3, <1>4, <1>5, <1>6 DEF Next, Process, CopyRow, ThresholdDone

(* vpipe_threshold_frame: visited pixels of the region are at their level, *)
(* all others are the source's.                                            *)
LEMMA PixelsStep ==
  ASSUME IndInv, [Next]_vars, pc' = "pixels"
  PROVE  IndPixels'
<1> USE DEF args
<1>1. TypeOK
  BY DEF IndInv
<1>2. /\ clamped.left \in Nat /\ clamped.width \in Nat
      /\ clamped.top \in Nat /\ clamped.height \in Nat
      /\ x \in Nat /\ y \in Nat
  BY <1>1 DEF TypeOK
<1>3. CASE CopyDone
  <2>1. IndCopy /\ row = Height
    BY <1>3 DEF CopyDone, IndInv
  <2>2. \A i \in Rows : dst[i] = src[i]
    BY <2>1 DEF IndCopy, Rows
  <2>3. /\ x' = clamped.left /\ y' = clamped.top
        /\ dst' = dst /\ src' = src /\ clamped' = clamped
    BY <1>3 DEF CopyDone
  <2>4. \A i \in Rows, k \in Cols : ~(Inside(i, k)' /\ Visited(i, k)')
    BY <1>2, <2>3 DEF Inside, Visited, Rows, Cols
  <2> QED
    BY <2>2, <2>3, <2>4 DEF IndPixels
<1>4. CASE ThresholdPixel
  <2>1. IndPixels /\ y \in Rows /\ x \in Cols
    BY <1>4, IndImpliesInside DEF ThresholdPixel, IndInv, RoiInside
  <2>2. /\ x' = x + 1 /\ y' = y
        /\ src' = src /\ clamped' = clamped /\ threshold' = threshold
    BY <1>4 DEF ThresholdPixel
  <2>3. \A i \in Rows, k \in Cols :
          dst'[i][k] = IF i = y /\ k = x THEN Level(src[y][x]) ELSE dst[i][k]
    BY <1>1, <1>4, <2>1 DEF ThresholdPixel, TypeOK, Frames
  <2>4. Inside(y, x)
    BY <1>2, <1>4, <2>1 DEF ThresholdPixel, InRow, InCol, Inside, IndInv,
                            IndLoops
  <2>5. \A i \in Rows, k \in Cols :
          /\ Inside(i, k)' = Inside(i, k)
          /\ Visited(i, k)' <=> Visited(i, k) \/ (i = y /\ k = x)
    BY <1>2, <2>2 DEF Inside, Visited, Rows, Cols
  <2>6. \A p : Level(p)' = Level(p)
    BY <2>2 DEF Level
  <2>7. ASSUME NEW i \in Rows, NEW k \in Cols
        PROVE  dst'[i][k] = IF Inside(i, k)' /\ Visited(i, k)'
                            THEN Level(src[i][k])' ELSE src'[i][k]
    <3>1. dst[i][k] = IF Inside(i, k) /\ Visited(i, k)
                      THEN Level(src[i][k]) ELSE src[i][k]
      BY <2>1 DEF IndPixels
    <3>2. CASE i = y /\ k = x
      BY <2>2, <2>3, <2>4, <2>5, <3>2 DEF Level
    <3>3. CASE ~(i = y /\ k = x)
      BY <2>2, <2>3, <2>5, <3>1, <3>3 DEF Level
    <3> QED
      BY <3>2, <3>3
  <2> QED
    BY <2>7 DEF IndPixels
<1>5. CASE ThresholdRow
  <2>1. IndPixels /\ IndLoops
    BY <1>5 DEF ThresholdRow, IndInv
  <2>2. /\ y' = y + 1 /\ x' = clamped.left /\ dst' = dst
        /\ src' = src /\ clamped' = clamped /\ threshold' = threshold
        /\ ~(x < clamped.left + clamped.width)
    BY <1>5 DEF ThresholdRow, InCol
  <2>3. \A i \in Rows, k \in Cols :
          /\ Inside(i, k)' = Inside(i, k)
          /\ Inside(i, k) => (Visited(i, k)' <=> Visited(i, k))
    BY <1>2, <2>1, <2>2 DEF Inside, Visited, IndLoops, Rows, Cols
  <2> QED
    BY <2>1, <2>2, <2>3 DEF IndPixels, Level
<1>6. CASE UNCHANGED vars
  BY <1>6 DEF vars, IndInv, IndPixels, Inside, Visited, Level
<1> QED
  BY <1>3, <1>4, <1>5, <1>6 DEF Next, Process, CopyRow, ThresholdDone

(* One more row of a region. *)
LEMMA RowMore ==
  ASSUME NEW a \in Int, NEW b \in Int
  PROVE  (a + 1) * b = a * b + b
  OBVIOUS

(* The counters have counted the visited pixels of the region. *)
LEMMA CountsStep ==
  ASSUME IndInv, [Next]_vars, pc' = "pixels"
  PROVE  IndCounts'
<1> USE DEF args
<1>1. /\ clamped.left \in Nat /\ clamped.width \in Nat
      /\ clamped.top \in Nat /\ clamped.height \in Nat
      /\ x \in Nat /\ y \in Nat /\ white \in Nat /\ black \in Nat
  BY DEF IndInv, TypeOK
<1>2. CASE CopyDone
  <2>1. white = 0 /\ black = 0
    BY <1>2 DEF CopyDone, IndInv, IndControl
  <2>2. 0 * clamped.width = 0
    BY <1>1
  <2> QED
    BY <1>1, <1>2, <2>1, <2>2 DEF CopyDone, IndCounts
<1>3. CASE ThresholdPixel
  <2>1. IndCounts
    BY <1>3 DEF ThresholdPixel, IndInv
  <2>2. white' + black' = white + black + 1
    BY <1>1, <1>3 DEF ThresholdPixel
  <2>3. x' = x + 1 /\ y' = y /\ clamped' = clamped
    BY <1>3 DEF ThresholdPixel
  <2> DEFINE m == (y - clamped.top) * clamped.width
  <2>4. m \in Int
    BY <1>1
  <2>5. white + black = m + (x - clamped.left)
    BY <2>1 DEF IndCounts
  <2>6. white' + black' = m + (x' - clamped.left)
    <3> HIDE DEF m
    <3> QED
      BY <1>1, <2>2, <2>3, <2>4, <2>5
  <2>7. white' + black' = (y' - clamped'.top) * clamped'.width
                          + (x' - clamped'.left)
    BY <2>3, <2>6
  <2> QED
    BY <2>7 DEF IndCounts
<1>4. CASE ThresholdRow
  <2>1. IndCounts /\ IndLoops
    BY <1>4 DEF ThresholdRow, IndInv
  <2>2. x = clamped.left + clamped.width
    BY <1>1, <1>4, <2>1 DEF ThresholdRow, InCol, IndLoops
  <2>3. /\ x' = clamped.left /\ y' = y + 1 /\ clamped' = clamped
        /\ white' = white /\ black' = black
    BY <1>4 DEF ThresholdRow
  <2> DEFINE m == (y - clamped.top) * clamped.width
  <2>4. m \in Int
    BY <1>1
  <2>5. white + black = m + clamped.width
    BY <1>1, <2>1, <2>2, <2>4 DEF IndCounts
  <2>6. (y + 1 - clamped.top) * clamped.width = m + clamped.width
    BY <1>1, RowMore
  <2>7. white' + black' = (y + 1 - clamped.top) * clamped.width
                          + (clamped.left - clamped.left)
    <3> HIDE DEF m
    <3> QED
      BY <1>1, <2>3, <2>4, <2>5, <2>6
  <2>8. /\ y' - clamped'.top = y + 1 - clamped.top
        /\ x' - clamped'.left = clamped.left - clamped.left
        /\ clamped'.width = clamped.width
    BY <1>1, <2>3
  <2> QED
    BY <2>7, <2>8 DEF IndCounts
<1>5. CASE UNCHANGED vars
  BY <1>5 DEF vars, IndInv, IndCounts
<1> QED
  BY <1>2, <1>3, <1>4, <1>5 DEF Next, Process, CopyRow, ThresholdDone

(* At the end of the call the frame is the reference's and the counters    *)
(* cover the region; before and after, nothing is claimed or changed.      *)
LEMMA OutputStep ==
  ASSUME IndInv, [Next]_vars
  PROVE  OutputIsReference' /\ CountsCoverRoi'
<1> USE DEF args
<1>1. TypeOK
  BY DEF IndInv
<1>2. CASE CopyDone /\ algo # "THRESHOLD"
  <2>1. IndCopy /\ row = Height
    BY <1>2 DEF CopyDone, IndInv
  <2>2. \A i \in Rows : dst[i] = src[i]
    BY <2>1 DEF IndCopy, Rows
  <2>3. dst = src
    BY <1>1, <2>2 DEF TypeOK, Frames
  <2> QED
    BY <1>2, <2>3 DEF CopyDone, OutputIsReference, CountsCoverRoi
<1>3. CASE ThresholdDone
  <2>1. /\ IndPixels /\ IndCounts /\ IndLoops /\ algo = "THRESHOLD"
        /\ clamped = ClampRoi(roi)
    BY <1>3 DEF ThresholdDone, IndInv, IndControl
  <2>2. /\ clamped.left \in Nat /\ clamped.width \in Nat
        /\ clamped.top \in Nat /\ clamped.height \in Nat
        /\ x \in Nat /\ y \in Nat /\ white \in Nat /\ black \in Nat
    BY <1>1 DEF TypeOK
  <2>3. y = clamped.top + clamped.height /\ x = clamped.left
    BY <1>3, <2>1, <2>2 DEF ThresholdDone, InRow, IndLoops
  <2>4. white + black = clamped.width * clamped.height
    <3>1. y - clamped.top = clamped.height /\ x - clamped.left = 0
      BY <2>2, <2>3
    <3>2. white + black = clamped.height * clamped.width + 0
      BY <2>1, <3>1 DEF IndCounts
    <3> QED
      BY <2>2, <3>2
  <2>5. \A i \in Rows, k \in Cols : Inside(i, k) => Visited(i, k)
    BY <2>2, <2>3 DEF Inside, Visited, Rows, Cols
  <2>6. /\ RefEdges(roi).left = clamped.left
        /\ RefEdges(roi).top = clamped.top
        /\ RefEdges(roi).right = clamped.left + clamped.width
        /\ RefEdges(roi).bottom = clamped.top + clamped.height
    BY <1>1, <2>1, ClampsAgree DEF TypeOK, Regions
  <2>7. \A p : RefLevel(p) = Level(p)
    BY DEF RefLevel, Level
  <2> DEFINE ref == ThresholdReference(src, roi)
  <2>8. \A i \in Rows, k \in Cols :
          ref[i][k] = IF Inside(i, k) THEN Level(src[i][k]) ELSE src[i][k]
    BY <2>6, <2>7 DEF ThresholdReference, Inside
  <2>9. \A i \in Rows, k \in Cols : dst[i][k] = ref[i][k]
    <3> HIDE DEF ref
    <3> QED
      BY <2>1, <2>5, <2>8 DEF IndPixels
  <2>10. /\ ref = [i \in Rows |-> ref[i]]
         /\ \A i \in Rows : ref[i] = [k \in Cols |-> ref[i][k]]
    BY DEF ThresholdReference
  <2>11. /\ dst = [i \in Rows |-> dst[i]]
         /\ \A i \in Rows : dst[i] = [k \in Cols |-> dst[i][k]]
    BY <1>1 DEF TypeOK, Frames
  <2>12. dst = ref
    <3> HIDE DEF ref
    <3>1. \A i \in Rows : dst[i] = ref[i]
      BY <2>9, <2>10, <2>11
    <3> QED
      BY <2>10, <2>11, <3>1
  <2>13. ref' = ref
    BY <1>3 DEF ThresholdDone, ThresholdReference, RefLevel
  <2> HIDE DEF ref
  <2>14. dst' = ThresholdReference(src, roi)'
    BY <1>3, <2>12, <2>13 DEF ThresholdDone, ref
  <2>15. /\ pc' = "done" /\ algo' = "THRESHOLD" /\ clamped' = clamped
         /\ white' = white /\ black' = black
    BY <1>3, <2>1 DEF ThresholdDone
  <2> QED
    BY <2>4, <2>14, <2>15 DEF OutputIsReference, CountsCoverRoi
<1>4. CASE Process
  BY <1>4 DEF Process, IndInv, IndControl, OutputIsReference, CountsCoverRoi
<1>5. CASE CopyRow \/ ThresholdPixel \/ ThresholdRow
  BY <1>5 DEF CopyRow, ThresholdPixel, ThresholdRow, OutputIsReference,
              CountsCoverRoi
<1>6. CASE CopyDone /\ algo = "THRESHOLD"
  BY <1>6 DEF CopyDone, OutputIsReference, CountsCoverRoi
<1>7. CASE UNCHANGED vars
  <2>1. OutputIsReference /\ CountsCoverRoi
    BY DEF IndInv
  <2>2. ThresholdReference(src, roi)' = ThresholdReference(src, roi)
    BY <1>7 DEF vars, ThresholdReference, RefLevel
  <2> QED
    BY <1>7, <2>1, <2>2 DEF vars, OutputIsReference, CountsCoverRoi
<1> QED
  BY <1>2, <1>3, <1>4, <1>5, <1>6, <1>7 DEF Next

(* IndInv is an inductive invariant of a call. *)
LEMMA InvariantHolds == Spec => []IndInv
<1>1. Init => IndInv
  <2>1. Init => TypeOK
    BY DEF Init, TypeOK, NoRoi
  <2> QED
    BY <2>1 DEF Init, IndInv, IndControl, OutputIsReference, CountsCoverRoi
<1>2. IndInv /\ [Next]_vars => IndInv'
  BY TypeStep, ControlStep, CopyStep, LoopsStep, PixelsStep, CountsStep,
     OutputStep DEF IndInv
<1> QED
  BY <1>1, <1>2, PTL DEF Spec

-----------------------------------------------------------------------------
(* vpipe_cv_process keeps its types: every write is a pixel of the frame. *)
THEOREM TypeCorrect == Spec => []TypeOK
<1>1. IndInv => TypeOK
  BY DEF IndInv
<1> QED
  BY <1>1, InvariantHolds, PTL

(* Whatever region the caller passes, the loops of vpipe_threshold_frame   *)
(* stay inside the frame.                                                  *)
THEOREM RoiInsideHolds == Spec => []RoiInside
  BY IndImpliesInside, InvariantHolds, PTL

(* The kernel's threshold equals the userspace mirror's for every frame,   *)
(* region and threshold; NONE copies, a rejected algorithm writes nothing. *)
THEOREM OutputIsReferenceHolds == Spec => []OutputIsReference
<1>1. IndInv => OutputIsReference
  BY DEF IndInv
<1> QED
  BY <1>1, InvariantHolds, PTL

(* algo_value0 + algo_value1 is the area of the clamped region. *)
THEOREM CountsCoverRoiHolds == Spec => []CountsCoverRoi
<1>1. IndInv => CountsCoverRoi
  BY DEF IndInv
<1> QED
  BY <1>1, InvariantHolds, PTL

-----------------------------------------------------------------------------
(* What algo_value0 counts. *)

(* The white pixels the two loops have been through. *)
SeenWhite ==
  {p \in Rows \X Cols : /\ Inside(p[1], p[2]) /\ Visited(p[1], p[2])
                        /\ Level(src[p[1]][p[2]]) = White}

LEMMA FrameFinite ==
  ASSUME NEW S, S \subseteq Rows \X Cols
  PROVE  IsFiniteSet(S)
<1>1. IsFiniteSet(Rows) /\ IsFiniteSet(Cols)
  BY FS_Interval DEF Rows, Cols
<1>2. IsFiniteSet(Rows \X Cols)
  BY <1>1, FS_Product
<1> QED
  BY <1>2, FS_Subset

(* Each turn of the inner loop counts the pixel it visits, if it is white. *)
LEMMA SeenStep ==
  ASSUME IndInv, pc = "pixels" => white = Cardinality(SeenWhite),
         [Next]_vars, pc' = "pixels"
  PROVE  white' = Cardinality(SeenWhite')
<1> USE DEF args
<1>1. /\ clamped.left \in Nat /\ clamped.width \in Nat
      /\ clamped.top \in Nat /\ clamped.height \in Nat
      /\ x \in Nat /\ y \in Nat
  BY DEF IndInv, TypeOK
<1>2. CASE CopyDone
  <2>1. /\ x' = clamped.left /\ y' = clamped.top /\ clamped' = clamped
        /\ white' = 0
    BY <1>2 DEF CopyDone, IndInv, IndControl
  <2>2. \A i \in Rows, k \in Cols : ~(Inside(i, k)' /\ Visited(i, k)')
    BY <1>1, <2>1 DEF Inside, Visited, Rows, Cols
  <2>3. SeenWhite' = {}
    BY <2>2 DEF SeenWhite
  <2> QED
    BY <2>1, <2>3, FS_EmptySet
<1>3. CASE ThresholdPixel
  <2>1. y \in Rows /\ x \in Cols
    BY <1>3, IndImpliesInside DEF ThresholdPixel, RoiInside
  <2>2. /\ x' = x + 1 /\ y' = y /\ pc = "pixels"
        /\ src' = src /\ clamped' = clamped /\ threshold' = threshold
        /\ white' = IF Level(src[y][x]) # Black THEN white + 1 ELSE white
    BY <1>3 DEF ThresholdPixel
  <2>3. Inside(y, x) /\ ~Visited(y, x)
    BY <1>1, <1>3, <2>1 DEF ThresholdPixel, InRow, InCol, Inside, Visited,
                            IndInv, IndLoops
  <2>4. \A i \in Rows, k \in Cols :
          /\ Inside(i, k)' <=> Inside(i, k)
          /\ Visited(i, k)' <=> Visited(i, k) \/ (i = y /\ k = x)
    BY <1>1, <2>2 DEF Inside, Visited, Rows, Cols
  <2>5. \A i, k : Level(src[i][k])' = Level(src[i][k])
    BY <2>2 DEF Level
  <2>6. Level(src[y][x]) # Black <=> Level(src[y][x]) = White
    BY DEF Level
  <2>7. <<y, x>> \notin SeenWhite
    BY <2>3 DEF SeenWhite
  <2>8. ASSUME NEW p \in Rows \X Cols
        PROVE  p \in SeenWhite' <=>
                 \/ p \in SeenWhite
                 \/ p = <<y, x>> /\ Level(src[y][x]) = White
    <3>1. p[1] \in Rows /\ p[2] \in Cols /\ p = <<p[1], p[2]>>
      OBVIOUS
    <3>2. p = <<y, x>> <=> p[1] = y /\ p[2] = x
      BY <3>1
    <3>3. p \in SeenWhite' <=> /\ Inside(p[1], p[2])' /\ Visited(p[1], p[2])'
                               /\ Level(src[p[1]][p[2]])' = White
      BY DEF SeenWhite
    <3>4. p \in SeenWhite <=> /\ Inside(p[1], p[2]) /\ Visited(p[1], p[2])
                              /\ Level(src[p[1]][p[2]]) = White
      BY DEF SeenWhite
    <3> QED
      BY <2>3, <2>4, <2>5, <3>1, <3>2, <3>3, <3>4
  <2>9. /\ SeenWhite \subseteq Rows \X Cols /\ SeenWhite' \subseteq Rows \X Cols
        /\ <<y, x>> \in Rows \X Cols
    BY <2>1 DEF SeenWhite
  <2>10. SeenWhite' = IF Level(src[y][x]) = White
                      THEN SeenWhite \cup {<<y, x>>} ELSE SeenWhite
    BY <2>8, <2>9
  <2>11. Cardinality(SeenWhite \cup {<<y, x>>}) = Cardinality(SeenWhite) + 1
    BY <2>7, <2>9, FrameFinite, FS_AddElement
  <2> QED
    BY <2>2, <2>6, <2>10, <2>11
<1>4. CASE ThresholdRow
  <2>1. IndLoops /\ pc = "pixels"
    BY <1>4 DEF ThresholdRow, IndInv
  <2>2. /\ y' = y + 1 /\ x' = clamped.left /\ white' = white
        /\ src' = src /\ clamped' = clamped /\ threshold' = threshold
        /\ ~(x < clamped.left + clamped.width)
    BY <1>4 DEF ThresholdRow, InCol
  <2>3. \A i \in Rows, k \in Cols :
          /\ Inside(i, k)' <=> Inside(i, k)
          /\ Inside(i, k) => (Visited(i, k)' <=> Visited(i, k))
    BY <1>1, <2>1, <2>2 DEF Inside, Visited, IndLoops, Rows, Cols
  <2>4. \A i, k : Level(src[i][k])' = Level(src[i][k])
    BY <2>2 DEF Level
  <2>5. SeenWhite' = SeenWhite
    BY <2>3, <2>4 DEF SeenWhite
  <2> QED
    BY <2>1, <2>2, <2>5
<1>5. CASE UNCHANGED vars
  <2>1. SeenWhite' = SeenWhite /\ pc = "pixels" /\ white' = white
    BY <1>5 DEF vars, SeenWhite, Inside, Visited, Level
  <2> QED
    BY <2>1
<1> QED
  BY <1>2, <1>3, <1>4, <1>5 DEF Next, Process, CopyRow, ThresholdDone

(* When the loops are through, what they have seen is what the frame shows *)
(* of the region.                                                          *)
LEMMA WhiteStep ==
  ASSUME IndInv, pc = "pixels" => white = Cardinality(SeenWhite), WhiteCounted,
         [Next]_vars
  PROVE  WhiteCounted'
<1> USE DEF args
<1>1. CASE ThresholdDone
  <2>1. /\ IndPixels /\ IndLoops /\ pc = "pixels" /\ ~InRow
        /\ UNCHANGED <<dst, white, clamped, y, x, src, threshold>>
    BY <1>1 DEF ThresholdDone, IndInv
  <2>2. /\ clamped.left \in Nat /\ clamped.width \in Nat
        /\ clamped.top \in Nat /\ clamped.height \in Nat
        /\ x \in Nat /\ y \in Nat
    BY DEF IndInv, TypeOK
  <2>3. y = clamped.top + clamped.height
    BY <2>1, <2>2 DEF InRow, IndLoops
  <2>4. \A i \in Rows, k \in Cols :
          Inside(i, k) => Visited(i, k) /\ dst[i][k] = Level(src[i][k])
    BY <2>1, <2>2, <2>3 DEF Inside, Visited, IndPixels, Rows, Cols
  <2> DEFINE W == {p \in Rows \X Cols :
               /\ p[1] >= clamped.top /\ p[1] < clamped.top + clamped.height
               /\ p[2] >= clamped.left /\ p[2] < clamped.left + clamped.width
               /\ dst[p[1]][p[2]] = White}
  <2>5. ASSUME NEW p \in Rows \X Cols PROVE p \in W <=> p \in SeenWhite
    <3>1. p[1] \in Rows /\ p[2] \in Cols /\ p[1] \in Int /\ p[2] \in Int
      BY DEF Rows, Cols
    <3>2. p \in W <=> Inside(p[1], p[2]) /\ dst[p[1]][p[2]] = White
      BY <2>2, <3>1 DEF Inside
    <3>3. p \in SeenWhite <=> /\ Inside(p[1], p[2]) /\ Visited(p[1], p[2])
                              /\ Level(src[p[1]][p[2]]) = White
      BY DEF SeenWhite
    <3> QED
      BY <2>4, <3>1, <3>2, <3>3
  <2>6. W = SeenWhite
    BY <2>5 DEF SeenWhite
  <2>7. white = Cardinality(W)
    BY <2>1, <2>6
  <2>8. W' = W
    BY <2>1
  <2> QED
    BY <2>1, <2>7, <2>8 DEF WhiteCounted
<1>2. CASE Process \/ CopyRow \/ CopyDone \/ ThresholdPixel \/ ThresholdRow
  BY <1>2 DEF Process, CopyRow, CopyDone, ThresholdPixel, ThresholdRow,
              WhiteCounted
<1>3. CASE UNCHANGED vars
  BY <1>3 DEF vars, WhiteCounted
<1> QED
  BY <1>1, <1>2, <1>3 DEF Next

(* algo_value0 is the number of white pixels the output shows in the       *)
(* clamped region, for every frame, region and threshold                   *)
(* (vpipe_threshold_frame).                                                *)
THEOREM WhiteCountedHolds == Spec => []WhiteCounted
<1> DEFINE Seen == pc = "pixels" => white = Cardinality(SeenWhite)
<1>1. Init => Seen /\ WhiteCounted
  BY DEF Init, WhiteCounted
<1>2. IndInv /\ Seen /\ WhiteCounted /\ [Next]_vars => Seen' /\ WhiteCounted'
  BY SeenStep, WhiteStep
<1> HIDE DEF Seen
<1> QED
  BY <1>1, <1>2, InvariantHolds, PTL DEF Spec
=============================================================================
