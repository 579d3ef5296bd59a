---------------------------- MODULE SourceProofs ----------------------------
(***************************************************************************)
(* Proofs about Source, for any number of contexts, framebuffers, exports, *)
(* mappings and frames, and for every size and drop rate.                  *)
(***************************************************************************)
EXTENDS Source, Integers, FiniteSetTheorems, TLAPS

USE SourceAssumption

FrameType == [dropped : BOOLEAN, shown : Nat, inPlane : BOOLEAN,
              onSurface : BOOLEAN, early : BOOLEAN]
PrivType == [on : BOOLEAN, fb : Fbs \cup {0}, offset : Nat, produced : Nat,
             drop : DropRates \cup {0}]
SourceType == [id : Backends \cup {"freed"}, bad : BOOLEAN, priv : PrivType]
FbType == [refs : Nat, size : Nat, shown : Nat, bad : BOOLEAN]
FileType == [state : {"closed", "open", "closing"}, size : Sizes,
             out : Sizes \cup {0}, cap : Sizes \cup {0},
             on : SUBSET Queues, pre : BOOLEAN, prep : BOOLEAN]

(* TypeOK without its second thoughts, and the type of the history. *)
Types ==
  /\ registered \subseteq Backends
  /\ file \in [Ctxs -> FileType]
  /\ src \in [Ctxs -> SourceType]
  /\ fb \in [Fbs -> FbType]
  /\ starts \in 0 .. MaxStarts
  /\ dbuf \in [Dbufs -> [fb : Fbs \cup {0}, fd : BOOLEAN, maps : 0 .. MaxMaps]]
  /\ exports \in 0 .. MaxExports
  /\ exp \in [on : BOOLEAN, ctx : Ctxs, fb : Fbs \cup {0}]
  /\ frames \in [Ctxs -> Seq(FrameType)]
  /\ \A c \in Ctxs : Len(frames[c]) <= MaxFrames

(* What the source s of a file F is, with n framebuffers allocated so far. *)
Sourced(F, s, n) ==
  /\ F.state = "open" <=> s.id # "freed"
  /\ s.priv.on <=> F.state = "open" /\ s.id # "FIXTURE" /\ "OUT" \in F.on
  /\ ~s.priv.on => s.priv = NoPriv
  /\ s.id # "VCAM" => s.priv.fb = 0
  /\ s.id = "VCAM" /\ s.priv.on => s.priv.fb \in 1 .. n
  /\ F.state = "closed" => F = Closed

(* What exports refer to. *)
Handles ==
  /\ exp.on => exp.fb \in 1 .. starts
  /\ \A d \in Dbufs : Live(d) => dbuf[d].fb \in 1 .. starts /\ d <= exports
  /\ \A d \in Dbufs : ~Live(d) => dbuf[d] = NoDbuf

Shape ==
  /\ Types
  /\ \A c \in Ctxs : Sourced(file[c], src[c], starts)
  /\ Handles

(* The initial state. *)
LEMMA InitShape == Init => Shape
<1> SUFFICES ASSUME Init PROVE Shape
  OBVIOUS
<1>1. Idle \in [on : BOOLEAN, ctx : Ctxs, fb : Fbs \cup {0}]
  BY DEF Idle
<1>2. NoFb \in FbType /\ NoDbuf \in [fb : Fbs \cup {0}, fd : BOOLEAN, maps : 0 .. MaxMaps]
  BY DEF NoFb, NoDbuf, FbType
<1>3. Closed \in FileType
  BY DEF Closed, FileType
<1>4. NewSource("freed") \in SourceType
  BY DEF NewSource, SourceType, NoPriv, PrivType, Backends
<1>5. Types
  BY <1>1, <1>2, <1>3, <1>4 DEF Types, Init
<1>6. \A c \in Ctxs : Sourced(file[c], src[c], starts)
  BY DEF Init, Sourced, Closed, NewSource, NoPriv
<1>7. Handles
  BY DEF Init, Handles, Live, NoDbuf, Idle
<1> QED
  BY <1>5, <1>6, <1>7 DEF Shape
-----------------------------------------------------------------------------
(* What the operators return. *)

(* A reference is taken. *)
LEMMA KrefGetType ==
  ASSUME NEW F \in [Fbs -> FbType], NEW f \in Fbs
  PROVE  /\ KrefGet(F, f) \in [Fbs -> FbType]
         /\ \A g \in Fbs \ {f} : KrefGet(F, f)[g] = F[g]
         /\ KrefGet(F, f)[f].refs = F[f].refs + 1
         /\ KrefGet(F, f)[f].size = F[f].size
         /\ KrefGet(F, f)[f].shown = F[f].shown
         /\ F[f].refs > 0 => KrefGet(F, f)[f].bad = F[f].bad
<1> DEFINE b == F[f].bad \/ F[f].refs = 0
           n == F[f].refs + 1
<1>1. F[f].bad \in BOOLEAN /\ F[f].refs \in Nat
  BY DEF FbType
<1>2. b \in BOOLEAN /\ n \in Nat
  BY <1>1
<1>3. F[f].refs > 0 => b = F[f].bad
  BY <1>1
<1>4. KrefGet(F, f) = [F EXCEPT ![f].refs = n, ![f].bad = b]
  BY DEF KrefGet
<1>5. n = F[f].refs + 1
  OBVIOUS
<1> HIDE DEF b, n
<1>6. KrefGet(F, f) \in [Fbs -> FbType]
  BY <1>2, <1>4 DEF FbType
<1>7. /\ \A g \in Fbs \ {f} : KrefGet(F, f)[g] = F[g]
      /\ KrefGet(F, f)[f].refs = n /\ KrefGet(F, f)[f].bad = b
      /\ KrefGet(F, f)[f].size = F[f].size
      /\ KrefGet(F, f)[f].shown = F[f].shown
  BY <1>2, <1>4 DEF FbType
<1> QED
  BY <1>3, <1>5, <1>6, <1>7

(* A reference is dropped. *)
LEMMA KrefPutType ==
  ASSUME NEW F \in [Fbs -> FbType], NEW f \in Fbs
  PROVE  /\ KrefPut(F, f) \in [Fbs -> FbType]
         /\ \A g \in Fbs \ {f} : KrefPut(F, f)[g] = F[g]
         /\ F[f].refs > 0 => /\ KrefPut(F, f)[f].refs = F[f].refs - 1
                             /\ KrefPut(F, f)[f].bad = F[f].bad
         /\ F[f].refs > 1 => /\ KrefPut(F, f)[f].shown = F[f].shown
                             /\ KrefPut(F, f)[f].size = F[f].size
<1>1. F[f] \in FbType /\ F[f].refs \in Nat
  BY DEF FbType
<1>2. CASE F[f].refs = 0
  <2>1. KrefPut(F, f) = [F EXCEPT ![f].bad = TRUE]
    BY <1>2 DEF KrefPut
  <2>2. KrefPut(F, f) \in [Fbs -> FbType]
    BY <2>1 DEF FbType
  <2> QED
    BY <1>2, <2>1, <2>2
<1>3. CASE F[f].refs = 1
  <2>1. KrefPut(F, f) = [F EXCEPT ![f] = [NoFb EXCEPT !.bad = F[f].bad]]
    BY <1>3 DEF KrefPut
  <2> QED
    BY <1>1, <1>3, <2>1 DEF FbType, NoFb
<1>4. CASE F[f].refs > 1
  <2>1. KrefPut(F, f) = [F EXCEPT ![f].refs = F[f].refs - 1]
    BY <1>1, <1>4 DEF KrefPut
  <2> QED
    BY <1>1, <1>4, <2>1 DEF FbType
<1> QED
  BY <1>1, <1>2, <1>3, <1>4

(* It keeps its picture unless it is freed. *)
LEMMA KrefPutKeeps ==
  ASSUME NEW F \in [Fbs -> FbType], NEW f \in Fbs
  PROVE  KrefPut(F, f)[f].shown = F[f].shown \/ KrefPut(F, f)[f].refs = 0
<1>1. F[f] \in FbType /\ F[f].refs \in Nat
  BY DEF FbType
<1>2. CASE F[f].refs = 0
  <2>1. KrefPut(F, f) = [F EXCEPT ![f].bad = TRUE]
    BY <1>2 DEF KrefPut
  <2> QED
    BY <1>1, <2>1 DEF FbType
<1>3. CASE F[f].refs > 0
  BY <1>1, <1>3, KrefPutType
<1> QED
  BY <1>1, <1>2, <1>3

(* A framebuffer is used. *)
LEMMA TouchType ==
  ASSUME NEW F \in [Fbs -> FbType], NEW f \in Fbs
  PROVE  /\ Touch(F, f) \in [Fbs -> FbType]
         /\ F[f].refs > 0 => Touch(F, f) = F
<1> DEFINE b == F[f].bad \/ F[f].refs = 0
<1>1. F[f].bad \in BOOLEAN /\ F[f].refs \in Nat
  BY DEF FbType
<1>2. b \in BOOLEAN
  OBVIOUS
<1>3. F[f].refs > 0 => b = F[f].bad
  BY <1>1
<1>4. Touch(F, f) = [F EXCEPT ![f].bad = b]
  BY DEF Touch
<1> HIDE DEF b
<1>5. [F EXCEPT ![f].bad = b] \in [Fbs -> FbType]
  BY <1>2 DEF FbType
<1>6. [F EXCEPT ![f].bad = F[f].bad] = F
  BY DEF FbType
<1> QED
  BY <1>3, <1>4, <1>5, <1>6

(* A frame is drawn on the surface, or the frame buffers stay as they are. *)
LEMMA DrawFbType ==
  ASSUME NEW F \in [Fbs -> FbType], NEW s \in SourceType,
         s.id = "VCAM" => s.priv.fb \in Fbs
  PROVE  /\ DrawFb(s, F) \in [Fbs -> FbType]
         /\ ~(s.id = "VCAM" /\ Draws(s)) => DrawFb(s, F) = F
         /\ s.id = "VCAM" /\ Draws(s) /\ F[s.priv.fb].refs > 0 =>
              DrawFb(s, F) = [F EXCEPT ![s.priv.fb].shown = s.priv.offset + 1]
<1>1. s.priv.offset + 1 \in Nat
  BY DEF SourceType, PrivType
<1>2. CASE s.id = "VCAM" /\ Draws(s)
  <2> DEFINE T == Touch(F, s.priv.fb)
             n == s.priv.offset + 1
  <2>1. /\ DrawFb(s, F) = [T EXCEPT ![s.priv.fb].shown = n]
        /\ T \in [Fbs -> FbType]
        /\ F[s.priv.fb].refs > 0 => T = F
    BY <1>2, TouchType DEF DrawFb
  <2>2. n \in Nat /\ n = s.priv.offset + 1 /\ s.priv.fb \in Fbs
    BY <1>1, <1>2
  <2> HIDE DEF T, n
  <2>3. [T EXCEPT ![s.priv.fb].shown = n] \in [Fbs -> FbType]
    <3>1. PICK f \in Fbs : f = s.priv.fb
      BY <2>2
    <3>2. [T[f] EXCEPT !.shown = n] \in FbType
      BY <2>1, <2>2 DEF FbType
    <3>3. [T EXCEPT ![f] = [T[f] EXCEPT !.shown = n]] \in [Fbs -> FbType]
      BY <2>1, <3>2
    <3> QED
      BY <3>1, <3>3
  <2> QED
    BY <1>2, <2>1, <2>2, <2>3
<1>3. CASE ~(s.id = "VCAM" /\ Draws(s))
  BY <1>3 DEF DrawFb
<1> QED
  BY <1>2, <1>3

(* A frame is counted: only the counters of the source change. *)
LEMMA CountFrameType ==
  ASSUME NEW s \in SourceType
  PROVE  /\ CountFrame(s) \in SourceType
         /\ CountFrame(s).id = s.id /\ CountFrame(s).bad = s.bad
         /\ CountFrame(s).priv.on = s.priv.on
         /\ CountFrame(s).priv.fb = s.priv.fb
         /\ CountFrame(s).priv.drop = s.priv.drop
         /\ s.id = "FIXTURE" => CountFrame(s) = s
         /\ s.id # "FIXTURE" => CountFrame(s).priv.produced = s.priv.produced + 1
<1> DEFINE o == IF Drops(s) THEN s.priv.offset ELSE s.priv.offset + 1
           n == s.priv.produced + 1
<1>1. o \in Nat /\ n \in Nat
  BY DEF SourceType, PrivType
<1>2. s.id # "FIXTURE" => CountFrame(s) =
        [s EXCEPT !.priv.produced = n, !.priv.offset = o]
  BY DEF CountFrame
<1>3. s.id = "FIXTURE" => CountFrame(s) = s
  BY DEF CountFrame
<1>4. n = s.priv.produced + 1
  OBVIOUS
<1> HIDE DEF o, n
<1> DEFINE p == [s.priv EXCEPT !.produced = n, !.offset = o]
<1>5. s.priv \in PrivType
  BY DEF SourceType
<1>6. /\ p \in PrivType /\ p.on = s.priv.on /\ p.fb = s.priv.fb
      /\ p.drop = s.priv.drop /\ p.produced = n
  BY <1>1, <1>5 DEF PrivType
<1>7. s.id # "FIXTURE" => CountFrame(s) = [s EXCEPT !.priv = p]
  BY <1>2
<1> HIDE DEF p
<1>8. s.id # "FIXTURE" =>
         /\ CountFrame(s) \in SourceType
         /\ CountFrame(s).id = s.id /\ CountFrame(s).bad = s.bad
         /\ CountFrame(s).priv = p
  BY <1>6, <1>7 DEF SourceType
<1> QED
  BY <1>3, <1>4, <1>6, <1>8

(* A source is stopped, and freed. *)
LEMMA StopSourceType ==
  ASSUME NEW s \in SourceType
  PROVE  /\ StopSource(s) \in SourceType
         /\ StopSource(s).priv = NoPriv /\ StopSource(s).id = s.id
         /\ StopSource(s).bad = (s.bad \/ s.id = "freed")
         /\ Freed(s) \in SourceType
         /\ Freed(s).priv = NoPriv /\ Freed(s).id = "freed"
         /\ Freed(s).bad = s.bad
  BY DEF StopSource, Freed, SourceType, PrivType, NoPriv

(* The descriptor of a frame. *)
LEMMA FrameOfType ==
  ASSUME NEW F \in [Fbs -> FbType], NEW s \in SourceType,
         s.id = "VCAM" => s.priv.fb \in Fbs,
         NEW size \in Nat, NEW plane \in Nat, NEW early \in BOOLEAN
  PROVE  FrameOf(s, F, size, plane, early) \in FrameType
<1>1. s.priv.offset \in Nat /\ Drops(s) \in BOOLEAN
  BY DEF SourceType, PrivType, Drops
<1>2. /\ (Draws(s) => size <= plane) \in BOOLEAN
      /\ (s.id = "VCAM" /\ Draws(s) => size <= F[s.priv.fb].size) \in BOOLEAN
      /\ (early /\ plane < size) \in BOOLEAN
  OBVIOUS
<1> QED
  BY <1>1, <1>2 DEF FrameOf, FrameType

LEMMA NewTypes ==
  /\ NoPriv \in PrivType /\ NoFb \in FbType /\ Closed \in FileType
  /\ \A b \in Backends \cup {"freed"} : NewSource(b) \in SourceType
  /\ NoDbuf \in [fb : Fbs \cup {0}, fd : BOOLEAN, maps : 0 .. MaxMaps]
  /\ Idle \in [on : BOOLEAN, ctx : Ctxs, fb : Fbs \cup {0}]
  BY DEF NoPriv, PrivType, NoFb, FbType, Closed, FileType, NewSource,
         SourceType, NoDbuf, Idle
-----------------------------------------------------------------------------
(* Shape is inductive. *)

(* A step that changes the file and the source of one context only. *)
LEMMA OneContext ==
  ASSUME Shape, NEW c \in Ctxs, NEW F \in FileType, NEW s \in SourceType,
         file' = [file EXCEPT ![c] = F], src' = [src EXCEPT ![c] = s],
         starts' \in starts .. MaxStarts, Sourced(F, s, starts'),
         registered' \subseteq Backends,
         fb' \in [Fbs -> FbType], UNCHANGED <<dbufVars, exp>>,
         frames' \in [Ctxs -> Seq(FrameType)],
         \A d \in Ctxs : Len(frames'[d]) <= MaxFrames
  PROVE  Shape'
<1> USE DEF dbufVars
<1>1. starts \in 0 .. MaxStarts /\ starts' \in 0 .. MaxStarts
  BY DEF Shape, Types
<1>2. Types'
  BY <1>1 DEF Shape, Types
<1>3. ASSUME NEW d \in Ctxs PROVE Sourced(file'[d], src'[d], starts')
  <2>1. CASE d = c
    BY <2>1 DEF Shape, Types
  <2>2. CASE d # c
    <3>1. file'[d] = file[d] /\ src'[d] = src[d]
      BY <2>2 DEF Shape, Types
    <3>2. Sourced(file[d], src[d], starts)
      BY DEF Shape
    <3> QED
      BY <1>1, <3>1, <3>2 DEF Sourced
  <2> QED
    BY <2>1, <2>2
<1>4. Handles'
  BY <1>1 DEF Shape, Handles, Live
<1> QED
  BY <1>2, <1>3, <1>4 DEF Shape

(* StopFb drops the stream's reference, if the source is a started         *)
(* vcam-derived one.                                                       *)
LEMMA StopFbType ==
  ASSUME Shape, NEW c \in Ctxs
  PROVE  /\ StopFb(src[c], fb) \in [Fbs -> FbType]
         /\ ~(src[c].id = "VCAM" /\ src[c].priv.on) => StopFb(src[c], fb) = fb
         /\ src[c].id = "VCAM" /\ src[c].priv.on =>
              /\ src[c].priv.fb \in Fbs
              /\ StopFb(src[c], fb) = KrefPut(fb, src[c].priv.fb)
<1>1. src[c].id = "VCAM" /\ src[c].priv.on => src[c].priv.fb \in Fbs
  BY DEF Shape, Types, Sourced, Fbs
<1>2. fb \in [Fbs -> FbType]
  BY DEF Shape, Types
<1> QED
  BY <1>1, <1>2, KrefPutType DEF StopFb

(* What Shape says of one context. *)
LEMMA ShapeAt ==
  ASSUME Shape, NEW c \in Ctxs
  PROVE  /\ file[c] \in FileType /\ src[c] \in SourceType
         /\ Sourced(file[c], src[c], starts)
         /\ starts \in starts .. MaxStarts /\ starts \in Nat
         /\ registered \subseteq Backends
         /\ fb \in [Fbs -> FbType] /\ frames \in [Ctxs -> Seq(FrameType)]
         /\ \A d \in Ctxs : Len(frames[d]) <= MaxFrames
         /\ file = [file EXCEPT ![c] = file[c]]
         /\ src = [src EXCEPT ![c] = src[c]]
  BY DEF Shape, Types

(* The history of a stream that ends or begins. *)
LEMMA ClearFrames ==
  ASSUME Shape, NEW c \in Ctxs, frames' = [frames EXCEPT ![c] = << >>]
  PROVE  /\ frames' \in [Ctxs -> Seq(FrameType)]
         /\ \A d \in Ctxs : Len(frames'[d]) <= MaxFrames
  BY DEF Shape, Types

LEMMA OpenShape ==
  ASSUME Shape, NEW c \in Ctxs, Open(c)
  PROVE  Shape'
<1> DEFINE F == [Closed EXCEPT !.state = "open"]
           s == NewSource("FIXTURE")
<1>1. F \in FileType /\ s \in SourceType
  BY DEF Closed, FileType, NewSource, SourceType, NoPriv, PrivType, Backends
<1>2. Sourced(F, s, starts)
  BY DEF Sourced, Closed, NewSource, NoPriv
<1> HIDE DEF F, s
<1>3. /\ file' = [file EXCEPT ![c] = F] /\ src' = [src EXCEPT ![c] = s]
      /\ UNCHANGED <<registered, fbVars, dbufVars, exp, frames>>
  BY DEF Open, F, s
<1> QED
  BY <1>1, <1>2, <1>3, ShapeAt, OneContext DEF fbVars

LEMMA ReleaseSourceShape ==
  ASSUME Shape, NEW c \in Ctxs, ReleaseSource(c)
  PROVE  Shape'
<1> DEFINE F == [file[c] EXCEPT !.state = "closing"]
           s == Freed(StopSource(src[c]))
<1>1. file[c] \in FileType /\ src[c] \in SourceType /\ file[c].state = "open"
  BY ShapeAt DEF ReleaseSource, Opened
<1>2. F \in FileType /\ F.state = "closing" /\ F.on = file[c].on
  BY <1>1 DEF FileType
<1>3. /\ s \in SourceType /\ s.priv = NoPriv /\ s.id = "freed"
      /\ s.bad = (src[c].bad \/ src[c].id = "freed")
  BY <1>1, StopSourceType
<1>4. /\ file' = [file EXCEPT ![c] = F] /\ src' = [src EXCEPT ![c] = s]
      /\ fb' = StopFb(src[c], fb) /\ frames' = [frames EXCEPT ![c] = << >>]
      /\ UNCHANGED <<registered, starts, dbufVars, exp>>
  BY <1>1 DEF ReleaseSource, FileType, SourceType
<1> HIDE DEF F, s
<1>5. Sourced(F, s, starts)
  BY <1>1, <1>2, <1>3, <1>4, ShapeAt DEF Sourced, NoPriv
<1> QED
  BY <1>2, <1>3, <1>4, <1>5, ShapeAt, StopFbType, ClearFrames, OneContext

LEMMA ReleaseQueuesShape ==
  ASSUME Shape, NEW c \in Ctxs, ReleaseQueues(c)
  PROVE  Shape'
<1> DEFINE s == IF "OUT" \in file[c].on THEN StopSource(src[c]) ELSE src[c]
<1>1. src[c] \in SourceType /\ file[c].state = "closing"
  BY ShapeAt DEF ReleaseQueues
<1>2. Sourced(file[c], src[c], starts)
  BY ShapeAt
<1>3. src[c].id = "freed" /\ src[c].priv = NoPriv
  BY <1>1, <1>2 DEF Sourced
<1>4. s \in SourceType /\ s.id = "freed" /\ s.priv = NoPriv
  BY <1>1, <1>3, StopSourceType
<1>6. Closed \in FileType
  BY NewTypes
<1>7. /\ file' = [file EXCEPT ![c] = Closed] /\ src' = [src EXCEPT ![c] = s]
      /\ UNCHANGED <<registered, fbVars, dbufVars, exp, frames>>
  BY DEF ReleaseQueues
<1> HIDE DEF s
<1>8. Sourced(Closed, s, starts)
  BY <1>4 DEF Sourced, Closed, NoPriv
<1> QED
  BY <1>4, <1>6, <1>7, <1>8, ShapeAt, OneContext DEF fbVars

LEMMA SetBackendShape ==
  ASSUME Shape, NEW c \in Ctxs, NEW b \in Backends, SetBackend(c, b)
  PROVE  Shape'
<1>1. /\ NewSource(b) \in SourceType /\ NewSource(b).id = b
      /\ NewSource(b).priv = NoPriv /\ NewSource(b).bad = FALSE
  BY NewTypes DEF NewSource
<1>2. /\ src' = [src EXCEPT ![c] = NewSource(b)]
      /\ fb' = StopFb(src[c], fb) /\ frames' = [frames EXCEPT ![c] = << >>]
      /\ UNCHANGED <<registered, file, starts, dbufVars, exp>>
      /\ file[c].on = {} /\ file[c].state = "open" /\ b # "freed"
  BY DEF SetBackend, Opened, Backends
<1>3. Sourced(file[c], NewSource(b), starts)
  BY <1>1, <1>2 DEF Sourced, NoPriv
<1> QED
  BY <1>1, <1>2, <1>3, ShapeAt, StopFbType, ClearFrames, OneContext

(* S_FMT, REQBUFS and STREAMON of CAPTURE leave the sources alone. *)
LEMMA FileShape ==
  ASSUME Shape, NEW c \in Ctxs, NEW F \in FileType,
         F.state = file[c].state, "OUT" \in F.on <=> "OUT" \in file[c].on,
         file[c].state = "open",
         file' = [file EXCEPT ![c] = F],
         UNCHANGED <<registered, src, fbVars, dbufVars, exp, frames>>
  PROVE  Shape'
<1>1. Sourced(F, src[c], starts)
  BY ShapeAt DEF Sourced
<1> QED
  BY <1>1, ShapeAt, OneContext DEF fbVars

LEMMA SFmtShape ==
  ASSUME Shape, NEW c \in Ctxs, NEW t \in Queues, NEW s \in Sizes, SFmt(c, t, s)
  PROVE  Shape'
<1> DEFINE F == [file[c] EXCEPT !.size = s]
<1>1. file[c] \in FileType /\ file[c].state = "open"
  BY ShapeAt DEF SFmt, Opened
<1>2. F \in FileType /\ F.state = file[c].state /\ F.on = file[c].on
  BY <1>1 DEF FileType
<1>3. file' = [file EXCEPT ![c] = F]
  BY DEF SFmt
<1> QED
  BY <1>1, <1>2, <1>3, FileShape DEF SFmt

LEMMA ReqBufsShape ==
  ASSUME Shape, NEW c \in Ctxs, NEW t \in Queues, NEW b \in BOOLEAN,
         ReqBufs(c, t, b)
  PROVE  Shape'
<1> DEFINE plane == IF b THEN file[c].size ELSE 0
           F == IF t = "OUT" THEN [file[c] EXCEPT !.out = plane, !.pre = FALSE,
                                                     !.prep = FALSE]
                ELSE [file[c] EXCEPT !.cap = plane]
<1>1. file[c] \in FileType /\ file[c].state = "open"
  BY ShapeAt DEF ReqBufs, Opened
<1>2. plane \in Sizes \cup {0}
  BY <1>1 DEF FileType
<1>3. file' = [file EXCEPT ![c] = F]
  BY DEF ReqBufs
<1> HIDE DEF plane
<1>4. F \in FileType /\ F.state = file[c].state /\ F.on = file[c].on
  BY <1>1, <1>2 DEF FileType
<1> QED
  BY <1>1, <1>3, <1>4, FileShape DEF ReqBufs

LEMMA StreamOnCapShape ==
  ASSUME Shape, NEW c \in Ctxs, StreamOnCap(c)
  PROVE  Shape'
<1> DEFINE F == [file[c] EXCEPT !.on = file[c].on \cup {"CAP"}]
<1>1. file[c] \in FileType /\ file[c].state = "open"
  BY ShapeAt DEF StreamOnCap, Opened
<1>2. F \in FileType /\ F.state = file[c].state /\ F.on = file[c].on \cup {"CAP"}
  BY <1>1 DEF FileType, Queues
<1>3. file' = [file EXCEPT ![c] = F]
  BY DEF StreamOnCap
<1> QED
  BY <1>1, <1>2, <1>3, FileShape DEF StreamOnCap

LEMMA PrepareBufShape ==
  ASSUME Shape, NEW c \in Ctxs, PrepareBuf(c)
  PROVE  Shape'
<1> DEFINE F == [file[c] EXCEPT !.prep = TRUE]
<1>1. file[c] \in FileType /\ file[c].state = "open"
  BY ShapeAt DEF PrepareBuf, Opened
<1>2. F \in FileType /\ F.state = file[c].state /\ F.on = file[c].on
  BY <1>1 DEF FileType
<1>3. file' = [file EXCEPT ![c] = F]
  BY DEF PrepareBuf
<1> QED
  BY <1>1, <1>2, <1>3, FileShape DEF PrepareBuf

(* A size rounded up to pages is a size. *)
LEMMA PageAlignType ==
  ASSUME NEW n \in Nat
  PROVE  PageAlign(n) \in Nat
<1> DEFINE x == n + PageSize - 1
           d == x \div PageSize
<1>1. x \in Nat
  OBVIOUS
<1> HIDE DEF x
<1>2. d \in Nat
  BY <1>1
<1> HIDE DEF d
<1>3. d * PageSize \in Nat
  BY <1>2
<1> QED
  BY <1>3 DEF PageAlign, d, x

(* A source that gives a frame is the fixture or is started; the frame     *)
(* fits on the surface of the vcam-derived one.                            *)
LEMMA Accepted ==
  ASSUME Shape, NEW c \in Ctxs, Opened(c), NEW size \in Nat,
         NEW mapped \in BOOLEAN, ~Rejects(src[c], fb, size, mapped)
  PROVE  /\ src[c].id # "FIXTURE" => src[c].priv.on
         /\ src[c].id = "VCAM" => /\ src[c].priv.on /\ src[c].priv.fb \in Fbs
                                  /\ src[c].priv.fb \in 1 .. starts
                                  /\ size <= fb[src[c].priv.fb].size
         /\ CountFrame(src[c]) \in SourceType
         /\ Sourced(file[c], CountFrame(src[c]), starts)
         /\ DrawFb(src[c], fb) \in [Fbs -> FbType]
<1>1. src[c].id # "FIXTURE" => src[c].priv.on
  BY DEF Rejects
<1>2. src[c].id = "VCAM" => src[c].priv.fb \in Fbs /\ src[c].priv.fb \in 1 .. starts
  BY <1>1 DEF Shape, Types, Sourced, Fbs
<1>3. fb \in [Fbs -> FbType] /\ src[c] \in SourceType
  BY ShapeAt
<1>4. src[c].id = "VCAM" => size <= fb[src[c].priv.fb].size
  BY <1>1, <1>2, <1>3 DEF Rejects, FbType
<1>5. DrawFb(src[c], fb) \in [Fbs -> FbType]
  BY <1>2, <1>3, DrawFbType
<1>6. CountFrame(src[c]) \in SourceType
  BY <1>3, CountFrameType
<1>7. Sourced(file[c], CountFrame(src[c]), starts)
  <2>1. Sourced(file[c], src[c], starts)
    BY ShapeAt
  <2>2. CASE src[c].id = "FIXTURE"
    BY <1>3, <2>1, <2>2, CountFrameType
  <2>3. CASE src[c].id # "FIXTURE"
    BY <1>1, <1>3, <2>1, <2>3, CountFrameType DEF Sourced
  <2> QED
    BY <2>2, <2>3
<1> QED
  BY <1>1, <1>2, <1>4, <1>5, <1>6, <1>7

(* A frame added to the history. *)
LEMMA AddFrame ==
  ASSUME Shape, NEW c \in Ctxs, NEW r \in FrameType,
         Len(frames[c]) < MaxFrames,
         frames' = [frames EXCEPT ![c] = Append(frames[c], r)]
  PROVE  /\ frames' \in [Ctxs -> Seq(FrameType)]
         /\ \A d \in Ctxs : Len(frames'[d]) <= MaxFrames
<1>1. frames \in [Ctxs -> Seq(FrameType)] /\ frames[c] \in Seq(FrameType)
  BY ShapeAt
<1>2. /\ Append(frames[c], r) \in Seq(FrameType)
      /\ Len(Append(frames[c], r)) = Len(frames[c]) + 1
      /\ Len(frames[c]) \in Nat
  BY <1>1
<1> QED
  BY <1>1, <1>2, ShapeAt

(* buf_queue while OUTPUT streams: nothing, or one more frame. *)
LEMMA BufQueueCases ==
  ASSUME Shape, NEW c \in Ctxs, Opened(c), NEW early \in BOOLEAN,
         NEW mapped \in BOOLEAN, BufQueue(c, mapped, early)
  PROVE  \/ UNCHANGED <<src, fb, frames>>
         \/ LET r == FrameOf(src[c], fb, file[c].size, file[c].out, early) IN
            /\ ~Rejects(src[c], fb, file[c].size, mapped)
            /\ src' = [src EXCEPT ![c] = CountFrame(src[c])]
            /\ fb' = DrawFb(src[c], fb)
            /\ r \in FrameType /\ Len(frames[c]) < MaxFrames
            /\ frames' = [frames EXCEPT ![c] = Append(frames[c], r)]
<1> DEFINE r == FrameOf(src[c], fb, file[c].size, file[c].out, early)
<1>1. CASE Rejects(src[c], fb, file[c].size, mapped)
  BY <1>1 DEF BufQueue
<1>2. CASE ~Rejects(src[c], fb, file[c].size, mapped)
  <2>1. /\ file[c].size \in Nat /\ file[c].out \in Nat
    BY ShapeAt DEF FileType
  <2>2. src[c].id = "VCAM" => src[c].priv.fb \in Fbs
    BY <1>2, <2>1, Accepted
  <2>3. r \in FrameType
    BY <2>1, <2>2, ShapeAt, FrameOfType
  <2> QED
    BY <1>2, <2>3 DEF BufQueue
<1> QED
  BY <1>1, <1>2

(* QBUF of a buffer that was or was not prepared early: of the file only   *)
(* the note of waiting and prepared buffers changes.                       *)
LEMMA QBufCases ==
  ASSUME Shape, NEW c \in Ctxs, QBuf(c)
  PROVE  \E early \in BOOLEAN, mapped \in BOOLEAN, F \in FileType :
           /\ early \/ BufPrepare(c)
           /\ Opened(c) /\ file' = [file EXCEPT ![c] = F]
           /\ F.state = file[c].state /\ F.on = file[c].on
           /\ UNCHANGED <<registered, starts, dbufVars, exp>>
           /\ "OUT" \in file[c].on => BufQueue(c, mapped, early)
           /\ "OUT" \notin file[c].on => UNCHANGED <<src, fb, frames>>
<1> DEFINE on == "OUT" \in file[c].on
<1>1. PICK early, left, mapped \in BOOLEAN :
        /\ Opened(c) /\ (early \/ BufPrepare(c))
        /\ on => BufQueue(c, mapped, early)
        /\ ~on => UNCHANGED <<src, fb, frames>>
        /\ file' = [file EXCEPT ![c].pre = @ \/ ~on, ![c].prep = left]
        /\ UNCHANGED <<registered, starts, dbufVars, exp>>
  BY DEF QBuf
<1> DEFINE pre == file[c].pre \/ ~on
           F == [file[c] EXCEPT !.pre = pre, !.prep = left]
<1>2. file[c] \in FileType /\ pre \in BOOLEAN
  BY ShapeAt
<1>3. file' = [file EXCEPT ![c] = F]
  BY <1>1
<1> HIDE DEF pre
<1>4. F \in FileType /\ F.state = file[c].state /\ F.on = file[c].on
  BY <1>2 DEF FileType
<1> HIDE DEF F
<1> QED
  BY <1>1, <1>3, <1>4

LEMMA QBufShape ==
  ASSUME Shape, NEW c \in Ctxs, QBuf(c)
  PROVE  Shape'
<1>1. PICK early \in BOOLEAN, mapped \in BOOLEAN, F \in FileType :
        /\ Opened(c) /\ file' = [file EXCEPT ![c] = F]
        /\ F.state = file[c].state /\ F.on = file[c].on
        /\ UNCHANGED <<registered, starts, dbufVars, exp>>
        /\ "OUT" \in file[c].on => BufQueue(c, mapped, early)
        /\ "OUT" \notin file[c].on => UNCHANGED <<src, fb, frames>>
  BY QBufCases
<1>2. CASE UNCHANGED <<src, fb, frames>>
  BY <1>1, <1>2, FileShape DEF Opened, fbVars
<1>3. CASE ~UNCHANGED <<src, fb, frames>>
  <2> DEFINE r == FrameOf(src[c], fb, file[c].size, file[c].out, early)
  <2>1. /\ ~Rejects(src[c], fb, file[c].size, mapped)
        /\ src' = [src EXCEPT ![c] = CountFrame(src[c])]
        /\ fb' = DrawFb(src[c], fb)
        /\ r \in FrameType /\ Len(frames[c]) < MaxFrames
        /\ frames' = [frames EXCEPT ![c] = Append(frames[c], r)]
    BY <1>1, <1>3, BufQueueCases
  <2> HIDE DEF r
  <2>2. /\ frames' \in [Ctxs -> Seq(FrameType)]
        /\ \A d \in Ctxs : Len(frames'[d]) <= MaxFrames
    BY <2>1, AddFrame
  <2>3. file[c].size \in Nat
    BY ShapeAt DEF FileType
  <2>4. /\ CountFrame(src[c]) \in SourceType
        /\ Sourced(file[c], CountFrame(src[c]), starts)
        /\ fb' \in [Fbs -> FbType]
    BY <1>1, <2>1, <2>3, Accepted
  <2>5. Sourced(F, CountFrame(src[c]), starts)
    BY <1>1, <2>4 DEF Sourced, Opened
  <2> QED
    BY <1>1, <2>1, <2>2, <2>4, <2>5, ShapeAt, OneContext
<1> QED
  BY <1>2, <1>3

(* What start_streaming's buf_queue does to a source that is not started:  *)
(* nothing.                                                                *)
LEMMA AskedNothing ==
  ASSUME Shape, NEW c \in Ctxs, Opened(c), "OUT" \notin file[c].on
  PROVE  Asked(c) = src[c] /\ Drawn(c) = fb
<1>1. src[c] \in SourceType /\ ~src[c].priv.on
  BY ShapeAt DEF Sourced
<1>2. CASE src[c].id = "FIXTURE"
  BY <1>1, <1>2 DEF Asked, Drawn, CountFrame, DrawFb
<1>3. CASE src[c].id # "FIXTURE"
  BY <1>1, <1>3 DEF Asked, Drawn, Rejects
<1> QED
  BY <1>2, <1>3

LEMMA StreamOnFailsShape ==
  ASSUME Shape, NEW c \in Ctxs, StreamOnFails(c)
  PROVE  Shape' /\ UNCHANGED vars
<1>1. Asked(c) = src[c] /\ Drawn(c) = fb
  BY AskedNothing DEF StreamOnFails
<1>2. src' = src /\ fb' = fb
  BY <1>1, ShapeAt DEF StreamOnFails
<1>3. UNCHANGED vars
  BY <1>2 DEF StreamOnFails, vars, dbufVars
<1> QED
  BY <1>3 DEF vars, Shape, Types, Handles, Live
(* STREAMON of OUTPUT: a fixture source stays as it is, a synthetic one    *)
(* gets fresh counters, a vcam-derived one gets a new framebuffer too.     *)
LEMMA StreamOnOutEffect ==
  ASSUME Shape, NEW c \in Ctxs, NEW n \in DropRates, StreamOnOut(c, n)
  PROVE  LET id == src[c].id  f == starts + 1
             p == FreshPriv(IF id = "VCAM" THEN f ELSE 0, n) IN
         /\ Opened(c) /\ "OUT" \notin file[c].on /\ ~src[c].priv.on
         /\ id # "freed"
         /\ src' = [src EXCEPT ![c] = IF id = "FIXTURE" THEN src[c]
                                      ELSE [src[c] EXCEPT !.priv = p]]
         /\ id # "FIXTURE" => p \in PrivType
         /\ id = "VCAM" =>
              /\ starts' = f /\ f \in Fbs
              /\ fb' = [fb EXCEPT ![f].refs = fb[f].refs + 1,
                                  ![f].size = PageAlign(file[c].size)]
         /\ id # "VCAM" => starts' = starts /\ fb' = fb
         /\ fb' \in [Fbs -> FbType]
<1> DEFINE id == src[c].id
           f == starts + 1
           p == FreshPriv(IF id = "VCAM" THEN f ELSE 0, n)
           m == fb[f].refs + 1
           size == PageAlign(file[c].size)
<1>1. Opened(c) /\ "OUT" \notin file[c].on
  BY DEF StreamOnOut
<1>2. Asked(c) = src[c] /\ Drawn(c) = fb
  BY <1>1, AskedNothing
<1>3. ~src[c].priv.on /\ id # "freed"
  BY <1>1, ShapeAt DEF Sourced, Opened
<1>4. starts \in Nat /\ starts <= MaxStarts /\ file[c].size \in Nat
  BY ShapeAt DEF FileType
<1>5. f > starts /\ FbAlloc(fb) = f
  BY <1>4 DEF FbAlloc
<1>6. src' = [src EXCEPT ![c] = IF id = "FIXTURE" THEN src[c]
                                ELSE [src[c] EXCEPT !.priv = p]]
  BY <1>2, <1>5 DEF StreamOnOut
<1>7. id = "VCAM" =>
        /\ starts < MaxStarts /\ starts' = f
        /\ fb' = [fb EXCEPT ![f].refs = fb[f].refs + 1,
                            ![f].size = PageAlign(file[c].size)]
  BY <1>2, <1>5 DEF StreamOnOut
<1>8. id # "VCAM" => starts' = starts /\ fb' = fb
  BY <1>2, <1>5 DEF StreamOnOut
<1>9. id = "VCAM" => f \in Fbs
  BY <1>4, <1>7 DEF Fbs
<1>10. p \in PrivType
  <2>1. (IF id = "VCAM" THEN f ELSE 0) \in Fbs \cup {0}
    BY <1>9
  <2> QED
    BY <2>1 DEF FreshPriv, NoPriv, PrivType
<1>11. fb \in [Fbs -> FbType]
  BY ShapeAt
<1>12. id = "VCAM" => m \in Nat /\ size \in Nat
  BY <1>4, <1>9, <1>11, PageAlignType DEF FbType
<1>13. id = "VCAM" => fb' = [fb EXCEPT ![f].refs = m, ![f].size = size]
  BY <1>7
<1> HIDE DEF f, m, size, id
<1>14. fb' \in [Fbs -> FbType]
  BY <1>8, <1>9, <1>11, <1>12, <1>13 DEF FbType
<1> QED
  BY <1>1, <1>3, <1>6, <1>7, <1>8, <1>9, <1>10, <1>14 DEF f, id

LEMMA StreamOnOutShape ==
  ASSUME Shape, NEW c \in Ctxs, NEW n \in DropRates, StreamOnOut(c, n)
  PROVE  Shape'
<1> DEFINE id == src[c].id
           p == FreshPriv(IF id = "VCAM" THEN starts + 1 ELSE 0, n)
           s == IF id = "FIXTURE" THEN src[c] ELSE [src[c] EXCEPT !.priv = p]
           F == [file[c] EXCEPT !.on = file[c].on \cup {"OUT"}, !.pre = FALSE]
<1>1. /\ Opened(c) /\ ~src[c].priv.on /\ id # "freed"
      /\ src' = [src EXCEPT ![c] = s]
      /\ id # "FIXTURE" => p \in PrivType
      /\ id = "VCAM" => starts' = starts + 1 /\ starts + 1 \in Fbs
      /\ id # "VCAM" => starts' = starts
      /\ fb' \in [Fbs -> FbType]
  BY StreamOnOutEffect
<1>2. /\ file' = [file EXCEPT ![c] = F]
      /\ frames' = [frames EXCEPT ![c] = << >>]
      /\ UNCHANGED <<registered, dbufVars, exp>>
  BY DEF StreamOnOut
<1>3. file[c] \in FileType /\ src[c] \in SourceType /\ starts \in Nat
  BY ShapeAt
<1>4. F \in FileType /\ F.state = "open" /\ F.on = file[c].on \cup {"OUT"}
  BY <1>1, <1>3 DEF FileType, Queues, Opened
<1>5. p.on = TRUE /\ p.fb = IF id = "VCAM" THEN starts + 1 ELSE 0
  BY DEF FreshPriv, NoPriv
<1>6. starts' \in starts .. MaxStarts /\ (id = "VCAM" => starts + 1 \in 1 .. starts')
  BY <1>1, ShapeAt DEF Fbs
<1> HIDE DEF p, F
<1>7. /\ s \in SourceType /\ s.id = id /\ s.bad = src[c].bad
      /\ id # "FIXTURE" => s.priv = p
      /\ id = "FIXTURE" => s.priv = src[c].priv
  BY <1>1, <1>3 DEF SourceType
<1> HIDE DEF s
<1>8. Sourced(F, s, starts')
  <2>1. Sourced(file[c], src[c], starts)
    BY ShapeAt
  <2>2. CASE id = "FIXTURE"
    BY <1>1, <1>4, <1>7, <2>1, <2>2 DEF Sourced
  <2>3. CASE id # "FIXTURE"
    BY <1>1, <1>4, <1>5, <1>6, <1>7, <2>1, <2>3 DEF Sourced
  <2> QED
    BY <2>2, <2>3
<1> QED
  BY <1>1, <1>2, <1>4, <1>6, <1>7, <1>8, ShapeAt, ClearFrames, OneContext

LEMMA StreamOffShape ==
  ASSUME Shape, NEW c \in Ctxs, NEW t \in Queues, StreamOff(c, t)
  PROVE  Shape'
<1> DEFINE pre == file[c].pre /\ t # "OUT"
           prep == file[c].prep /\ t # "OUT"
           F == [file[c] EXCEPT !.on = file[c].on \ {t}, !.pre = pre, !.prep = prep]
<1>1. file[c] \in FileType /\ src[c] \in SourceType /\ file[c].state = "open"
  BY ShapeAt DEF StreamOff, Opened
<1>2. pre \in BOOLEAN /\ prep \in BOOLEAN
  OBVIOUS
<1>3. file' = [file EXCEPT ![c] = F]
  BY DEF StreamOff
<1>4. UNCHANGED <<registered, starts, dbufVars, exp>>
  BY DEF StreamOff
<1> HIDE DEF pre, prep
<1>5. F \in FileType /\ F.state = "open" /\ F.on = file[c].on \ {t}
  BY <1>1, <1>2 DEF FileType, Queues
<1> HIDE DEF F
<1>6. Sourced(file[c], src[c], starts)
  BY ShapeAt
<1>7. CASE StopsSource(c, t)
  <2>1. /\ src' = [src EXCEPT ![c] = StopSource(src[c])]
        /\ fb' = StopFb(src[c], fb) /\ frames' = [frames EXCEPT ![c] = << >>]
    BY <1>7 DEF StreamOff
  <2>2. src[c].id # "freed" /\ t = "OUT" /\ "OUT" \notin F.on
    BY <1>1, <1>5, <1>6, <1>7 DEF Sourced, StopsSource
  <2>3. /\ StopSource(src[c]) \in SourceType
        /\ StopSource(src[c]).priv = NoPriv /\ StopSource(src[c]).id = src[c].id
        /\ StopSource(src[c]).bad = (src[c].bad \/ src[c].id = "freed")
    BY <1>1, StopSourceType
  <2>4. Sourced(F, StopSource(src[c]), starts)
    BY <1>5, <1>6, <2>2, <2>3 DEF Sourced, NoPriv
  <2> QED
    BY <1>3, <1>4, <1>5, <2>1, <2>3, <2>4, ShapeAt, StopFbType, ClearFrames,
       OneContext
<1>8. CASE ~StopsSource(c, t)
  <2>1. UNCHANGED <<src, fb, frames>>
    BY <1>8 DEF StreamOff
  <2>2. "OUT" \in F.on <=> "OUT" \in file[c].on
    BY <1>5, <1>8 DEF StopsSource
  <2> QED
    BY <1>1, <1>3, <1>4, <1>5, <2>1, <2>2, FileShape DEF fbVars
<1> QED
  BY <1>7, <1>8
DbufType == [fb : Fbs \cup {0}, fd : BOOLEAN, maps : 0 .. MaxMaps]
ExpType == [on : BOOLEAN, ctx : Ctxs, fb : Fbs \cup {0}]

(* A step of an export or of an importer leaves files and sources alone. *)
LEMMA ExportStepShape ==
  ASSUME Shape, UNCHANGED <<registered, file, src, starts, frames>>,
         fb' \in [Fbs -> FbType], dbuf' \in [Dbufs -> DbufType],
         exports' \in 0 .. MaxExports, exp' \in ExpType, Handles'
  PROVE  Shape'
<1>1. Types'
  BY DEF Shape, Types, DbufType, ExpType
<1> QED
  BY <1>1 DEF Shape

LEMMA ExportGetShape ==
  ASSUME Shape, NEW c \in Ctxs, ExportGet(c)
  PROVE  Shape'
<1> DEFINE f == src[c].priv.fb
<1>1. f \in 1 .. starts /\ f \in Fbs
  BY ShapeAt DEF ExportGet, Sourced, Fbs
<1>2. /\ exp' = [on |-> TRUE, ctx |-> c, fb |-> f] /\ fb' = KrefGet(fb, f)
      /\ UNCHANGED <<registered, file, src, starts, dbufVars, frames>>
  BY DEF ExportGet
<1> HIDE DEF f
<1>3. fb' \in [Fbs -> FbType]
  BY <1>1, <1>2, ShapeAt, KrefGetType
<1>4. exp' \in ExpType /\ exp'.fb = f
  BY <1>1, <1>2 DEF ExpType
<1>5. Handles'
  BY <1>1, <1>2, <1>4 DEF Handles, Shape, Live, dbufVars
<1> QED
  BY <1>2, <1>3, <1>4, <1>5, ExportStepShape
     DEF dbufVars, Shape, Types, DbufType, ExpType

LEMMA ExportFdShape ==
  ASSUME Shape, ExportFd
  PROVE  Shape'
<1> DEFINE n == exports + 1
           D == [NoDbuf EXCEPT !.fb = exp.fb, !.fd = TRUE]
<1>1. exp.on /\ exp.fb \in 1 .. starts /\ exp.fb \in Fbs
  BY DEF ExportFd, Shape, Types, Handles, Fbs
<1>2. n \in Dbufs /\ n \in 0 .. MaxExports /\ exports \in Nat /\ n = exports + 1
  BY DEF ExportFd, Shape, Types, Dbufs
<1>3. D \in DbufType /\ D.fd = TRUE /\ D.fb = exp.fb
  <2>1. NoDbuf \in DbufType
    BY NewTypes DEF DbufType
  <2>2. D \in DbufType
    BY <1>1, <2>1 DEF DbufType
  <2> QED
    BY <2>2 DEF NoDbuf
<1>4. /\ dbuf' = [dbuf EXCEPT ![n] = D] /\ exports' = n /\ exp' = Idle
      /\ UNCHANGED <<registered, file, src, fbVars, frames>>
  BY DEF ExportFd
<1>5. dbuf \in [Dbufs -> DbufType]
  BY DEF Shape, Types, DbufType
<1> HIDE DEF n, D
<1>6. dbuf' \in [Dbufs -> DbufType]
  BY <1>2, <1>3, <1>4, <1>5
<1>7. exp' \in ExpType /\ exp'.on = FALSE
  BY <1>4, NewTypes DEF ExpType, Idle
<1>8. ASSUME NEW d \in Dbufs
      PROVE  IF Live(d)' THEN dbuf'[d].fb \in 1 .. starts /\ d <= exports'
             ELSE dbuf'[d] = NoDbuf
  <2>1. CASE d = n
    BY <1>1, <1>2, <1>3, <1>4, <1>5, <2>1 DEF Live, Dbufs
  <2>2. CASE d # n
    <3>1. dbuf'[d] = dbuf[d]
      BY <1>4, <1>5, <2>2
    <3>2. Handles
      BY DEF Shape
    <3> QED
      BY <1>2, <1>4, <3>1, <3>2 DEF Live, Handles, Dbufs
  <2> QED
    BY <2>1, <2>2
<1>9. Handles'
  BY <1>4, <1>7, <1>8 DEF Handles, fbVars
<1> QED
  BY <1>2, <1>4, <1>6, <1>7, <1>9, ExportStepShape DEF fbVars, Shape, Types

LEMMA ExportFailsShape ==
  ASSUME Shape, ExportFails
  PROVE  Shape'
<1>1. exp.fb \in Fbs
  BY DEF ExportFails, Shape, Types, Handles, Fbs
<1>2. /\ fb' = KrefPut(fb, exp.fb) /\ exp' = Idle
      /\ UNCHANGED <<registered, file, src, starts, dbufVars, frames>>
  BY DEF ExportFails
<1>3. fb \in [Fbs -> FbType]
  BY DEF Shape, Types
<1>4. fb' \in [Fbs -> FbType]
  BY <1>1, <1>2, <1>3, KrefPutType
<1>5. exp' \in ExpType /\ exp'.on = FALSE
  BY <1>2, NewTypes DEF ExpType, Idle
<1>6. Handles'
  BY <1>2, <1>5 DEF Handles, Shape, Live, dbufVars
<1> QED
  BY <1>2, <1>4, <1>5, <1>6, ExportStepShape
     DEF dbufVars, Shape, Types, DbufType

(* What Shape says of a live DMA-BUF. *)
LEMMA LiveAt ==
  ASSUME Shape, NEW d \in Dbufs, Live(d)
  PROVE  /\ dbuf \in [Dbufs -> DbufType] /\ fb \in [Fbs -> FbType]
         /\ dbuf[d] \in DbufType /\ dbuf[d].maps \in Nat
         /\ dbuf[d].fb \in 1 .. starts /\ dbuf[d].fb \in Fbs
         /\ d <= exports
  BY DEF Shape, Types, Handles, DbufType, Fbs

LEMMA DmabufMapShape ==
  ASSUME Shape, NEW d \in Dbufs, DmabufMap(d)
  PROVE  Shape'
<1> DEFINE n == dbuf[d].maps + 1
           D == [dbuf[d] EXCEPT !.maps = n]
<1>1. Live(d)
  BY DEF DmabufMap, Live
<1>2. n \in 0 .. MaxMaps /\ dbuf[d] \in DbufType /\ dbuf \in [Dbufs -> DbufType]
  BY <1>1, LiveAt DEF DmabufMap
<1>3. dbuf' = [dbuf EXCEPT ![d] = D]
  BY DEF DmabufMap
<1> HIDE DEF n
<1>4. D \in DbufType /\ D.fb = dbuf[d].fb /\ D.fd = dbuf[d].fd
  BY <1>2 DEF DbufType
<1>5. fb' \in [Fbs -> FbType] /\ dbuf[d].fd
  BY <1>1, LiveAt, TouchType DEF DmabufMap
<1> HIDE DEF D
<1>6. dbuf' \in [Dbufs -> DbufType]
  BY <1>2, <1>3, <1>4
<1>7. UNCHANGED <<registered, file, src, starts, exports, exp, frames>>
  BY DEF DmabufMap
<1>8. ASSUME NEW e \in Dbufs
      PROVE  IF Live(e)' THEN dbuf'[e].fb \in 1 .. starts /\ e <= exports
             ELSE dbuf'[e] = NoDbuf
  <2>1. CASE e = d
    BY <1>1, <1>2, <1>3, <1>4, <1>5, <2>1, LiveAt DEF Live
  <2>2. CASE e # d
    <3>1. dbuf'[e] = dbuf[e]
      BY <1>2, <1>3, <2>2
    <3> QED
      BY <3>1 DEF Live, Handles, Shape
  <2> QED
    BY <2>1, <2>2
<1>9. Handles'
  BY <1>7, <1>8 DEF Handles, Shape
<1> QED
  BY <1>5, <1>6, <1>7, <1>9, ExportStepShape DEF Shape, Types, ExpType

LEMMA LeaveDmabufShape ==
  ASSUME Shape, NEW d \in Dbufs, Live(d), NEW D \in DbufType,
         D.fb = dbuf[d].fb, LeaveDmabuf(d, D)
  PROVE  Shape'
<1> DEFINE E == IF D.fd \/ D.maps > 0 THEN D ELSE NoDbuf
<1>1. E \in DbufType
  BY NewTypes DEF DbufType
<1>2. /\ dbuf' = [dbuf EXCEPT ![d] = E]
      /\ fb' = fb \/ fb' = KrefPut(fb, dbuf[d].fb)
      /\ UNCHANGED <<registered, file, src, starts, exports, exp, frames>>
  BY DEF LeaveDmabuf
<1>3. E.fd \/ E.maps > 0 => E.fb = dbuf[d].fb
  BY DEF NoDbuf
<1>4. ~(E.fd \/ E.maps > 0) => E = NoDbuf
  OBVIOUS
<1> HIDE DEF E
<1>5. dbuf' \in [Dbufs -> DbufType] /\ fb' \in [Fbs -> FbType]
  BY <1>1, <1>2, LiveAt, KrefPutType
<1>6. ASSUME NEW e \in Dbufs
      PROVE  IF Live(e)' THEN dbuf'[e].fb \in 1 .. starts /\ e <= exports
             ELSE dbuf'[e] = NoDbuf
  <2>1. CASE e = d
    <3>1. dbuf'[e] = E
      BY <1>2, <2>1, LiveAt
    <3> QED
      BY <1>3, <1>4, <2>1, <3>1, LiveAt DEF Live
  <2>2. CASE e # d
    <3>1. dbuf'[e] = dbuf[e]
      BY <1>2, <2>2, LiveAt
    <3> QED
      BY <3>1 DEF Live, Handles, Shape
  <2> QED
    BY <2>1, <2>2
<1>7. Handles'
  BY <1>2, <1>6 DEF Handles, Shape
<1> QED
  BY <1>2, <1>5, <1>7, ExportStepShape DEF Shape, Types, ExpType

(* The users that an unmap or a close leaves. *)
LEMMA LeaveType ==
  ASSUME Shape, NEW d \in Dbufs
  PROVE  /\ DmabufUnmap(d) => LET D == [dbuf[d] EXCEPT !.maps = @ - 1] IN
              Live(d) /\ D \in DbufType /\ D.fb = dbuf[d].fb /\ LeaveDmabuf(d, D)
         /\ DmabufClose(d) => LET D == [dbuf[d] EXCEPT !.fd = FALSE] IN
              Live(d) /\ D \in DbufType /\ D.fb = dbuf[d].fb /\ LeaveDmabuf(d, D)
<1>1. ASSUME DmabufUnmap(d)
      PROVE  LET D == [dbuf[d] EXCEPT !.maps = @ - 1] IN
              Live(d) /\ D \in DbufType /\ D.fb = dbuf[d].fb /\ LeaveDmabuf(d, D)
  <2> DEFINE n == dbuf[d].maps - 1
             D == [dbuf[d] EXCEPT !.maps = n]
  <2>1. Live(d) /\ dbuf[d].maps > 0 /\ LeaveDmabuf(d, D)
    BY <1>1 DEF DmabufUnmap, Live
  <2>2. dbuf[d] \in DbufType
    BY <2>1, LiveAt
  <2>3. n \in 0 .. MaxMaps
    BY <2>1, <2>2 DEF DbufType
  <2> HIDE DEF n
  <2>4. D \in DbufType /\ D.fb = dbuf[d].fb
    BY <2>2, <2>3 DEF DbufType
  <2> QED
    BY <2>1, <2>4 DEF n
<1>2. ASSUME DmabufClose(d)
      PROVE  LET D == [dbuf[d] EXCEPT !.fd = FALSE] IN
              Live(d) /\ D \in DbufType /\ D.fb = dbuf[d].fb /\ LeaveDmabuf(d, D)
  <2>1. Live(d)
    BY <1>2 DEF DmabufClose, Live
  <2>2. dbuf[d] \in DbufType
    BY <2>1, LiveAt
  <2> QED
    BY <1>2, <2>1, <2>2 DEF DmabufClose, DbufType
<1> QED
  BY <1>1, <1>2

(* Every step keeps Shape. *)
LEMMA NextShape == Shape /\ [Next]_vars => Shape'
<1> SUFFICES ASSUME Shape, [Next]_vars PROVE Shape'
  OBVIOUS
<1>1. CASE UNCHANGED vars
  BY <1>1 DEF vars, Shape, Types, Handles, Live
<1>2. ASSUME NEW b \in Backends, Register(b) PROVE Shape'
  BY <1>2 DEF Register, Shape, Types, Handles, Live, fbVars, dbufVars
<1>3. ASSUME NEW d \in Dbufs, DmabufUnmap(d) \/ DmabufClose(d) PROVE Shape'
  BY <1>3, LeaveType, LeaveDmabufShape
<1> QED
  BY <1>1, <1>2, <1>3, OpenShape, ReleaseSourceShape, ReleaseQueuesShape,
     PrepareBufShape, QBufShape, StreamOnFailsShape, StreamOnCapShape, ExportGetShape,
     SetBackendShape, StreamOnOutShape, StreamOffShape, SFmtShape,
     ReqBufsShape, ExportFdShape, ExportFailsShape, DmabufMapShape DEF Next

(* Files, sources, framebuffers and DMA-BUFs always fit together: a source *)
(* is started while OUTPUT streams, has a framebuffer then if it is the    *)
(* vcam-derived one, and every export refers to an allocated framebuffer   *)
(* (vpipe_start_streaming, vcam_start, vcam_export_dmabuf).                *)
THEOREM ShapeHolds == Spec => []Shape
  BY InitShape, NextShape, PTL DEF Spec

(* Type correctness: the states of files, sources, framebuffers and        *)
(* DMA-BUFs have their shapes, and a started vcam-derived source has a     *)
(* framebuffer.                                                            *)
THEOREM TypeCorrect == Spec => []TypeOK
<1>1. Shape => TypeOK
  <2> SUFFICES ASSUME Shape PROVE TypeOK
    OBVIOUS
  <2>1. \A c \in Ctxs : Len(frames[c]) \in 0 .. MaxFrames
    BY DEF Shape, Types
  <2>2. \A c \in Ctxs : src[c].id = "VCAM" /\ src[c].priv.on =>
                          src[c].priv.fb \in 1 .. starts
    BY DEF Shape, Sourced
  <2> QED
    BY <2>1, <2>2 DEF Shape, Types, TypeOK, FileType, SourceType, PrivType, FbType
<1> QED
  BY <1>1, ShapeHolds, PTL

(* A backend is started exactly while OUTPUT of its file streams           *)
(* (vpipe_start_streaming, vpipe_stop_streaming, SET_BACKEND, release).    *)
THEOREM StartedWhileStreamingHolds == Spec => []StartedWhileStreaming
<1>1. Shape => StartedWhileStreaming
  BY DEF Shape, Sourced, StartedWhileStreaming, Opened
<1> QED
  BY <1>1, ShapeHolds, PTL
-----------------------------------------------------------------------------
(* Reference counts. *)

Exporting(f) == IF exp.on /\ exp.fb = f THEN 1 ELSE 0

(* No framebuffer was used after its release, none is touched before its   *)
(* allocation, and no two streams share one.                               *)
Counts ==
  /\ RefsCounted
  /\ \A f \in Fbs : ~fb[f].bad
  /\ \A f \in Fbs : f > starts => fb[f] = NoFb
  /\ \A c, d \in Ctxs : /\ src[c].priv.on /\ src[c].id = "VCAM"
                        /\ src[d].priv.on /\ src[d].id = "VCAM"
                        /\ src[c].priv.fb = src[d].priv.fb
                        => c = d

(* The holders of a framebuffer can be counted. *)
LEMMA HolderSets ==
  ASSUME Shape, NEW f \in Fbs
  PROVE  /\ IsFiniteSet(Streams(f)) /\ IsFiniteSet(Exported(f))
         /\ Cardinality(Streams(f)) \in Nat /\ Cardinality(Exported(f)) \in Nat
         /\ Exporting(f) \in {0, 1}
         /\ Streams(f) # {} => Cardinality(Streams(f)) > 0
         /\ Exported(f) # {} => Cardinality(Exported(f)) > 0
         /\ \A c \in Streams(f) : src[c].id = "VCAM" /\ src[c].priv.on
<1>1. IsFiniteSet(Streams(f))
  BY FS_Subset DEF Streams
<1>2. IsFiniteSet(Dbufs)
  BY FS_Interval DEF Dbufs
<1>3. IsFiniteSet(Exported(f))
  BY <1>2, FS_Subset DEF Exported
<1>4. Cardinality(Streams(f)) \in Nat /\ Cardinality(Exported(f)) \in Nat
  BY <1>1, <1>3, FS_CardinalityType
<1>5. /\ Streams(f) # {} => Cardinality(Streams(f)) # 0
      /\ Exported(f) # {} => Cardinality(Exported(f)) # 0
  BY <1>1, <1>3, FS_EmptySet
<1>6. \A c \in Streams(f) : src[c].id = "VCAM" /\ src[c].priv.on
  BY DEF Streams, Shape, Sourced, Fbs
<1> QED
  BY <1>1, <1>3, <1>4, <1>5, <1>6 DEF Exporting

(* Who holds a framebuffer keeps it alive. *)
LEMMA HolderKeeps ==
  ASSUME Shape, Counts, NEW f \in Fbs
  PROVE  /\ fb[f].refs = Cardinality(Streams(f)) + Cardinality(Exported(f))
                         + Exporting(f)
         /\ Streams(f) # {} => fb[f].refs > 0
         /\ Exported(f) # {} => fb[f].refs > 0
         /\ Exporting(f) = 1 => fb[f].refs > 0
         /\ Streams(f) # {} /\ (Exported(f) # {} \/ Exporting(f) = 1)
              => fb[f].refs > 1
<1>1. fb[f].refs = Cardinality(Streams(f)) + Cardinality(Exported(f))
                   + Exporting(f)
  BY DEF Counts, RefsCounted, Exporting
<1>2. /\ Cardinality(Streams(f)) \in Nat /\ Cardinality(Exported(f)) \in Nat
      /\ Exporting(f) \in {0, 1}
      /\ Streams(f) # {} => Cardinality(Streams(f)) > 0
      /\ Exported(f) # {} => Cardinality(Exported(f)) > 0
  BY HolderSets
<1> QED
  BY <1>1, <1>2

(* The initial state: no framebuffers and nobody who holds one. *)
LEMMA InitCounts == Init => Counts
<1> SUFFICES ASSUME Init PROVE Counts
  OBVIOUS
<1>1. \A c \in Ctxs : ~src[c].priv.on
  BY DEF Init, NewSource, NoPriv
<1>2. \A d \in Dbufs : ~Live(d)
  BY DEF Init, NoDbuf, Live
<1>3. ~exp.on
  BY DEF Init, Idle
<1>4. ASSUME NEW f \in Fbs PROVE Streams(f) = {} /\ Exported(f) = {}
  BY <1>1, <1>2 DEF Streams, Exported
<1>5. \A f \in Fbs : fb[f] = NoFb
  BY DEF Init
<1>6. RefsCounted
  BY ONLY <1>3, <1>4, <1>5, FS_EmptySet DEF RefsCounted, NoFb
<1> QED
  BY <1>1, <1>5, <1>6 DEF Counts, NoFb

(* A step after which each framebuffer has the same holders and the same   *)
(* count.                                                                  *)
LEMMA SameCounts ==
  ASSUME Shape, Shape', Counts, UNCHANGED starts,
         \A c \in Ctxs : /\ src'[c].priv.on = src[c].priv.on
                         /\ src'[c].priv.fb = src[c].priv.fb
                         /\ src[c].priv.on => src'[c].id = src[c].id,
         \A d \in Dbufs : /\ Live(d)' <=> Live(d)
                          /\ dbuf'[d].fb = dbuf[d].fb,
         UNCHANGED exp,
         \A f \in Fbs : /\ fb'[f].refs = fb[f].refs /\ fb'[f].bad = fb[f].bad
                        /\ f > starts => fb'[f] = fb[f]
  PROVE  Counts'
<1>1. \A f : Streams(f)' = Streams(f) /\ Exported(f)' = Exported(f)
  BY DEF Streams, Exported
<1>2. RefsCounted'
  BY <1>1 DEF Counts, RefsCounted
<1>3. \A c, d \in Ctxs : /\ src'[c].priv.on /\ src'[c].id = "VCAM"
                         /\ src'[d].priv.on /\ src'[d].id = "VCAM"
                         /\ src'[c].priv.fb = src'[d].priv.fb
                         => c = d
  BY DEF Counts
<1> QED
  BY <1>2, <1>3 DEF Counts

(* A stream that ends drops its reference. *)
LEMMA StopCounts ==
  ASSUME Shape, Shape', Counts, NEW c \in Ctxs, NEW s \in SourceType,
         s.priv = NoPriv, src' = [src EXCEPT ![c] = s],
         fb' = StopFb(src[c], fb), UNCHANGED <<starts, dbufVars, exp>>
  PROVE  Counts'
<1>1. /\ src'[c] = s /\ \A d \in Ctxs \ {c} : src'[d] = src[d]
      /\ fb \in [Fbs -> FbType]
  BY DEF Shape, Types
<1>2. ~src'[c].priv.on /\ src'[c].priv.fb = 0
  BY <1>1 DEF NoPriv
<1>3. ASSUME NEW f \in Fbs
      PROVE  /\ Streams(f)' = Streams(f) \ {c} /\ Exported(f)' = Exported(f)
             /\ Exporting(f)' = Exporting(f)
  BY <1>1, <1>2 DEF Streams, Exported, Exporting, Live, dbufVars
<1>4. ASSUME NEW f \in Fbs
      PROVE  /\ fb'[f].refs = Cardinality(Streams(f)') + Cardinality(Exported(f)')
                              + Exporting(f)'
             /\ ~fb'[f].bad /\ (f > starts => fb'[f] = NoFb)
  <2>1. CASE c \in Streams(f)
    <3>1. src[c].id = "VCAM" /\ src[c].priv.on /\ src[c].priv.fb = f
      BY <2>1, HolderSets DEF Streams
    <3>2. fb' = KrefPut(fb, f) /\ fb[f].refs > 0
      BY <2>1, <3>1, StopFbType, HolderKeeps
    <3>3. fb'[f].refs = fb[f].refs - 1 /\ fb'[f].bad = fb[f].bad
      BY <1>1, <3>2, KrefPutType
    <3>4. Cardinality(Streams(f) \ {c}) = Cardinality(Streams(f)) - 1
      BY <2>1, HolderSets, FS_RemoveElement
    <3>5. ~(f > starts)
      BY <3>1 DEF Shape, Types, Sourced
    <3>6. /\ fb[f].refs = Cardinality(Streams(f)) + Cardinality(Exported(f))
                          + Exporting(f)
          /\ Cardinality(Streams(f)) \in Nat /\ Cardinality(Exported(f)) \in Nat
          /\ Exporting(f) \in {0, 1}
      BY HolderKeeps, HolderSets
    <3>7. ~fb[f].bad
      BY DEF Counts
    <3>8. fb'[f].refs = Cardinality(Streams(f)') + Cardinality(Exported(f)')
                        + Exporting(f)'
      <4>1. /\ Cardinality(Streams(f)') = Cardinality(Streams(f) \ {c})
            /\ Cardinality(Exported(f)') = Cardinality(Exported(f))
            /\ Exporting(f)' = Exporting(f)
        BY <1>3
      <4> QED
        BY <3>3, <3>4, <3>6, <4>1
    <3>9. ~fb'[f].bad
      BY <3>3, <3>7
    <3> QED
      BY <3>5, <3>8, <3>9
  <2>2. CASE c \notin Streams(f)
    <3>1. fb'[f] = fb[f]
      BY <1>1, <2>2, StopFbType, KrefPutType DEF Streams
    <3>2. Streams(f)' = Streams(f)
      BY <1>3, <2>2
    <3> QED
      BY <1>3, <3>1, <3>2, HolderKeeps DEF Counts
  <2> QED
    BY <2>1, <2>2
<1>5. RefsCounted'
  BY <1>4 DEF RefsCounted, Exporting
<1>6. \A d, e \in Ctxs : /\ src'[d].priv.on /\ src'[d].id = "VCAM"
                         /\ src'[e].priv.on /\ src'[e].id = "VCAM"
                         /\ src'[d].priv.fb = src'[e].priv.fb
                         => d = e
  BY <1>1, <1>2 DEF Counts
<1> QED
  BY <1>4, <1>5, <1>6 DEF Counts

(* A started vcam-derived source holds its framebuffer. *)
LEMMA StreamHolds ==
  ASSUME Shape, Counts, NEW c \in Ctxs, src[c].id = "VCAM", src[c].priv.on
  PROVE  LET f == src[c].priv.fb IN
         /\ f \in Fbs /\ f \in 1 .. starts /\ f <= starts
         /\ Streams(f) = {c} /\ fb[f].refs > 0
<1> DEFINE f == src[c].priv.fb
<1>1. f \in Fbs /\ f \in 1 .. starts /\ f <= starts
  BY ShapeAt DEF Sourced, Shape, Types, Fbs
<1>2. c \in Streams(f)
  BY DEF Streams
<1>3. \A d \in Streams(f) : d = c
  <2>1. \A d \in Streams(f) : src[d].id = "VCAM" /\ src[d].priv.on /\ d \in Ctxs
                              /\ src[d].priv.fb = f
    BY <1>1, HolderSets DEF Streams
  <2> QED
    BY <2>1 DEF Counts
<1>4. Streams(f) = {c}
  BY <1>2, <1>3
<1> QED
  BY <1>1, <1>4, HolderKeeps

(* A stream that begins is the only holder of a new framebuffer. *)
LEMMA StartCounts ==
  ASSUME Shape, Shape', Counts, NEW c \in Ctxs, NEW n \in DropRates,
         StreamOnOut(c, n)
  PROVE  Counts'
<1>0. PICK f : f = starts + 1
  OBVIOUS
<1> DEFINE id == src[c].id
           p == FreshPriv(IF id = "VCAM" THEN f ELSE 0, n)
           s == IF id = "FIXTURE" THEN src[c] ELSE [src[c] EXCEPT !.priv = p]
<1>1. /\ ~src[c].priv.on /\ src' = [src EXCEPT ![c] = s]
      /\ id = "VCAM" =>
           /\ starts' = f /\ f \in Fbs
           /\ fb' = [fb EXCEPT ![f].refs = fb[f].refs + 1,
                               ![f].size = PageAlign(file[c].size)]
      /\ id # "VCAM" => starts' = starts /\ fb' = fb
  BY <1>0, StreamOnOutEffect
<1>2. /\ src \in [Ctxs -> SourceType] /\ fb \in [Fbs -> FbType]
      /\ starts \in Nat
  BY DEF Shape, Types
<1>3. /\ src'[c] = s /\ \A d \in Ctxs \ {c} : src'[d] = src[d]
  BY <1>1, <1>2
<1>4. UNCHANGED <<dbufVars, exp>>
  BY DEF StreamOnOut
<1>5. p.on = TRUE /\ p.fb = IF id = "VCAM" THEN f ELSE 0
  BY DEF FreshPriv, NoPriv
<1> HIDE DEF p
<1>6. /\ s.id = id
      /\ id # "FIXTURE" => s.priv = p
      /\ id = "FIXTURE" => s.priv = src[c].priv
  BY <1>2 DEF SourceType
<1>7. src[c].priv.fb = 0
  BY <1>1, ShapeAt DEF Sourced, NoPriv
<1> HIDE DEF s
<1>8. CASE id # "VCAM"
  <2>1. src'[c].priv.fb = 0 /\ src'[c].id # "VCAM"
    BY <1>3, <1>5, <1>6, <1>7, <1>8
  <2>2. ASSUME NEW g \in Fbs
        PROVE  Streams(g)' = Streams(g) /\ Exported(g)' = Exported(g)
    <3>1. g # 0
      BY DEF Fbs
    <3> QED
      BY <1>3, <1>4, <1>7, <2>1, <3>1 DEF Streams, Exported, Live, dbufVars
  <2>3. RefsCounted'
    BY <1>1, <1>4, <1>8, <2>2 DEF Counts, RefsCounted
  <2>4. \A d, e \in Ctxs : /\ src'[d].priv.on /\ src'[d].id = "VCAM"
                           /\ src'[e].priv.on /\ src'[e].id = "VCAM"
                           /\ src'[d].priv.fb = src'[e].priv.fb
                           => d = e
    BY <1>3, <2>1 DEF Counts
  <2> QED
    BY <1>1, <1>8, <2>3, <2>4 DEF Counts
<1>9. CASE id = "VCAM"
  <2>1. /\ starts' = f /\ f \in Fbs /\ fb[f] = NoFb
        /\ fb' = [fb EXCEPT ![f].refs = fb[f].refs + 1,
                            ![f].size = PageAlign(file[c].size)]
    BY <1>0, <1>1, <1>2, <1>9 DEF Counts
  <2>2. /\ fb[f].refs = 0 /\ fb[f].bad = FALSE
        /\ fb'[f].refs = 1 /\ fb'[f].bad = FALSE
        /\ \A g \in Fbs \ {f} : fb'[g] = fb[g]
    BY <1>2, <2>1 DEF NoFb
  <2>3. Streams(f) = {} /\ Exported(f) = {} /\ Exporting(f) = 0
    BY <2>1, <2>2, HolderKeeps, HolderSets
  <2>4. src'[c].priv.on = TRUE /\ src'[c].priv.fb = f
    BY <1>3, <1>5, <1>6, <1>9
  <2>5. ASSUME NEW g \in Fbs \ {f}
        PROVE  /\ Streams(g)' = Streams(g) /\ Exported(g)' = Exported(g)
               /\ Exporting(g)' = Exporting(g)
    <3>1. g # 0
      BY DEF Fbs
    <3> QED
      BY <1>3, <1>4, <1>7, <2>4, <3>1
         DEF Streams, Exported, Exporting, Live, dbufVars
  <2>6. Streams(f)' = {c} /\ Exported(f)' = {} /\ Exporting(f)' = 0
    <3>1. \A d \in Ctxs \ {c} : ~(src'[d].priv.on /\ src'[d].priv.fb = f)
      BY <1>3, <2>3 DEF Streams
    <3>2. Streams(f)' = {c}
      BY <2>4, <3>1 DEF Streams
    <3>3. Exported(f)' = Exported(f) /\ Exporting(f)' = Exporting(f)
      BY <1>4 DEF Exported, Exporting, Live, dbufVars
    <3> QED
      BY <2>3, <3>2, <3>3
  <2>7. Cardinality({c}) = 1 /\ Cardinality({}) = 0
    BY FS_Singleton, FS_EmptySet
  <2>8. ASSUME NEW g \in Fbs
        PROVE  fb'[g].refs = Cardinality(Streams(g)') + Cardinality(Exported(g)')
                             + Exporting(g)'
    <3>1. CASE g = f
      <4>1. /\ Cardinality(Streams(g)') = 1 /\ Cardinality(Exported(g)') = 0
            /\ Exporting(g)' = 0
        BY <2>6, <2>7, <3>1
      <4> QED
        BY <2>2, <3>1, <4>1
    <3>2. CASE g # f
      BY <2>2, <2>5, <3>2, HolderKeeps
    <3> QED
      BY <3>1, <3>2
  <2>9. RefsCounted'
    BY <2>8 DEF RefsCounted, Exporting
  <2>10. ASSUME NEW d \in Ctxs \ {c}, src'[d].priv.on, src'[d].id = "VCAM"
         PROVE  src'[d].priv.fb # f
    BY <1>2, <1>3, <2>10, <1>0, StreamHolds
  <2>11. \A d, e \in Ctxs : /\ src'[d].priv.on /\ src'[d].id = "VCAM"
                            /\ src'[e].priv.on /\ src'[e].id = "VCAM"
                            /\ src'[d].priv.fb = src'[e].priv.fb
                            => d = e
    BY <1>3, <2>4, <2>10 DEF Counts
  <2>12. \A g \in Fbs : g > starts' => fb'[g] = NoFb
    BY <1>0, <1>2, <2>1, <2>2 DEF Counts, Fbs
  <2>13. \A g \in Fbs : ~fb'[g].bad
    BY <2>2 DEF Counts
  <2> QED
    BY <2>9, <2>11, <2>12, <2>13 DEF Counts
<1> QED
  BY <1>8, <1>9

(* A frame is drawn on a surface that its stream holds. *)
LEMMA QBufEffect ==
  ASSUME Shape, Counts, NEW c \in Ctxs, QBuf(c)
  PROVE  /\ UNCHANGED <<starts, dbufVars, exp>>
         /\ \A d \in Ctxs \ {c} : src'[d] = src[d] /\ frames'[d] = frames[d]
         /\ \A f \in Fbs : fb'[f].refs = fb[f].refs /\ fb'[f].bad = fb[f].bad
         /\ \A f \in Fbs : fb'[f] = fb[f] \/ Streams(f) = {c}
         /\ \/ src'[c] = src[c] /\ frames'[c] = frames[c] /\ fb' = fb
            \/ LET s == src[c] IN \E early \in BOOLEAN, r \in FrameType :
               /\ r = FrameOf(s, fb, file[c].size, file[c].out, early)
               /\ s.id # "FIXTURE" => s.priv.on
               /\ s.id = "VCAM" => file[c].size <= fb[s.priv.fb].size
               /\ early \/ file[c].size <= file[c].out
               /\ src'[c] = CountFrame(s)
               /\ frames'[c] = Append(frames[c], r)
               /\ s.id = "VCAM" =>
                    fb'[s.priv.fb].shown = IF Draws(s) THEN s.priv.offset + 1
                                           ELSE fb[s.priv.fb].shown
<1> DEFINE s == src[c]
<1>1. PICK early \in BOOLEAN, mapped \in BOOLEAN :
        /\ early \/ BufPrepare(c)
        /\ UNCHANGED <<starts, dbufVars, exp>> /\ Opened(c)
        /\ "OUT" \in file[c].on => BufQueue(c, mapped, early)
        /\ "OUT" \notin file[c].on => UNCHANGED <<src, fb, frames>>
  BY QBufCases
<1> DEFINE r == FrameOf(s, fb, file[c].size, file[c].out, early)
<1>2. /\ src \in [Ctxs -> SourceType] /\ frames \in [Ctxs -> Seq(FrameType)]
      /\ fb \in [Fbs -> FbType] /\ file[c].size \in Nat
      /\ s \in SourceType /\ s.priv.offset + 1 \in Nat
  <2>1. /\ src \in [Ctxs -> SourceType] /\ frames \in [Ctxs -> Seq(FrameType)]
        /\ fb \in [Fbs -> FbType] /\ file[c] \in FileType
    BY DEF Shape, Types
  <2>2. file[c].size \in Nat
    BY <2>1 DEF FileType
  <2>3. s \in SourceType
    BY <2>1
  <2>4. s.priv.offset \in Nat
    BY <2>3 DEF SourceType, PrivType
  <2> QED
    BY <2>1, <2>2, <2>3, <2>4
<1>3. CASE UNCHANGED <<src, fb, frames>>
  BY <1>1, <1>3
<1>4. CASE ~UNCHANGED <<src, fb, frames>>
  <2>1. BufQueue(c, mapped, early)
    BY <1>1, <1>4
  <2>2. /\ ~Rejects(s, fb, file[c].size, mapped)
        /\ src' = [src EXCEPT ![c] = CountFrame(s)]
        /\ fb' = DrawFb(s, fb) /\ r \in FrameType
        /\ frames' = [frames EXCEPT ![c] = Append(frames[c], r)]
    BY <1>1, <1>4, <2>1, BufQueueCases
  <2>3. /\ s.id # "FIXTURE" => s.priv.on
        /\ s.id = "VCAM" => /\ s.priv.fb \in Fbs
                            /\ file[c].size <= fb[s.priv.fb].size
    BY <1>1, <1>2, <2>2, Accepted
  <2>4. early \/ file[c].size <= file[c].out
    BY <1>1, ShapeAt DEF BufPrepare, FileType
  <2>5. s.id = "VCAM" => fb[s.priv.fb].refs > 0 /\ Streams(s.priv.fb) = {c}
    BY <2>3, StreamHolds
  <2>6. CASE s.id = "VCAM" /\ Draws(s)
    <3> DEFINE n == s.priv.offset + 1
    <3>1. fb' = [fb EXCEPT ![s.priv.fb].shown = n]
      BY <1>2, <2>2, <2>3, <2>5, <2>6, DrawFbType
    <3>2. n \in Nat
      BY <1>2
    <3> HIDE DEF n
    <3>3. /\ \A f \in Fbs : fb'[f].refs = fb[f].refs /\ fb'[f].bad = fb[f].bad
          /\ \A f \in Fbs \ {s.priv.fb} : fb'[f] = fb[f]
          /\ fb'[s.priv.fb].shown = n
      BY <1>2, <2>3, <2>6, <3>1, <3>2 DEF FbType
    <3> HIDE DEF r
    <3>4. r = FrameOf(s, fb, file[c].size, file[c].out, early)
      BY DEF r
    <3> QED
      BY <1>1, <1>2, <2>2, <2>3, <2>4, <2>5, <2>6, <3>3, <3>4 DEF n
  <2>7. CASE ~(s.id = "VCAM" /\ Draws(s))
    <3>1. fb' = fb
      BY <1>2, <2>2, <2>3, <2>7, DrawFbType
    <3>2. r = FrameOf(s, fb, file[c].size, file[c].out, early)
      OBVIOUS
    <3> HIDE DEF r
    <3> QED
      BY <1>1, <1>2, <2>2, <2>3, <2>4, <2>7, <3>1, <3>2
  <2> QED
    BY <2>6, <2>7
<1> QED
  BY <1>3, <1>4

LEMMA QBufCounts ==
  ASSUME Shape, Shape', Counts, NEW c \in Ctxs, QBuf(c)
  PROVE  Counts'
<1>1. /\ UNCHANGED <<starts, dbufVars, exp>>
      /\ \A d \in Ctxs \ {c} : src'[d] = src[d]
      /\ \A f \in Fbs : fb'[f].refs = fb[f].refs /\ fb'[f].bad = fb[f].bad
      /\ \A f \in Fbs : fb'[f] = fb[f] \/ Streams(f) = {c}
      /\ src'[c] = src[c] \/ src'[c] = CountFrame(src[c])
  BY QBufEffect
<1>2. /\ src'[c].priv.on = src[c].priv.on /\ src'[c].priv.fb = src[c].priv.fb
      /\ src'[c].id = src[c].id
  BY <1>1, ShapeAt, CountFrameType
<1>3. \A f \in Fbs : f > starts => fb'[f] = fb[f]
  <2> SUFFICES ASSUME NEW f \in Fbs, f > starts, Streams(f) = {c}
               PROVE  FALSE
    BY <1>1
  <2>1. c \in Streams(f)
    OBVIOUS
  <2>2. src[c].id = "VCAM" /\ src[c].priv.on /\ src[c].priv.fb = f
    BY <2>1, HolderSets DEF Streams
  <2>3. f <= starts /\ f \in Nat /\ starts \in Nat
    BY <2>2, StreamHolds, ShapeAt DEF Fbs
  <2> QED
    BY <2>3
<1>4. \A d \in Dbufs : (Live(d)' <=> Live(d)) /\ dbuf'[d].fb = dbuf[d].fb
  BY <1>1 DEF Live, dbufVars
<1> QED
  BY <1>1, <1>2, <1>3, <1>4, SameCounts

LEMMA DmabufMapCounts ==
  ASSUME Shape, Shape', Counts, NEW d \in Dbufs, DmabufMap(d)
  PROVE  Counts' /\ fb' = fb
<1>1. Live(d)
  BY DEF DmabufMap, Live
<1>2. dbuf[d].fb \in Fbs /\ d \in Exported(dbuf[d].fb)
  BY <1>1, LiveAt DEF Exported
<1>3. fb[dbuf[d].fb].refs > 0
  BY <1>2, HolderKeeps
<1>4. fb' = fb
  BY <1>1, <1>2, <1>3, LiveAt, TouchType DEF DmabufMap
<1>5. /\ dbuf' = [dbuf EXCEPT ![d].maps = dbuf[d].maps + 1] /\ dbuf[d].fd
      /\ UNCHANGED <<src, starts, exp>>
  BY DEF DmabufMap
<1>6. /\ dbuf'[d].fd /\ dbuf'[d].fb = dbuf[d].fb
      /\ \A e \in Dbufs \ {d} : dbuf'[e] = dbuf[e]
  BY <1>1, <1>5, LiveAt DEF DbufType
<1>7. \A e \in Dbufs : (Live(e)' <=> Live(e)) /\ dbuf'[e].fb = dbuf[e].fb
  BY <1>1, <1>6 DEF Live
<1> QED
  BY <1>4, <1>5, <1>7, SameCounts

(* The export takes a reference of its own, *)
LEMMA ExportGetCounts ==
  ASSUME Shape, Shape', Counts, NEW c \in Ctxs, ExportGet(c)
  PROVE  Counts'
<1>1. PICK f : f = src[c].priv.fb
  OBVIOUS
<1>2. /\ ~exp.on /\ src[c].id = "VCAM" /\ src[c].priv.on
      /\ exp' = [on |-> TRUE, ctx |-> c, fb |-> f] /\ fb' = KrefGet(fb, f)
      /\ UNCHANGED <<registered, file, src, starts, dbufVars, frames>>
  BY <1>1 DEF ExportGet, DevLock
<1>3. f \in Fbs /\ f <= starts /\ fb[f].refs > 0 /\ starts \in Nat
  BY <1>1, <1>2, StreamHolds, ShapeAt
<1>4. fb \in [Fbs -> FbType]
  BY ShapeAt
<1>5. /\ \A g \in Fbs \ {f} : fb'[g] = fb[g]
      /\ fb'[f].refs = fb[f].refs + 1 /\ fb'[f].bad = fb[f].bad
  BY <1>2, <1>3, <1>4, KrefGetType
<1>6. \A g : Streams(g)' = Streams(g) /\ Exported(g)' = Exported(g)
  BY <1>2 DEF Streams, Exported, Live, dbufVars
<1>7. /\ Exporting(f) = 0 /\ Exporting(f)' = 1
      /\ \A g \in Fbs \ {f} : Exporting(g) = 0 /\ Exporting(g)' = 0
  BY <1>2 DEF Exporting
<1>8. ASSUME NEW g \in Fbs
      PROVE  fb'[g].refs = Cardinality(Streams(g)') + Cardinality(Exported(g)')
                           + Exporting(g)'
  <2>1. /\ Cardinality(Streams(g)') = Cardinality(Streams(g))
        /\ Cardinality(Exported(g)') = Cardinality(Exported(g))
    BY <1>6
  <2>2. CASE g = f
    BY <1>5, <1>7, <2>1, <2>2, HolderKeeps, HolderSets
  <2>3. CASE g # f
    BY <1>5, <1>7, <2>1, <2>3, HolderKeeps, HolderSets
  <2> QED
    BY <2>2, <2>3
<1>9. RefsCounted'
  BY <1>8 DEF RefsCounted, Exporting
<1>10. \A g \in Fbs : ~fb'[g].bad
  BY <1>5 DEF Counts
<1>11. \A g \in Fbs : g > starts => fb'[g] = NoFb
  BY <1>3, <1>5 DEF Counts, Fbs
<1> QED
  BY <1>2, <1>9, <1>10, <1>11 DEF Counts

(* hands it to the DMA-BUF, *)
LEMMA ExportFdCounts ==
  ASSUME Shape, Shape', Counts, ExportFd
  PROVE  Counts'
<1>1. PICK n, f : n = exports + 1 /\ f = exp.fb
  OBVIOUS
<1>2. /\ exp.on /\ exports < MaxExports
      /\ dbuf' = [dbuf EXCEPT ![n] = [NoDbuf EXCEPT !.fb = f, !.fd = TRUE]]
      /\ exp' = Idle /\ UNCHANGED <<registered, file, src, fb, starts, frames>>
  BY <1>1 DEF ExportFd, fbVars
<1>3. /\ dbuf \in [Dbufs -> DbufType] /\ exports \in Nat /\ n \in Dbufs
      /\ n > exports /\ f \in Fbs
  BY <1>1, <1>2, SMTT(30) DEF Shape, Types, DbufType, Dbufs, Handles, Fbs
<1>4. ~Live(n)
  BY <1>3 DEF Shape, Handles, Dbufs
<1>5. /\ dbuf'[n].fb = f /\ dbuf'[n].fd
      /\ \A e \in Dbufs \ {n} : dbuf'[e] = dbuf[e]
  BY <1>2, <1>3 DEF NoDbuf
<1>6. /\ Exported(f)' = Exported(f) \cup {n} /\ n \notin Exported(f)
      /\ \A g \in Fbs \ {f} : Exported(g)' = Exported(g)
      /\ \A g : Streams(g)' = Streams(g)
  BY <1>2, <1>3, <1>4, <1>5 DEF Exported, Streams, Live
<1>7. /\ Exporting(f) = 1 /\ Exporting(f)' = 0
      /\ \A g \in Fbs \ {f} : Exporting(g) = 0 /\ Exporting(g)' = 0
  BY <1>1, <1>2 DEF Exporting, Idle
<1>8. ASSUME NEW g \in Fbs
      PROVE  fb'[g].refs = Cardinality(Streams(g)') + Cardinality(Exported(g)')
                           + Exporting(g)'
  <2>1. Cardinality(Streams(g)') = Cardinality(Streams(g)) /\ fb'[g] = fb[g]
    BY <1>2, <1>6
  <2>2. CASE g = f
    <3>1. Cardinality(Exported(g)') = Cardinality(Exported(g)) + 1
      BY <1>6, <2>2, HolderSets, FS_AddElement
    <3>2. Exporting(g) = 1 /\ Exporting(g)' = 0
      BY <1>7, <2>2
    <3> QED
      BY <2>1, <3>1, <3>2, HolderKeeps, HolderSets
  <2>3. CASE g # f
    <3>1. Cardinality(Exported(g)') = Cardinality(Exported(g))
      BY <1>6, <2>3
    <3>2. Exporting(g) = 0 /\ Exporting(g)' = 0
      BY <1>7, <2>3
    <3> QED
      BY <2>1, <3>1, <3>2, HolderKeeps, HolderSets
  <2> QED
    BY <2>2, <2>3
<1>9. RefsCounted'
  BY <1>8 DEF RefsCounted, Exporting
<1> QED
  BY <1>2, <1>9 DEF Counts
(* A user of framebuffer f other than its stream drops its reference. *)
LEMMA PutCounts ==
  ASSUME Shape, Shape', Counts, NEW f \in Fbs, fb[f].refs > 0,
         fb' = KrefPut(fb, f), UNCHANGED <<src, starts>>,
         \/ /\ \A g \in Fbs : Exported(g)' = Exported(g)
            /\ Exporting(f) = 1 /\ Exporting(f)' = 0
         \/ /\ \E d \in Exported(f) : Exported(f)' = Exported(f) \ {d}
            /\ \A g \in Fbs \ {f} : Exported(g)' = Exported(g)
            /\ Exporting(f)' = Exporting(f),
         \A g \in Fbs \ {f} : Exporting(g)' = Exporting(g)
  PROVE  Counts'
<1>1. fb \in [Fbs -> FbType] /\ starts \in Nat
  BY DEF Shape, Types
<1>2. /\ \A g \in Fbs \ {f} : fb'[g] = fb[g]
      /\ fb'[f].refs = fb[f].refs - 1 /\ fb'[f].bad = fb[f].bad
  BY <1>1, KrefPutType
<1>3. \A g : Streams(g)' = Streams(g)
  BY DEF Streams
<1>4. ASSUME NEW g \in Fbs
      PROVE  fb'[g].refs = Cardinality(Streams(g)') + Cardinality(Exported(g)')
                           + Exporting(g)'
  <2>1. Cardinality(Streams(g)') = Cardinality(Streams(g))
    BY <1>3
  <2>2. /\ Cardinality(Streams(g)) \in Nat /\ Cardinality(Exported(g)) \in Nat
        /\ fb[g].refs = Cardinality(Streams(g)) + Cardinality(Exported(g))
                        + Exporting(g)
        /\ Exporting(g) \in {0, 1}
    BY HolderKeeps, HolderSets
  <2>3. CASE g # f
    <3>1. Cardinality(Exported(g)') = Cardinality(Exported(g)) /\ Exporting(g)' = Exporting(g)
      BY <2>3
    <3> QED
      BY <1>2, <2>1, <2>2, <2>3, <3>1
  <2>4. CASE g = f /\ Exported(f)' = Exported(f) /\ Exporting(f) = 1
             /\ Exporting(f)' = 0
    <3>1. Cardinality(Exported(g)') = Cardinality(Exported(g))
      BY <2>4
    <3> QED
      BY <1>2, <2>1, <2>2, <2>4, <3>1
  <2>5. CASE g = f /\ \E d \in Exported(f) : Exported(f)' = Exported(f) \ {d}
             /\ Exporting(f)' = Exporting(f)
    <3>1. PICK d \in Exported(f) : Exported(f)' = Exported(f) \ {d}
      BY <2>5
    <3>2. Cardinality(Exported(f) \ {d}) = Cardinality(Exported(f)) - 1
      BY <3>1, HolderSets, FS_RemoveElement
    <3>3. Cardinality(Exported(g)') = Cardinality(Exported(g)) - 1
      BY <2>5, <3>1, <3>2
    <3> QED
      BY <1>2, <2>1, <2>2, <2>5, <3>3
  <2> QED
    BY <2>3, <2>4, <2>5
<1>5. RefsCounted'
  BY <1>4 DEF RefsCounted, Exporting
<1>6. \A g \in Fbs : ~fb'[g].bad
  BY <1>2 DEF Counts
<1>7. \A g \in Fbs : g > starts => fb'[g] = NoFb
  <2>1. fb[f] # NoFb
    BY DEF NoFb
  <2> QED
    BY <1>2, <2>1 DEF Counts
<1> QED
  BY <1>5, <1>6, <1>7 DEF Counts

(* gives it back when the export fails, *)
LEMMA ExportFailsCounts ==
  ASSUME Shape, Shape', Counts, ExportFails
  PROVE  Counts'
<1>1. PICK f : f = exp.fb
  OBVIOUS
<1>2. /\ exp.on /\ fb' = KrefPut(fb, f) /\ exp' = Idle
      /\ UNCHANGED <<src, starts, dbufVars>>
  BY <1>1 DEF ExportFails
<1>3. f \in Fbs
  BY <1>1, <1>2 DEF Shape, Types, Handles, Fbs
<1>4. /\ Exporting(f) = 1 /\ Exporting(f)' = 0
      /\ \A g \in Fbs \ {f} : Exporting(g)' = Exporting(g)
  BY <1>1, <1>2 DEF Exporting, Idle
<1>5. \A g \in Fbs : Exported(g)' = Exported(g)
  BY <1>2 DEF Exported, Live, dbufVars
<1>6. fb[f].refs > 0
  BY <1>3, <1>4, HolderKeeps
<1> QED
  BY <1>2, <1>3, <1>4, <1>5, <1>6, PutCounts

(* and the last user of the DMA-BUF gives it back otherwise. *)
LEMMA LeaveCounts ==
  ASSUME Shape, Shape', Counts, NEW d \in Dbufs, Live(d), NEW D \in DbufType,
         D.fb = dbuf[d].fb, LeaveDmabuf(d, D)
  PROVE  Counts'
<1>1. PICK f : f = dbuf[d].fb
  OBVIOUS
<1>2. /\ dbuf \in [Dbufs -> DbufType] /\ f \in Fbs /\ d \in Exported(f)
  BY <1>1, LiveAt DEF Exported
<1>3. UNCHANGED <<src, starts, exp>>
  BY DEF LeaveDmabuf
<1>4. CASE D.fd \/ D.maps > 0
  <2>1. dbuf' = [dbuf EXCEPT ![d] = D] /\ fb' = fb
    BY <1>4 DEF LeaveDmabuf
  <2>2. dbuf'[d] = D /\ \A e \in Dbufs \ {d} : dbuf'[e] = dbuf[e]
    BY <1>2, <2>1
  <2>3. \A e \in Dbufs : (Live(e)' <=> Live(e)) /\ dbuf'[e].fb = dbuf[e].fb
    BY <1>4, <2>2 DEF Live
  <2> QED
    BY <1>3, <2>1, <2>3, SameCounts
<1>5. CASE ~(D.fd \/ D.maps > 0)
  <2>1. dbuf' = [dbuf EXCEPT ![d] = NoDbuf] /\ fb' = KrefPut(fb, f)
    BY <1>1, <1>5 DEF LeaveDmabuf
  <2>2. dbuf'[d] = NoDbuf /\ \A e \in Dbufs \ {d} : dbuf'[e] = dbuf[e]
    BY <1>2, <2>1
  <2>3. ~Live(d)'
    BY <2>2 DEF Live, NoDbuf
  <2>4. \A e \in Dbufs \ {d} : (Live(e)' <=> Live(e)) /\ dbuf'[e].fb = dbuf[e].fb
    BY <2>2 DEF Live
  <2>5. \A g : Exported(g)' = Exported(g) \ {d}
    BY <2>3, <2>4 DEF Exported
  <2>6. \A g \in Fbs \ {f} : Exported(g)' = Exported(g)
    BY <1>1, <2>5 DEF Exported
  <2>7. \A g : Exporting(g)' = Exporting(g)
    BY <1>3 DEF Exporting
  <2>8. fb[f].refs > 0
    BY <1>2, HolderKeeps
  <2> QED
    BY <1>2, <1>3, <2>1, <2>5, <2>6, <2>7, <2>8, PutCounts
<1> QED
  BY <1>4, <1>5

(* Steps that end no stream and begin none leave the framebuffers alone. *)
LEMMA QuietCounts ==
  ASSUME Shape, Shape', Counts, UNCHANGED <<fbVars, dbufVars, exp>>,
         \A c \in Ctxs : \/ src'[c] = src[c]
                         \/ /\ src'[c].priv = NoPriv /\ src[c].priv = NoPriv
  PROVE  Counts'
<1>1. \A c \in Ctxs : /\ src'[c].priv.on = src[c].priv.on
                      /\ src'[c].priv.fb = src[c].priv.fb
                      /\ src[c].priv.on => src'[c].id = src[c].id
  BY DEF NoPriv
<1>2. \A d \in Dbufs : (Live(d)' <=> Live(d)) /\ dbuf'[d].fb = dbuf[d].fb
  BY DEF Live, dbufVars
<1> QED
  BY <1>1, <1>2, SameCounts DEF fbVars

LEMMA OpenCloseCounts ==
  ASSUME Shape, Shape', Counts, NEW c \in Ctxs, Open(c) \/ ReleaseQueues(c)
  PROVE  Counts'
<1>1. /\ src[c] \in SourceType /\ Sourced(file[c], src[c], starts)
      /\ src \in [Ctxs -> SourceType]
  BY ShapeAt DEF Shape, Types
<1>2. file[c].state # "open" /\ UNCHANGED <<fbVars, dbufVars, exp>>
  BY DEF Open, ReleaseQueues
<1>3. src[c].priv = NoPriv
  BY <1>1, <1>2 DEF Sourced
<1>4. PICK s : s.priv = NoPriv /\ src' = [src EXCEPT ![c] = s]
  <2>1. CASE Open(c)
    BY <2>1 DEF Open, NewSource
  <2>2. CASE ReleaseQueues(c)
    BY <1>1, <1>3, <2>2, StopSourceType DEF ReleaseQueues
  <2> QED
    BY <2>1, <2>2
<1>5. src'[c].priv = NoPriv /\ \A d \in Ctxs \ {c} : src'[d] = src[d]
  BY <1>1, <1>4
<1> QED
  BY <1>2, <1>3, <1>5, QuietCounts

(* Closing a file, a switch of backend and STREAMOFF end a stream, or stop *)
(* a source that does not stream.                                          *)
LEMMA EndCounts ==
  ASSUME Shape, Shape', Counts, NEW c \in Ctxs,
         \/ ReleaseSource(c)
         \/ \E b \in Backends : SetBackend(c, b)
         \/ \E t \in Queues : StreamOff(c, t)
  PROVE  Counts'
<1>1. src[c] \in SourceType
  BY ShapeAt
<1>2. CASE ReleaseSource(c)
  <2>1. /\ Freed(StopSource(src[c])) \in SourceType
        /\ Freed(StopSource(src[c])).priv = NoPriv
    BY <1>1, StopSourceType
  <2> QED
    BY <1>2, <2>1, StopCounts DEF ReleaseSource
<1>3. ASSUME NEW b \in Backends, SetBackend(c, b) PROVE Counts'
  <2>1. NewSource(b) \in SourceType /\ NewSource(b).priv = NoPriv
    BY NewTypes DEF NewSource
  <2> QED
    BY <1>3, <2>1, StopCounts DEF SetBackend
<1>4. ASSUME NEW t \in Queues, StreamOff(c, t) PROVE Counts'
  <2>1. CASE StopsSource(c, t)
    <3>1. StopSource(src[c]) \in SourceType /\ StopSource(src[c]).priv = NoPriv
      BY <1>1, StopSourceType
    <3> QED
      BY <1>4, <2>1, <3>1, StopCounts DEF StreamOff
  <2>2. CASE ~StopsSource(c, t)
    BY <1>4, <2>2, QuietCounts DEF StreamOff, fbVars
  <2> QED
    BY <2>1, <2>2
<1> QED
  BY <1>2, <1>3, <1>4

(* Every step keeps the counts. *)
LEMMA NextCounts == Shape /\ Shape' /\ Counts /\ [Next]_vars => Counts'
<1> SUFFICES ASSUME Shape, Shape', Counts, [Next]_vars PROVE Counts'
  OBVIOUS
<1>1. CASE UNCHANGED vars
  BY <1>1, QuietCounts DEF vars, fbVars, dbufVars
<1>2. ASSUME NEW b \in Backends, Register(b) PROVE Counts'
  BY <1>2, QuietCounts DEF Register
<1>3. ASSUME NEW c \in Ctxs,
             \/ PrepareBuf(c) \/ StreamOnCap(c)
             \/ \E t \in Queues : \/ \E s \in Sizes : SFmt(c, t, s)
                                  \/ \E b \in BOOLEAN : ReqBufs(c, t, b)
      PROVE  Counts'
  BY <1>3, QuietCounts DEF PrepareBuf, StreamOnCap, SFmt, ReqBufs
<1>4. ASSUME NEW c \in Ctxs, StreamOnFails(c) PROVE Counts'
  BY <1>1, <1>4, StreamOnFailsShape
<1>5. ASSUME NEW d \in Dbufs, DmabufUnmap(d) \/ DmabufClose(d) PROVE Counts'
  BY <1>5, LeaveType, LeaveCounts
<1> QED
  BY <1>1, <1>2, <1>3, <1>4, <1>5, OpenCloseCounts, EndCounts, QBufCounts,
     StartCounts, ExportGetCounts, ExportFdCounts, ExportFailsCounts,
     DmabufMapCounts DEF Next

(* The counts hold together in every state: no two streams share a         *)
(* framebuffer, and none was used after it was freed (vcam_start, kref_get *)
(* and kref_put).                                                          *)
THEOREM CountsHold == Spec => []Counts
<1>1. Init => Counts
  BY InitCounts
<1>2. Shape /\ Shape' /\ Counts /\ [Next]_vars => Counts'
  BY NextCounts
<1> QED
  BY <1>1, <1>2, ShapeHolds, PTL DEF Spec

(* A framebuffer's count is the number of its holders: its stream, its     *)
(* live DMA-BUFs and an export under way.  It is freed with the last of    *)
(* them (vcam_stop, vcam_dmabuf_release, vcam_export_dmabuf).              *)
THEOREM RefsCountedHolds == Spec => []RefsCounted
<1>1. Counts => RefsCounted
  BY DEF Counts
<1> QED
  BY <1>1, CountsHold, PTL

(* Nobody ever uses a freed framebuffer, in whatever order streams, files, *)
(* exports and importers come and go, a file closed while it streams       *)
(* included (vcam_stop, vcam_export_dmabuf, vcam_dmabuf_release).          *)
THEOREM NoFbUseAfterFreeHolds == Spec => []NoFbUseAfterFree
<1>1. Shape /\ Counts => NoFbUseAfterFree
  <2> SUFFICES ASSUME Shape, Counts PROVE NoFbUseAfterFree
    OBVIOUS
  <2>1. \A f \in Fbs : ~fb[f].bad
    BY DEF Counts
  <2>2. ASSUME NEW d \in Dbufs, Live(d) PROVE fb[dbuf[d].fb].refs > 0
    <3>1. dbuf[d].fb \in Fbs /\ d \in Exported(dbuf[d].fb)
      BY <2>2, LiveAt DEF Exported
    <3> QED
      BY <3>1, HolderKeeps
  <2> QED
    BY <2>1, <2>2 DEF NoFbUseAfterFree
<1> QED
  BY <1>1, ShapeHolds, CountsHold, PTL

-----------------------------------------------------------------------------
(* The frames of a stream. *)

(* What a step does to the stream of context c: it stays as it is, *)
Kept(c) ==
  /\ frames'[c] = frames[c] /\ src'[c].priv = src[c].priv
  /\ src[c].priv.on => src'[c].id = src[c].id

(* it ends, *)
Ended(c) == frames'[c] = << >> /\ src'[c].priv = NoPriv

(* or it begins. *)
Begun(c) ==
  /\ frames'[c] = << >> /\ src'[c].id = src[c].id
  /\ \E n \in DropRates :
       src'[c].priv = FreshPriv(IF src[c].id = "VCAM" THEN starts + 1 ELSE 0, n)
  /\ src[c].id = "VCAM" => starts + 1 \in Fbs /\ fb'[starts + 1].shown = 0

LEMMA BeginStep ==
  ASSUME Shape, Counts, NEW c \in Ctxs, NEW n \in DropRates, StreamOnOut(c, n)
  PROVE  /\ Ended(c) \/ Begun(c)
         /\ \A d \in Ctxs \ {c} : Kept(d)
<1>1. /\ src \in [Ctxs -> SourceType] /\ fb \in [Fbs -> FbType]
      /\ frames \in [Ctxs -> Seq(FrameType)] /\ starts \in Nat
      /\ Sourced(file[c], src[c], starts)
  BY DEF Shape, Types
<1>2. PICK f : f = starts + 1
  OBVIOUS
<1> DEFINE id == src[c].id
           p == FreshPriv(IF id = "VCAM" THEN f ELSE 0, n)
           s == IF id = "FIXTURE" THEN src[c] ELSE [src[c] EXCEPT !.priv = p]
<1>3. /\ ~src[c].priv.on /\ src' = [src EXCEPT ![c] = s]
      /\ id = "VCAM" =>
           /\ f \in Fbs
           /\ fb' = [fb EXCEPT ![f].refs = fb[f].refs + 1,
                               ![f].size = PageAlign(file[c].size)]
  BY <1>2, StreamOnOutEffect
<1>4. frames' = [frames EXCEPT ![c] = << >>]
  BY DEF StreamOnOut
<1>5. /\ frames'[c] = << >> /\ src'[c] = s
      /\ \A d \in Ctxs \ {c} : frames'[d] = frames[d] /\ src'[d] = src[d]
  BY <1>1, <1>3, <1>4
<1>6. \A d \in Ctxs \ {c} : Kept(d)
  BY <1>5 DEF Kept
<1>7. CASE id = "FIXTURE"
  BY <1>1, <1>3, <1>5, <1>6, <1>7 DEF Ended, Sourced
<1>8. CASE id # "FIXTURE"
  <2>1. s.priv = p /\ s.id = id
    BY <1>1, <1>8 DEF SourceType
  <2>2. id = "VCAM" => fb[f].shown = 0
    BY <1>1, <1>2, <1>3 DEF Counts, NoFb
  <2>3. id = "VCAM" => fb'[f].shown = 0
    BY <1>1, <1>3, <2>2 DEF FbType
  <2>4. /\ frames'[c] = << >> /\ src'[c].id = id
        /\ src'[c].priv = FreshPriv(IF id = "VCAM" THEN starts + 1 ELSE 0, n)
    BY <1>2, <1>5, <2>1
  <2>5. id = "VCAM" => starts + 1 \in Fbs /\ fb'[starts + 1].shown = 0
    BY <1>2, <1>3, <2>3
  <2> HIDE DEF s, p
  <2>6. Begun(c)
    BY <2>4, <2>5 DEF Begun
  <2> QED
    BY <1>6, <2>6
<1> QED
  BY <1>7, <1>8

LEMMA EndStep ==
  ASSUME Shape, NEW c \in Ctxs,
         \/ ReleaseSource(c)
         \/ \E b \in Backends : SetBackend(c, b)
         \/ \E t \in Queues : StreamOff(c, t)
  PROVE  /\ Kept(c) \/ Ended(c)
         /\ \A d \in Ctxs \ {c} : Kept(d)
<1>1. /\ src \in [Ctxs -> SourceType] /\ frames \in [Ctxs -> Seq(FrameType)]
      /\ src[c] \in SourceType
  BY DEF Shape, Types
<1>2. ASSUME NEW s, s.priv = NoPriv, src' = [src EXCEPT ![c] = s],
             frames' = [frames EXCEPT ![c] = << >>]
      PROVE  Ended(c) /\ \A d \in Ctxs \ {c} : Kept(d)
  BY <1>1, <1>2 DEF Ended, Kept
<1>3. CASE ReleaseSource(c)
  BY <1>1, <1>2, <1>3, StopSourceType DEF ReleaseSource
<1>4. ASSUME NEW b \in Backends, SetBackend(c, b)
      PROVE  Ended(c) /\ \A d \in Ctxs \ {c} : Kept(d)
  <2>1. NewSource(b).priv = NoPriv
    BY DEF NewSource
  <2> QED
    BY <1>2, <1>4, <2>1 DEF SetBackend
<1>5. ASSUME NEW t \in Queues, StreamOff(c, t)
      PROVE  (Kept(c) \/ Ended(c)) /\ \A d \in Ctxs \ {c} : Kept(d)
  <2>1. CASE StopsSource(c, t)
    BY <1>1, <1>2, <1>5, <2>1, StopSourceType DEF StreamOff
  <2>2. CASE ~StopsSource(c, t)
    BY <1>5, <2>2 DEF StreamOff, Kept
  <2> QED
    BY <2>1, <2>2
<1> QED
  BY <1>3, <1>4, <1>5

LEMMA OpenCloseStep ==
  ASSUME Shape, NEW c \in Ctxs, Open(c) \/ ReleaseQueues(c)
  PROVE  \A d \in Ctxs : Kept(d)
<1>1. /\ src[c] \in SourceType /\ Sourced(file[c], src[c], starts)
      /\ src \in [Ctxs -> SourceType]
  BY ShapeAt DEF Shape, Types
<1>2. file[c].state # "open" /\ UNCHANGED frames
  BY DEF Open, ReleaseQueues
<1>3. src[c].priv = NoPriv /\ ~src[c].priv.on
  BY <1>1, <1>2 DEF Sourced
<1>4. PICK s : s.priv = NoPriv /\ src' = [src EXCEPT ![c] = s]
  <2>1. CASE Open(c)
    BY <2>1 DEF Open, NewSource
  <2>2. CASE ReleaseQueues(c)
    BY <1>1, <1>3, <2>2, StopSourceType DEF ReleaseQueues
  <2> QED
    BY <2>1, <2>2
<1>5. src'[c].priv = NoPriv /\ \A d \in Ctxs \ {c} : src'[d] = src[d]
  BY <1>1, <1>4
<1> QED
  BY <1>2, <1>3, <1>5 DEF Kept

(* Every step keeps, ends or begins a stream, or asks it for a frame. *)
LEMMA StreamStep ==
  ASSUME Shape, Counts, [Next]_vars, NEW c \in Ctxs
  PROVE  Kept(c) \/ Ended(c) \/ Begun(c) \/ QBuf(c)
<1>1. CASE UNCHANGED <<src, frames>>
  BY <1>1 DEF Kept
<1>2. ASSUME NEW d \in Ctxs, QBuf(d), d # c PROVE Kept(c)
  BY <1>2, QBufEffect DEF Kept
<1>3. ASSUME NEW d \in Ctxs, StreamOnFails(d) PROVE UNCHANGED <<src, frames>>
  BY <1>3, StreamOnFailsShape DEF vars
<1>4. CASE UNCHANGED vars
  BY <1>1, <1>4 DEF vars
<1>5. ASSUME NEW d \in Ctxs,
             \/ PrepareBuf(d) \/ StreamOnCap(d) \/ ExportGet(d)
             \/ \E t \in Queues : \/ \E s \in Sizes : SFmt(d, t, s)
                                  \/ \E b \in BOOLEAN : ReqBufs(d, t, b)
      PROVE  UNCHANGED <<src, frames>>
  BY <1>5 DEF PrepareBuf, StreamOnCap, ExportGet, SFmt, ReqBufs
<1>6. ASSUME \/ \E b \in Backends : Register(b)
             \/ ExportFd \/ ExportFails
             \/ \E d \in Dbufs : DmabufMap(d) \/ DmabufUnmap(d) \/ DmabufClose(d)
      PROVE  UNCHANGED <<src, frames>>
  BY <1>6 DEF Register, ExportFd, ExportFails, DmabufMap, DmabufUnmap,
              DmabufClose, LeaveDmabuf
<1> QED
  BY <1>1, <1>2, <1>3, <1>4, <1>5, <1>6, OpenCloseStep, EndStep, BeginStep
     DEF Next

LEMMA FileSizes ==
  ASSUME Shape, NEW c \in Ctxs
  PROVE  file[c].size \in Nat /\ file[c].out \in Nat
  BY ShapeAt DEF FileType

(* Fits of one frame, and of every frame of a stream. *)
Fits(r) == r.onSurface /\ (r.early \/ r.inPlane)
FramesOfStream(c) == \A k \in DOMAIN frames[c] : Fits(frames[c][k])

(* A frame fits on the surface, and into the buffer unless that was        *)
(* prepared early.                                                         *)
LEMMA FrameFits ==
  ASSUME Shape, NEW c \in Ctxs, NEW early \in BOOLEAN,
         early \/ file[c].size <= file[c].out,
         src[c].id = "VCAM" => file[c].size <= fb[src[c].priv.fb].size
  PROVE  Fits(FrameOf(src[c], fb, file[c].size, file[c].out, early))
<1>1. file[c].size \in Nat /\ file[c].out \in Nat
  BY FileSizes
<1>2. file[c].size <= file[c].out \/ (early /\ file[c].out < file[c].size)
  BY <1>1
<1> QED
  BY <1>2 DEF FrameOf, Fits

LEMMA FitStep ==
  ASSUME Shape, Counts, [Next]_vars, NEW c \in Ctxs, FramesOfStream(c)
  PROVE  FramesOfStream(c)'
<1>1. CASE frames'[c] = frames[c]
  BY <1>1 DEF FramesOfStream
<1>2. CASE frames'[c] = << >>
  BY <1>2 DEF FramesOfStream
<1>3. CASE QBuf(c) /\ frames'[c] # frames[c]
  <2>1. PICK early \in BOOLEAN, r \in FrameType :
        /\ r = FrameOf(src[c], fb, file[c].size, file[c].out, early)
        /\ src[c].id = "VCAM" => file[c].size <= fb[src[c].priv.fb].size
        /\ early \/ file[c].size <= file[c].out
        /\ frames'[c] = Append(frames[c], r)
    BY <1>3, QBufEffect
  <2>2. Fits(r)
    BY <2>1, FrameFits
  <2>3. PICK h \in Seq(FrameType) : h = frames[c]
    BY ShapeAt
  <2>4. \A k \in DOMAIN Append(h, r) : Append(h, r)[k] = r \/
          (k \in DOMAIN h /\ Append(h, r)[k] = h[k])
    OBVIOUS
  <2>5. \A k \in DOMAIN Append(h, r) : Fits(Append(h, r)[k])
    BY <2>2, <2>3, <2>4 DEF FramesOfStream
  <2> QED
    BY <2>1, <2>3, <2>5 DEF FramesOfStream
<1> QED
  BY <1>1, <1>2, <1>3, StreamStep DEF Kept, Ended, Begun

(* A frame is drawn within its surface and, unless PREPARE_BUF prepared    *)
(* the buffer for an earlier size, within its buffer, although S_FMT on    *)
(* CAPTURE changes the size of a streaming OUTPUT (vpipe_s_fmt,            *)
(* vpipe_buf_prepare, vcam_next_frame).                                    *)
THEOREM PreparedFramesFitHolds == Spec => []PreparedFramesFit
<1>1. Init => PreparedFramesFit
  BY DEF Init, PreparedFramesFit
<1>2. Shape /\ Counts /\ PreparedFramesFit /\ [Next]_vars => PreparedFramesFit'
  BY FitStep DEF PreparedFramesFit, FramesOfStream, Fits
<1> QED
  BY <1>1, <1>2, ShapeHolds, CountsHold, PTL DEF Spec

(* The j-th frame of a stream of backend id, which drops one frame of n,   *)
(* is a dropped one.                                                       *)
DropAt(id, n, j) ==
  /\ n # 0
  /\ \/ id = "SYNTHETIC" /\ j % n = 0
     \/ id = "VCAM" /\ (j - 1) % n = 0

(* The source counts its frames, and that decides which ones are dropped. *)
Cadence(c) ==
  src[c].priv.on =>
    /\ src[c].priv.produced = Len(frames[c])
    /\ \A j \in DOMAIN frames[c] :
         frames[c][j].dropped <=> DropAt(src[c].id, src[c].priv.drop, j)

LEMMA CadenceStep ==
  ASSUME Shape, Counts, [Next]_vars, NEW c \in Ctxs, Cadence(c)
  PROVE  Cadence(c)'
<1>1. CASE Kept(c)
  BY <1>1 DEF Kept, Cadence
<1>2. CASE Ended(c)
  BY <1>2 DEF Ended, Cadence, NoPriv
<1>3. CASE Begun(c)
  <2>1. src'[c].priv.produced = 0 /\ frames'[c] = << >>
    BY <1>3 DEF Begun, FreshPriv, NoPriv
  <2> QED
    BY <2>1 DEF Cadence
<1>4. CASE QBuf(c) /\ ~(src'[c] = src[c] /\ frames'[c] = frames[c])
  <2>0. PICK early \in BOOLEAN, q \in FrameType :
          /\ q = FrameOf(src[c], fb, file[c].size, file[c].out, early)
          /\ src[c].id # "FIXTURE" => src[c].priv.on
          /\ src'[c] = CountFrame(src[c]) /\ frames'[c] = Append(frames[c], q)
    BY <1>4, QBufEffect
  <2>1. PICK s, h, r : /\ s = src[c] /\ h = frames[c] /\ r = q
                       /\ r = FrameOf(src[c], fb, file[c].size, file[c].out, early)
    BY <2>0
  <2>2. src'[c] = CountFrame(s) /\ frames'[c] = Append(h, r) /\ r \in FrameType
    BY <2>0, <2>1
  <2>3. s \in SourceType /\ h \in Seq(FrameType)
    BY <2>1, ShapeAt
  <2>4. CASE s.id = "FIXTURE"
    <3>1. ~s.priv.on
      BY <2>1, <2>4, ShapeAt DEF Sourced
    <3>2. src'[c] = s
      BY <2>2, <2>3, <2>4, CountFrameType
    <3> QED
      BY <3>1, <3>2 DEF Cadence
  <2>5. CASE s.id # "FIXTURE"
    <3>1. s.priv.on
      BY <2>0, <2>1, <2>5
    <3>2. /\ src'[c].id = s.id /\ src'[c].priv.drop = s.priv.drop
          /\ src'[c].priv.produced = s.priv.produced + 1
      BY <2>2, <2>3, <2>5, CountFrameType
    <3>3. s.priv.produced = Len(h) /\ Len(h) \in Nat
      BY <2>1, <2>3, <3>1 DEF Cadence
    <3>4. r.dropped = Drops(s)
      BY <2>1 DEF FrameOf
    <3>5. Drops(s) <=> DropAt(s.id, s.priv.drop, Len(h) + 1)
      BY <3>3 DEF Drops, DropAt
    <3>6. Len(Append(h, r)) = Len(h) + 1 /\ DOMAIN Append(h, r) = 1 .. Len(h) + 1
      BY <2>2, <2>3
    <3>7. ASSUME NEW j \in 1 .. Len(h) + 1
          PROVE  Append(h, r)[j].dropped <=> DropAt(s.id, s.priv.drop, j)
      <4>1. CASE j = Len(h) + 1
        <5>1. Append(h, r)[j] = r
          BY <2>2, <2>3, <4>1
        <5> QED
          BY <3>4, <3>5, <4>1, <5>1
      <4>2. CASE j # Len(h) + 1
        <5>1. j \in DOMAIN h /\ Append(h, r)[j] = h[j]
          BY <2>2, <2>3, <4>2
        <5> QED
          BY <2>1, <3>1, <5>1 DEF Cadence
      <4> QED
        BY <4>1, <4>2
    <3> QED
      BY <2>2, <3>2, <3>3, <3>6, <3>7 DEF Cadence
  <2> QED
    BY <2>4, <2>5
<1>5. CASE src'[c] = src[c] /\ frames'[c] = frames[c]
  BY <1>5 DEF Cadence
<1> QED
  BY <1>1, <1>2, <1>3, <1>4, <1>5, StreamStep

(* One of n consecutive numbers is a multiple of n. *)
LEMMA OneMultiple ==
  ASSUME NEW n \in Nat \ {0}, NEW k \in Nat
  PROVE  \E x \in k .. k + n - 1 :
           \A j \in k .. k + n - 1 : j % n = 0 <=> j = x
<1> DEFINE a == k + n - 1
           q == a \div n
           x == n * q
<1>1. a \in Nat
  OBVIOUS
<1> HIDE DEF a
<1>2. a = n * q + (a % n) /\ a % n \in 0 .. n - 1 /\ q \in Nat
  BY <1>1
<1> HIDE DEF q
<1>3. x \in k .. k + n - 1
  BY <1>2 DEF a
<1>4. x % n = 0
  BY <1>2
<1>5. ASSUME NEW j \in k .. k + n - 1, j % n = 0 PROVE j = x
  <2>1. PICK p \in Nat : j = n * p
    <3> DEFINE p == j \div n
    <3>1. j = n * p + (j % n) /\ p \in Nat
      OBVIOUS
    <3> HIDE DEF p
    <3>2. j = n * p
      BY <1>5, <3>1
    <3> QED
      BY <3>1, <3>2
  <2>2. n * p - n * q \in -(n - 1) .. n - 1
    BY <1>3, <2>1
  <2>3. p = q
    BY <1>2, <2>1, <2>2
  <2> QED
    BY <2>1, <2>3
<1> HIDE DEF x
<1> QED
  BY <1>3, <1>4, <1>5

(* Of n consecutive frames one is a dropped one. *)
LEMMA OneDropped ==
  ASSUME NEW id \in {"SYNTHETIC", "VCAM"}, NEW n \in Nat \ {0},
         NEW k \in Nat \ {0}
  PROVE  \E x \in k .. k + n - 1 :
           \A j \in k .. k + n - 1 : DropAt(id, n, j) <=> j = x
<1>1. CASE id = "SYNTHETIC"
  <2>1. PICK x \in k .. k + n - 1 :
               \A j \in k .. k + n - 1 : j % n = 0 <=> j = x
    BY OneMultiple
  <2> QED
    BY <1>1, <2>1 DEF DropAt
<1>2. CASE id = "VCAM"
  <2>1. PICK m \in Nat : k = m + 1
    <3>1. k - 1 \in Nat /\ k = (k - 1) + 1
      OBVIOUS
    <3> QED
      BY <3>1
  <2>2. PICK y \in m .. m + n - 1 :
               \A j \in m .. m + n - 1 : j % n = 0 <=> j = y
    BY <2>1, OneMultiple
  <2>3. ASSUME NEW j \in k .. k + n - 1
        PROVE  (j - 1) % n = 0 <=> j = y + 1
    <3>1. PICK i \in m .. m + n - 1 : i = j - 1
      BY <2>1
    <3>2. i % n = 0 <=> i = y
      BY <2>2
    <3>3. i = y <=> j = y + 1
      BY <2>1, <2>2, <3>1
    <3> QED
      BY <3>1, <3>2, <3>3
  <2>4. y + 1 \in k .. k + n - 1
    BY <2>1, <2>2
  <2> QED
    BY <1>2, <2>3, <2>4 DEF DropAt
<1> QED
  BY <1>1, <1>2

LEMMA DropRateType ==
  ASSUME Shape, NEW c \in Ctxs
  PROVE  src[c].priv.drop \in Nat
  BY ShapeAt DEF SourceType, PrivType

(* "drop every N-th frame": of any N consecutive frames of a stream        *)
(* exactly one is dropped, for every N and however long the stream         *)
(* (synthetic_next_frame, vcam_next_frame).                                *)
THEOREM DropCadenceHolds == Spec => []DropCadence
<1>1. Init => \A c \in Ctxs : Cadence(c)
  BY DEF Init, Cadence, NewSource, NoPriv
<1>2. Shape /\ Counts /\ (\A c \in Ctxs : Cadence(c)) /\ [Next]_vars
        => (\A c \in Ctxs : Cadence(c))'
  BY CadenceStep
<1>3. Shape /\ (\A c \in Ctxs : Cadence(c)) => DropCadence
  <2> SUFFICES ASSUME Shape, \A c \in Ctxs : Cadence(c), NEW c \in Ctxs,
                      src[c].priv.drop > 0,
                      NEW k \in 1 .. Len(frames[c]) + 1 - src[c].priv.drop
               PROVE  Cardinality({j \in k .. k + src[c].priv.drop - 1 :
                                     frames[c][j].dropped}) = 1
    BY DEF DropCadence
  <2>1. PICK n, h, id : n = src[c].priv.drop /\ h = frames[c] /\ id = src[c].id
    OBVIOUS
  <2>2. src[c] \in SourceType /\ h \in Seq(FrameType)
    BY <2>1, ShapeAt
  <2>3. /\ n \in Nat \ {0} /\ Len(h) \in Nat /\ k \in Nat \ {0}
        /\ k <= Len(h) + 1 - n
    <3>1. n \in Nat
      BY <2>1, DropRateType
    <3>2. n > 0 /\ Len(h) \in Nat
      BY <2>1, <2>2
    <3> QED
      BY <2>1, <3>1, <3>2
  <2>4. src[c].priv.on
    BY <2>1, <2>3, ShapeAt DEF Sourced, NoPriv
  <2>5. id \in {"SYNTHETIC", "VCAM"}
    BY <2>1, <2>2, <2>4, ShapeAt DEF Sourced, SourceType, Backends
  <2>6. PICK x \in k .. k + n - 1 :
               \A j \in k .. k + n - 1 : DropAt(id, n, j) <=> j = x
    BY <2>3, <2>5, OneDropped
  <2>7. \A j \in k .. k + n - 1 : h[j].dropped <=> DropAt(id, n, j)
    <3>1. \A j \in k .. k + n - 1 : j \in 1 .. Len(h)
      BY <2>3
    <3>2. DOMAIN h = 1 .. Len(h)
      BY <2>2
    <3> QED
      BY <2>1, <2>4, <3>1, <3>2 DEF Cadence
  <2>8. {j \in k .. k + n - 1 : h[j].dropped} = {x}
    BY <2>6, <2>7
  <2> QED
    BY <2>1, <2>8, FS_Singleton, ZenonT(40)
<1> QED
  BY <1>1, <1>2, <1>3, ShapeHolds, CountsHold, PTL DEF Spec

(* A surface changes when its own stream draws on it, and when it is freed.*)
LEMMA SurfaceStep ==
  ASSUME Shape, Counts, [Next]_vars, NEW f \in 1 .. starts
  PROVE  \/ fb'[f].shown = fb[f].shown
         \/ fb'[f].refs = 0
         \/ \E c \in Ctxs : QBuf(c) /\ Streams(f) = {c}
<1>1. fb \in [Fbs -> FbType] /\ starts \in 0 .. MaxStarts
  BY DEF Shape, Types
<1>2. f \in Fbs
  BY <1>1 DEF Fbs
<1>3. ASSUME NEW g, (g \in Fbs /\ fb' = KrefPut(fb, g)) \/ fb' = fb
      PROVE  fb'[f].shown = fb[f].shown \/ fb'[f].refs = 0
  <2>1. CASE fb' = fb
    BY <2>1
  <2>2. CASE g \in Fbs /\ fb' = KrefPut(fb, g) /\ g = f
    BY <1>1, <2>2, KrefPutKeeps
  <2>3. CASE g \in Fbs /\ fb' = KrefPut(fb, g) /\ g # f
    <3>1. fb'[f] = fb[f]
      BY <1>1, <1>2, <2>3, KrefPutType
    <3> QED
      BY <3>1
  <2> QED
    BY <1>3, <2>1, <2>2, <2>3
<1>4. ASSUME NEW c \in Ctxs, QBuf(c)
      PROVE  fb'[f] = fb[f] \/ Streams(f) = {c}
  BY <1>2, <1>4, QBufEffect
<1>5. ASSUME NEW c \in Ctxs,
             \/ ReleaseSource(c)
             \/ \E b \in Backends : SetBackend(c, b)
             \/ \E t \in Queues : StreamOff(c, t)
      PROVE  fb'[f].shown = fb[f].shown \/ fb'[f].refs = 0
  <2>1. fb' = StopFb(src[c], fb) \/ fb' = fb
    BY <1>5 DEF ReleaseSource, SetBackend, StreamOff
  <2> QED
    BY <1>3, <2>1, StopFbType
<1>6. ASSUME NEW c \in Ctxs, NEW n \in DropRates, StreamOnOut(c, n)
      PROVE  fb'[f] = fb[f]
  <2>1. PICK g : g = starts + 1
    OBVIOUS
  <2>2. /\ src[c].id = "VCAM" =>
             fb' = [fb EXCEPT ![g].refs = fb[g].refs + 1,
                              ![g].size = PageAlign(file[c].size)]
        /\ src[c].id # "VCAM" => fb' = fb
    BY <1>6, <2>1, StreamOnOutEffect
  <2>3. f # g
    BY <1>1, <2>1
  <2> QED
    BY <1>1, <1>2, <2>2, <2>3
<1>7. ASSUME NEW c \in Ctxs, ExportGet(c)
      PROVE  fb'[f].shown = fb[f].shown
  <2>1. PICK g \in Fbs : fb' = KrefGet(fb, g)
    BY <1>7, StreamHolds DEF ExportGet
  <2>2. CASE g = f
    BY <1>1, <2>1, <2>2, KrefGetType
  <2>3. CASE g # f
    <3>1. fb'[f] = fb[f]
      BY <1>1, <1>2, <2>1, <2>3, KrefGetType
    <3> QED
      BY <3>1
  <2> QED
    BY <2>2, <2>3
<1>8. CASE ExportFails
  <2>1. exp.fb \in Fbs /\ fb' = KrefPut(fb, exp.fb)
    BY <1>1, <1>8 DEF ExportFails, Shape, Handles, Fbs
  <2> QED
    BY <1>3, <2>1
<1>9. ASSUME NEW d \in Dbufs, DmabufMap(d)
      PROVE  fb' = fb
  <2>1. Live(d)
    BY <1>9 DEF DmabufMap, Live
  <2>2. dbuf[d].fb \in Fbs /\ d \in Exported(dbuf[d].fb)
    BY <2>1, LiveAt DEF Exported
  <2> QED
    BY <1>1, <1>9, <2>2, HolderKeeps, TouchType DEF DmabufMap
<1>10. ASSUME NEW d \in Dbufs, DmabufUnmap(d) \/ DmabufClose(d)
       PROVE  fb'[f].shown = fb[f].shown \/ fb'[f].refs = 0
  <2>1. PICK D : Live(d) /\ D.fb = dbuf[d].fb /\ LeaveDmabuf(d, D)
    BY <1>10, LeaveType
  <2>2. dbuf[d].fb \in Fbs
    BY <2>1, LiveAt
  <2> QED
    BY <1>3, <2>1, <2>2 DEF LeaveDmabuf
<1>11. ASSUME NEW c \in Ctxs, StreamOnFails(c) PROVE fb' = fb
  BY <1>11, StreamOnFailsShape DEF vars
<1>12. ASSUME NEW c \in Ctxs,
              \/ Open(c) \/ ReleaseQueues(c) \/ PrepareBuf(c) \/ StreamOnCap(c)
              \/ \E t \in Queues : \/ \E s \in Sizes : SFmt(c, t, s)
                                   \/ \E b \in BOOLEAN : ReqBufs(c, t, b)
       PROVE  fb' = fb
  BY <1>12 DEF Open, ReleaseQueues, PrepareBuf, StreamOnCap, SFmt, ReqBufs, fbVars
<1>13. ASSUME UNCHANGED vars \/ (\E b \in Backends : Register(b)) \/ ExportFd
       PROVE  fb' = fb
  BY <1>13 DEF vars, Register, ExportFd, fbVars
<1> QED
  BY <1>4, <1>5, <1>6, <1>7, <1>8, <1>9, <1>10, <1>11, <1>12, <1>13 DEF Next

(* Nobody begins to stream on a framebuffer that is allocated already. *)
LEMMA NoNewStream ==
  ASSUME Shape, Counts, [Next]_vars, NEW f \in 1 .. starts, NEW c \in Ctxs,
         src'[c].priv.on, src'[c].priv.fb = f
  PROVE  c \in Streams(f)
<1>1. src[c] \in SourceType /\ starts \in Nat
  BY ShapeAt
<1>2. CASE Kept(c)
  BY <1>2 DEF Kept, Streams
<1>3. CASE Ended(c)
  BY <1>3 DEF Ended, NoPriv
<1>4. CASE Begun(c)
  BY <1>1, <1>4 DEF Begun, FreshPriv, NoPriv
<1>5. CASE QBuf(c)
  <2>1. src'[c] = src[c] \/ src'[c] = CountFrame(src[c])
    BY <1>5, QBufEffect
  <2> QED
    BY <1>1, <2>1, CountFrameType DEF Streams
<1> QED
  BY <1>2, <1>3, <1>4, <1>5, StreamStep

(* Once its stream has ended an exported surface never changes again, for  *)
(* as long as an importer keeps it: a later stream gets a framebuffer of   *)
(* its own (vcam_start, vcam_stop).                                        *)
THEOREM SurfaceFrozenHolds == Spec => SurfaceFrozen
<1> DEFINE A == \A f \in 1 .. starts :
                  Streams(f) = {} =>
                    /\ Streams(f)' = {}
                    /\ fb'[f].refs > 0 => fb'[f].shown = fb[f].shown
<1>1. Shape /\ Counts /\ [Next]_vars => [A]_vars
  <2> SUFFICES ASSUME Shape, Counts, [Next]_vars, NEW f \in 1 .. starts,
                      Streams(f) = {}
               PROVE  /\ Streams(f)' = {}
                      /\ fb'[f].refs > 0 => fb'[f].shown = fb[f].shown
    OBVIOUS
  <2>1. Streams(f)' = {}
    BY NoNewStream DEF Streams
  <2>2. fb'[f].refs > 0 => fb'[f].shown = fb[f].shown
    BY SurfaceStep
  <2> QED
    BY <2>1, <2>2
<1> QED
  BY <1>1, ShapeHolds, CountsHold, PTL DEF Spec, SurfaceFrozen

(* A stream holds its framebuffer after a step, too. *)
LEMMA HeldNext ==
  ASSUME Counts', NEW c \in Ctxs, NEW f \in Fbs, src'[c].priv.on,
         src'[c].priv.fb = f
  PROVE  fb'[f].refs > 0
<1> DEFINE S == Streams(f)'
           E == Exported(f)'
           x == Exporting(f)'
<1>1. c \in S /\ S \subseteq Ctxs /\ E \subseteq Dbufs
  BY DEF Streams, Exported
<1>2. fb'[f].refs = Cardinality(S) + Cardinality(E) + x /\ x \in {0, 1}
  BY DEF Counts, RefsCounted, Exporting
<1> HIDE DEF S, E, x
<1>3. IsFiniteSet(S) /\ IsFiniteSet(E)
  <2>1. IsFiniteSet(Dbufs)
    BY FS_Interval DEF Dbufs
  <2> QED
    BY <1>1, <2>1, FS_Subset
<1>4. Cardinality(S) \in Nat /\ Cardinality(E) \in Nat /\ Cardinality(S) # 0
  BY <1>1, <1>3, FS_CardinalityType, FS_EmptySet
<1> QED
  BY <1>2, <1>4

(* v is what the last frame of h that was drawn shows, 0 if there is none. *)
LastShown(h, v) ==
  \/ v = 0 /\ \A k \in DOMAIN h : h[k].shown = 0
  \/ /\ v # 0
     /\ \E k \in DOMAIN h : /\ h[k].shown = v
                            /\ \A j \in DOMAIN h : h[j].shown # 0 => j <= k

LEMMA LastShownAppend ==
  ASSUME NEW h \in Seq(FrameType), NEW r \in FrameType, NEW v, LastShown(h, v)
  PROVE  LastShown(Append(h, r), IF r.shown # 0 THEN r.shown ELSE v)
<1> DEFINE n == Len(h) + 1
           g == Append(h, r)
<1>1. /\ Len(h) \in Nat /\ DOMAIN h = 1 .. Len(h) /\ DOMAIN g = 1 .. n
      /\ g[n] = r /\ \A j \in DOMAIN h : g[j] = h[j]
  OBVIOUS
<1>2. n \in DOMAIN g /\ DOMAIN g = DOMAIN h \cup {n}
      /\ \A j \in DOMAIN g : j <= n
  BY <1>1
<1>3. g[n] = r /\ \A j \in DOMAIN h : g[j] = h[j]
  BY <1>1
<1> HIDE DEF n, g
<1>4. CASE r.shown # 0
  BY <1>2, <1>3, <1>4 DEF LastShown, g
<1>5. CASE r.shown = 0
  BY <1>2, <1>3, <1>5 DEF LastShown, g
<1> QED
  BY <1>4, <1>5

Shows(c) ==
  src[c].id = "VCAM" /\ src[c].priv.on =>
    LastShown(frames[c], fb[src[c].priv.fb].shown)

LEMMA ShowsStep ==
  ASSUME Shape, Counts, Counts', [Next]_vars, NEW c \in Ctxs, Shows(c)
  PROVE  Shows(c)'
<1> SUFFICES ASSUME src'[c].id = "VCAM", src'[c].priv.on
             PROVE  LastShown(frames'[c], fb'[src'[c].priv.fb].shown)
  BY DEF Shows
<1>1. src[c] \in SourceType /\ starts \in Nat /\ frames[c] \in Seq(FrameType)
  BY ShapeAt
<1>2. CASE Kept(c) /\ ~QBuf(c)
  <2>1. /\ src[c].id = "VCAM" /\ src[c].priv.on
        /\ src'[c].priv.fb = src[c].priv.fb /\ frames'[c] = frames[c]
    BY <1>2 DEF Kept
  <2>2. PICK f \in 1 .. starts : f = src[c].priv.fb /\ f \in Fbs /\ Streams(f) = {c}
    BY <2>1, StreamHolds
  <2>3. fb'[f].refs > 0
    BY <2>1, <2>2, HeldNext
  <2>4. ~\E d \in Ctxs : QBuf(d) /\ Streams(f) = {d}
    BY <1>2, <2>2
  <2>5. fb'[f].shown = fb[f].shown
    BY <2>3, <2>4, SurfaceStep
  <2> QED
    BY <2>1, <2>2, <2>5 DEF Shows
<1>3. CASE Ended(c)
  BY <1>3 DEF Ended, NoPriv
<1>4. CASE Begun(c)
  <2>1. /\ frames'[c] = << >> /\ src'[c].priv.fb = starts + 1
        /\ fb'[starts + 1].shown = 0
    BY <1>4 DEF Begun, FreshPriv, NoPriv
  <2> QED
    BY <2>1 DEF LastShown
<1>5. CASE QBuf(c)
  <2>1. CASE src'[c] = src[c] /\ frames'[c] = frames[c] /\ fb' = fb
    BY <2>1 DEF Shows
  <2>2. CASE ~(src'[c] = src[c] /\ frames'[c] = frames[c] /\ fb' = fb)
    <3>0. PICK early \in BOOLEAN, q \in FrameType :
            /\ q = FrameOf(src[c], fb, file[c].size, file[c].out, early)
            /\ src'[c] = CountFrame(src[c]) /\ frames'[c] = Append(frames[c], q)
            /\ src[c].id = "VCAM" =>
                 fb'[src[c].priv.fb].shown = IF Draws(src[c])
                                             THEN src[c].priv.offset + 1
                                             ELSE fb[src[c].priv.fb].shown
      BY <1>5, <2>2, QBufEffect
    <3>1. PICK s, h, r : /\ s = src[c] /\ h = frames[c] /\ r = q
                         /\ r = FrameOf(src[c], fb, file[c].size, file[c].out, early)
      BY <3>0
    <3>2. /\ src'[c] = CountFrame(s) /\ frames'[c] = Append(h, r)
          /\ r \in FrameType
          /\ s.id = "VCAM" =>
               fb'[s.priv.fb].shown = IF Draws(s) THEN s.priv.offset + 1
                                      ELSE fb[s.priv.fb].shown
      BY <3>0, <3>1
    <3>3. /\ s.id = "VCAM" /\ s.priv.on /\ src'[c].priv.fb = s.priv.fb
      BY <1>1, <3>1, <3>2, CountFrameType
    <3>4. r.shown = IF Draws(s) THEN s.priv.offset + 1 ELSE 0
      BY <3>1 DEF FrameOf
    <3>5. s.priv.offset \in Nat
      BY <1>1, <3>1 DEF SourceType, PrivType
    <3>6. fb'[s.priv.fb].shown = IF r.shown # 0 THEN r.shown
                                 ELSE fb[s.priv.fb].shown
      BY <3>2, <3>3, <3>4, <3>5
    <3>7. LastShown(h, fb[s.priv.fb].shown) /\ h \in Seq(FrameType)
      BY <1>1, <3>1, <3>3 DEF Shows
    <3>8. LastShown(Append(h, r), fb'[s.priv.fb].shown)
      BY <3>2, <3>6, <3>7, LastShownAppend
    <3> QED
      BY <3>2, <3>3, <3>8
  <2> QED
    BY <2>1, <2>2
<1> QED
  BY <1>2, <1>3, <1>4, <1>5, StreamStep

(* An importer of the surface sees the last frame that was put into an     *)
(* OUTPUT buffer; a dropped frame leaves the surface alone                 *)
(* (vcam_next_frame).                                                      *)
THEOREM SurfaceShowsLastHolds == Spec => []SurfaceShowsLast
<1>1. Init => \A c \in Ctxs : Shows(c)
  BY DEF Init, Shows, NewSource, NoPriv
<1>2. Shape /\ Counts /\ Counts' /\ (\A c \in Ctxs : Shows(c)) /\ [Next]_vars
        => (\A c \in Ctxs : Shows(c))'
  BY ShowsStep
<1>3. Shape /\ (\A c \in Ctxs : Shows(c)) => SurfaceShowsLast
  <2> SUFFICES ASSUME Shape, NEW c \in Ctxs, Shows(c), src[c].id = "VCAM",
                      src[c].priv.on
               PROVE  fb[src[c].priv.fb].shown =
                        IF DrawnFrames(c) = {} THEN 0
                        ELSE frames[c][CHOOSE k \in DrawnFrames(c) :
                               \A j \in DrawnFrames(c) : j <= k].shown
    BY DEF SurfaceShowsLast
  <2>1. PICK h, v : h = frames[c] /\ v = fb[src[c].priv.fb].shown
    OBVIOUS
  <2>2. LastShown(h, v) /\ h \in Seq(FrameType)
    BY <2>1, ShapeAt DEF Shows
  <2>3. DrawnFrames(c) = {k \in DOMAIN h : h[k].shown # 0}
    BY <2>1 DEF DrawnFrames
  <2>4. CASE v = 0
    BY <2>1, <2>2, <2>3, <2>4 DEF LastShown
  <2>5. CASE v # 0
    <3>1. PICK k \in DOMAIN h : /\ h[k].shown = v
                                /\ \A j \in DOMAIN h : h[j].shown # 0 => j <= k
      BY <2>2, <2>5 DEF LastShown
    <3>2. k \in DrawnFrames(c) /\ \A j \in DrawnFrames(c) : j <= k
      BY <2>3, <2>5, <3>1
    <3> DEFINE m == CHOOSE i \in DrawnFrames(c) : \A j \in DrawnFrames(c) : j <= i
    <3>3. m \in DrawnFrames(c) /\ \A j \in DrawnFrames(c) : j <= m
      BY <3>2
    <3> HIDE DEF m
    <3>4. m \in Nat /\ k \in Nat /\ m <= k /\ k <= m
      BY <2>2, <2>3, <3>2, <3>3
    <3>5. m = k
      BY <3>4
    <3> QED
      BY <2>1, <3>1, <3>2, <3>5 DEF m
  <2> QED
    BY <2>4, <2>5
<1> QED
  BY <1>1, <1>2, <1>3, ShapeHolds, CountsHold, PTL DEF Spec

=============================================================================
