-------------------------- MODULE ToolsFrameProofs --------------------------
(***************************************************************************)
(* Theorems about the frames of Tools: which row a line of the CSV file is *)
(* given, which QBUF it takes its time from and which pixels it describes. *)
(* The last part shows that the devices accept the calls the tools make.   *)
(***************************************************************************)
EXTENDS ToolsNodeProofs

(* The order of the calls in a turn of a loop: the camera's buffer, then   *)
(* the frame, then what describes it, then the buffers go back.  A program *)
(* with a fill loop (deep) submits last, the others first.                 *)
Rank(c, deep) ==
  CASE c = "dqViv" -> 1 [] c = "seqCtrl" -> 2
    [] c = "submit" -> IF deep THEN 12 ELSE 3
    [] c = "dqCap" -> 4 [] c = "dqOut" -> IF deep THEN 11 ELSE 5
    [] c = "readMeta" -> 6 [] c = "row" -> 7 [] c = "remap" -> 8
    [] c = "qCap" -> 9 [] c = "qViv" -> 10
LoopCalls == {"dqViv", "seqCtrl", "submit", "dqCap", "dqOut", "readMeta", "row",
              "remap", "qCap", "qViv"}
InTurn(s, deep) ==
  /\ Calls(s) \subseteq LoopCalls
  /\ \A j, k \in 1 .. Len(s) : j < k => Rank(s[j], deep) < Rank(s[k], deep)

(* The stages of a set-up. *)
Stage(c) ==
  CASE c = "openViv" -> 1 [] c = "open" -> 2 [] c = "backend" -> 3
    [] c \in {"fmtViv", "fmtOut", "fmtCap"} -> 4
    [] c \in {"mapViv", "mapSlots", "reqUser", "mapCap", "mapOut", "reqOut",
              "reqOne"} -> 5
    [] c \in {"heap", "ctrl", "csv", "tryMeta"} -> 6
    [] c \in {"qVivs", "qCaps", "qCap0"} -> 7 [] c = "submit" -> 8
    [] c \in {"onViv", "onCap", "onOut"} -> 9 [] c = "export" -> 10
Staged(s) ==
  /\ \A j, k \in 1 .. Len(s) : s[j] = s[k] => j = k
  /\ \A j, k \in 1 .. Len(s) : j < k => Stage(s[j]) <= Stage(s[k])

NodeSetup == {"open", "fmtOut", "fmtCap", "mapCap", "onCap", "onOut"}
VivSetup == {"openViv", "fmtViv", "qVivs", "onViv"}
Quits == {"offOut", "offCap", "offViv", "closeMeta", "close", "closeViv"}
Bare(g) == g.after = << >>

(* The programs are of five kinds: the runner, the capture tools that feed *)
(* the node, the benchmarks, the feeder, and the tools of the camera only. *)
Runner(g) ==
  /\ g.depth \in 1 .. N /\ g.index = "dequeued" /\ Bare(g)
  /\ g.backend \in {"VCAM", "FIXTURE"} /\ g.cleanup = RunCleanup
  /\ Calls(g.loop) = {"dqCap", "readMeta", "row", "qCap", "dqOut", "submit"}
  /\ \/ /\ g.mem = "own"
        /\ Calls(g.setup) = NodeSetup \cup
             {"backend", "mapOut", "ctrl", "csv", "tryMeta", "qCaps"}
     \/ /\ g.mem = "surface" /\ g.depth = 1 /\ g.backend = "VCAM"
        /\ Calls(g.setup) = NodeSetup \cup
             {"backend", "reqOne", "ctrl", "csv", "tryMeta", "qCaps", "export"}
Copier(g) ==
  /\ g.depth = 0 /\ g.index = "camera" /\ g.backend = "FIXTURE" /\ Bare(g)
  /\ Calls(g.loop) = {"dqViv", "seqCtrl", "submit", "dqCap", "dqOut", "row", "qCap",
                      "qViv"}
  /\ \/ /\ g.mem = "viv"
        /\ Calls(g.setup) = NodeSetup \cup VivSetup \cup
             {"mapViv", "reqOut", "csv", "qCaps"}
     \/ /\ g.mem = "own"
        /\ Calls(g.setup) = NodeSetup \cup VivSetup \cup
             {"mapViv", "reqOut", "mapOut", "csv", "qCaps"}
Bench(g) ==
  /\ g.depth = 0
  /\ \/ Bare(g) /\ Calls(g.loop) = {"submit", "dqCap", "dqOut", "row", "qCap"}
     \/ /\ Calls(g.after) = {"export", "verify"} /\ g.backend = "VCAM"
        /\ Calls(g.loop) = {"submit", "dqCap", "dqOut", "qCap"}
  /\ \/ /\ g.mem = "heap" /\ g.index = "modulo" /\ g.backend = "FIXTURE"
        /\ Calls(g.setup) = NodeSetup \cup {"reqOut", "heap", "ctrl", "csv", "qCaps"}
     \/ /\ g.mem = "own" /\ g.index = "modulo" /\ g.backend = "VCAM"
        /\ Calls(g.setup) \cup {"csv"} = NodeSetup \cup
             {"backend", "mapOut", "ctrl", "csv", "qCaps"}
     \/ /\ g.mem = "surface" /\ g.index = "zero" /\ g.backend = "VCAM"
        /\ Calls(g.setup) = NodeSetup \cup
             {"backend", "reqOne", "ctrl", "csv", "qCaps", "export"}
Feeder(g) ==
  /\ g.depth = 0 /\ g.frames = 1 /\ g.index = "zero" /\ g.mem = "heap" /\ Bare(g)
  /\ g.backend = "FIXTURE" /\ Calls(g.loop) = {"dqCap", "row"}
  /\ Calls(g.setup) = NodeSetup \cup {"reqOut", "heap", "ctrl", "qCap0", "submit"}
Camera(g) ==
  /\ g.depth = 0 /\ g.index = "camera" /\ g.mem = "own" /\ Bare(g)
  /\ g.backend = "FIXTURE"
  /\ \/ /\ Calls(g.loop) = {"dqViv", "row", "qViv"}
        /\ \/ Calls(g.setup) = VivSetup \cup {"mapViv", "csv"}
           \/ Calls(g.setup) = VivSetup \cup {"mapSlots", "reqUser", "csv"}
     \/ /\ Calls(g.loop) = {"dqViv", "row", "remap", "qViv"}
        /\ Calls(g.setup) = VivSetup \cup {"mapSlots", "reqUser", "csv"}

Kind(g) ==
  /\ InTurn(g.loop, g.depth > 0) /\ Staged(g.setup) /\ Calls(g.cleanup) \subseteq Quits
  /\ \/ Runner(g) \/ Copier(g) \/ Bench(g) \/ Feeder(g) \/ Camera(g)
-----------------------------------------------------------------------------
LEMMA Turns ==
  /\ InTurn(RunLoop, TRUE)
  /\ \A z \in {CaptureM2MLoop, CaptureDmabufLoop, BenchFixtureLoop, VcamBenchLoop,
               DmabufBenchLoop, DmabufTestLoop, FixtureFeedLoop, CaptureMmapLoop,
               UserptrLoop(TRUE), UserptrLoop(FALSE)} : InTurn(z, FALSE)
  /\ Calls(RunLoop) = {"dqCap", "readMeta", "row", "qCap", "dqOut", "submit"}
  /\ \A z \in {CaptureM2MLoop, CaptureDmabufLoop} :
       Calls(z) = {"dqViv", "seqCtrl", "submit", "dqCap", "dqOut", "row", "qCap", "qViv"}
  /\ \A z \in {BenchFixtureLoop, VcamBenchLoop, DmabufBenchLoop} :
       Calls(z) = {"submit", "dqCap", "dqOut", "row", "qCap"}
  /\ Calls(DmabufTestLoop) = {"submit", "dqCap", "dqOut", "qCap"}
  /\ Calls(FixtureFeedLoop) = {"dqCap", "row"}
  /\ \A z \in {CaptureMmapLoop, UserptrLoop(FALSE)} : Calls(z) = {"dqViv", "row", "qViv"}
  /\ Calls(UserptrLoop(TRUE)) = {"dqViv", "row", "remap", "qViv"}
<1> USE DEF InTurn, Calls, Rank, LoopCalls
<1>1. ASSUME NEW z, z = RunLoop
      PROVE  /\ InTurn(z, TRUE)
             /\ Calls(z) = {"dqCap", "readMeta", "row", "qCap", "dqOut", "submit"}
  BY <1>1 DEF RunLoop
<1>2. ASSUME NEW z, z = CaptureM2MLoop
      PROVE  /\ InTurn(z, FALSE)
             /\ Calls(z) = {"dqViv", "seqCtrl", "submit", "dqCap", "dqOut", "row",
                            "qCap", "qViv"}
  BY <1>2 DEF CaptureM2MLoop
<1>3. ASSUME NEW z, z = BenchFixtureLoop
      PROVE  InTurn(z, FALSE) /\ Calls(z) = {"submit", "dqCap", "dqOut", "row", "qCap"}
  BY <1>3 DEF BenchFixtureLoop
<1>4. ASSUME NEW z, z = DmabufTestLoop
      PROVE  InTurn(z, FALSE) /\ Calls(z) = {"submit", "dqCap", "dqOut", "qCap"}
  BY <1>4 DEF DmabufTestLoop
<1>5. ASSUME NEW z, z = FixtureFeedLoop
      PROVE  InTurn(z, FALSE) /\ Calls(z) = {"dqCap", "row"}
  BY <1>5 DEF FixtureFeedLoop
<1>6. ASSUME NEW z, z = CaptureMmapLoop
      PROVE  InTurn(z, FALSE) /\ Calls(z) = {"dqViv", "row", "qViv"}
  BY <1>6 DEF CaptureMmapLoop
<1>7. ASSUME NEW z, z = UserptrLoop(TRUE)
      PROVE  InTurn(z, FALSE) /\ Calls(z) = {"dqViv", "row", "remap", "qViv"}
  BY <1>7 DEF UserptrLoop
<1> HIDE DEF InTurn, Calls, Rank, LoopCalls
<1>8. /\ CaptureDmabufLoop = CaptureM2MLoop /\ VcamBenchLoop = BenchFixtureLoop
      /\ DmabufBenchLoop = BenchFixtureLoop
  BY DEF CaptureDmabufLoop, CaptureM2MLoop, VcamBenchLoop, BenchFixtureLoop,
         DmabufBenchLoop
<1>9. UserptrLoop(FALSE) = CaptureMmapLoop
  BY DEF UserptrLoop
<1> QED
  BY ONLY <1>1, <1>2, <1>3, <1>4, <1>5, <1>6, <1>7, <1>8, <1>9

LEMMA Stages ==
  /\ \A z \in {RunSetup("mapOut"), RunSetup("reqOne"), CaptureM2MSetup(TRUE),
               CaptureM2MSetup(FALSE), CaptureDmabufSetup, BenchFixtureSetup,
               VcamBenchSetup, DmabufBenchSetup, DmabufTestSetup, FixtureFeedSetup,
               CaptureMmapSetup, UserptrSetup} : Staged(z)
<1> USE DEF Staged, Stage
<1>1. ASSUME NEW z, z = RunSetup("mapOut") PROVE Staged(z)
  BY <1>1 DEF RunSetup
<1>2. ASSUME NEW z, z = RunSetup("reqOne") PROVE Staged(z)
  BY <1>2 DEF RunSetup
<1>3. ASSUME NEW z, z = CaptureM2MSetup(TRUE) PROVE Staged(z)
  BY <1>3 DEF CaptureM2MSetup
<1>4. ASSUME NEW z, z = CaptureM2MSetup(FALSE) PROVE Staged(z)
  BY <1>4 DEF CaptureM2MSetup
<1>5. ASSUME NEW z, z = CaptureDmabufSetup PROVE Staged(z)
  BY <1>5 DEF CaptureDmabufSetup
<1>6. ASSUME NEW z, z = BenchFixtureSetup PROVE Staged(z)
  BY <1>6 DEF BenchFixtureSetup
<1>7. ASSUME NEW z, z = VcamBenchSetup PROVE Staged(z)
  BY <1>7 DEF VcamBenchSetup
<1>8. ASSUME NEW z, z = DmabufBenchSetup PROVE Staged(z)
  BY <1>8 DEF DmabufBenchSetup
<1>9. ASSUME NEW z, z = DmabufTestSetup PROVE Staged(z)
  BY <1>9 DEF DmabufTestSetup
<1>10. ASSUME NEW z, z = FixtureFeedSetup PROVE Staged(z)
  BY <1>10 DEF FixtureFeedSetup
<1>11. ASSUME NEW z, z = CaptureMmapSetup PROVE Staged(z)
  BY <1>11 DEF CaptureMmapSetup
<1>12. ASSUME NEW z, z = UserptrSetup PROVE Staged(z)
  BY <1>12 DEF UserptrSetup
<1> HIDE DEF Staged
<1> QED
  BY ONLY <1>1, <1>2, <1>3, <1>4, <1>5, <1>6, <1>7, <1>8, <1>9, <1>10, <1>11, <1>12

LEMMA SetupCalls ==
  /\ Calls(RunSetup("mapOut")) = NodeSetup \cup
       {"backend", "mapOut", "ctrl", "csv", "tryMeta", "qCaps"}
  /\ Calls(RunSetup("reqOne")) = NodeSetup \cup
       {"backend", "reqOne", "ctrl", "csv", "tryMeta", "qCaps", "export"}
  /\ \A z \in {CaptureM2MSetup(TRUE), CaptureDmabufSetup} :
       Calls(z) = NodeSetup \cup VivSetup \cup {"mapViv", "reqOut", "csv", "qCaps"}
  /\ Calls(CaptureM2MSetup(FALSE)) = NodeSetup \cup VivSetup \cup
       {"mapViv", "reqOut", "mapOut", "csv", "qCaps"}
  /\ Calls(BenchFixtureSetup) = NodeSetup \cup
       {"reqOut", "heap", "ctrl", "csv", "qCaps"}
  /\ \A z \in {VcamBenchSetup, DmabufTestSetup} :
       Calls(z) \cup {"csv"} = NodeSetup \cup {"backend", "mapOut", "ctrl", "csv", "qCaps"}
  /\ Calls(DmabufBenchSetup) = NodeSetup \cup
       {"backend", "reqOne", "ctrl", "csv", "qCaps", "export"}
  /\ Calls(FixtureFeedSetup) = NodeSetup \cup
       {"reqOut", "heap", "ctrl", "qCap0", "submit"}
  /\ Calls(CaptureMmapSetup) = VivSetup \cup {"mapViv", "csv"}
  /\ Calls(UserptrSetup) = VivSetup \cup {"mapSlots", "reqUser", "csv"}
<1> USE DEF Calls, NodeSetup, VivSetup
<1>1. ASSUME NEW z, z = RunSetup("mapOut")
      PROVE  Calls(z) = NodeSetup \cup
               {"backend", "mapOut", "ctrl", "csv", "tryMeta", "qCaps"}
  BY <1>1 DEF RunSetup
<1>2. ASSUME NEW z, z = RunSetup("reqOne")
      PROVE  Calls(z) = NodeSetup \cup
               {"backend", "reqOne", "ctrl", "csv", "tryMeta", "qCaps", "export"}
  BY <1>2 DEF RunSetup
<1>3. ASSUME NEW z, z = CaptureM2MSetup(TRUE)
      PROVE  Calls(z) = NodeSetup \cup VivSetup \cup {"mapViv", "reqOut", "csv", "qCaps"}
  BY <1>3 DEF CaptureM2MSetup
<1>4. ASSUME NEW z, z = CaptureM2MSetup(FALSE)
      PROVE  Calls(z) = NodeSetup \cup VivSetup \cup
               {"mapViv", "reqOut", "mapOut", "csv", "qCaps"}
  BY <1>4 DEF CaptureM2MSetup
<1>5. ASSUME NEW z, z = CaptureDmabufSetup
      PROVE  Calls(z) = NodeSetup \cup VivSetup \cup {"mapViv", "reqOut", "csv", "qCaps"}
  BY <1>5 DEF CaptureDmabufSetup
<1>6. ASSUME NEW z, z = BenchFixtureSetup
      PROVE  Calls(z) = NodeSetup \cup {"reqOut", "heap", "ctrl", "csv", "qCaps"}
  BY <1>6 DEF BenchFixtureSetup
<1>7. ASSUME NEW z, z = VcamBenchSetup
      PROVE  Calls(z) \cup {"csv"} = NodeSetup \cup
               {"backend", "mapOut", "ctrl", "csv", "qCaps"}
  BY <1>7 DEF VcamBenchSetup
<1>8. ASSUME NEW z, z = DmabufBenchSetup
      PROVE  Calls(z) = NodeSetup \cup
               {"backend", "reqOne", "ctrl", "csv", "qCaps", "export"}
  BY <1>8 DEF DmabufBenchSetup
<1>9. ASSUME NEW z, z = DmabufTestSetup
      PROVE  Calls(z) \cup {"csv"} = NodeSetup \cup
               {"backend", "mapOut", "ctrl", "csv", "qCaps"}
  BY <1>9 DEF DmabufTestSetup
<1>10. ASSUME NEW z, z = FixtureFeedSetup
       PROVE  Calls(z) = NodeSetup \cup {"reqOut", "heap", "ctrl", "qCap0", "submit"}
  BY <1>10 DEF FixtureFeedSetup
<1>11. ASSUME NEW z, z = CaptureMmapSetup
       PROVE  Calls(z) = VivSetup \cup {"mapViv", "csv"}
  BY <1>11 DEF CaptureMmapSetup
<1>12. ASSUME NEW z, z = UserptrSetup
       PROVE  Calls(z) = VivSetup \cup {"mapSlots", "reqUser", "csv"}
  BY <1>12 DEF UserptrSetup
<1> HIDE DEF Calls, NodeSetup, VivSetup
<1> QED
  BY ONLY <1>1, <1>2, <1>3, <1>4, <1>5, <1>6, <1>7, <1>8, <1>9, <1>10, <1>11, <1>12

LEMMA QuitCalls ==
  /\ \A z \in {RunCleanup, CaptureM2MCleanup, CaptureDmabufCleanup,
               BenchFixtureCleanup, VcamBenchCleanup, DmabufBenchCleanup,
               DmabufTestCleanup, FixtureFeedCleanup, CaptureMmapCleanup,
               UserptrCleanup} : Calls(z) \subseteq Quits
  /\ Calls(DmabufTestVerify) = {"export", "verify"}
<1> USE DEF Calls, Quits
<1>1. ASSUME NEW z, z = RunCleanup PROVE Calls(z) \subseteq Quits
  BY <1>1 DEF RunCleanup
<1>2. ASSUME NEW z, z = CaptureM2MCleanup PROVE Calls(z) \subseteq Quits
  BY <1>2 DEF CaptureM2MCleanup
<1>3. ASSUME NEW z, z = BenchFixtureCleanup PROVE Calls(z) \subseteq Quits
  BY <1>3 DEF BenchFixtureCleanup
<1>4. ASSUME NEW z, z = CaptureMmapCleanup PROVE Calls(z) \subseteq Quits
  BY <1>4 DEF CaptureMmapCleanup
<1>5. ASSUME NEW z, z = UserptrCleanup PROVE Calls(z) \subseteq Quits
  BY <1>5 DEF UserptrCleanup
<1>6. ASSUME NEW z, z = FixtureFeedCleanup PROVE Calls(z) \subseteq Quits
  BY <1>6 DEF FixtureFeedCleanup
<1>7. ASSUME NEW z, z = DmabufTestVerify PROVE Calls(z) = {"export", "verify"}
  BY <1>7 DEF DmabufTestVerify
<1>8. /\ CaptureDmabufCleanup = CaptureM2MCleanup
      /\ VcamBenchCleanup = BenchFixtureCleanup
      /\ DmabufBenchCleanup = BenchFixtureCleanup
      /\ DmabufTestCleanup = BenchFixtureCleanup
  BY DEF CaptureM2MCleanup, CaptureDmabufCleanup, BenchFixtureCleanup,
         VcamBenchCleanup, DmabufBenchCleanup, DmabufTestCleanup
<1> HIDE DEF Calls, Quits
<1> QED
  BY ONLY <1>1, <1>2, <1>3, <1>4, <1>5, <1>6, <1>7, <1>8

HasNode(g) == "dqCap" \in Calls(g.loop)
HasViv(g) == "dqViv" \in Calls(g.loop)
Remaps(g) == "remap" \in Calls(g.loop)
NewKind(g, remaps) == Kind(g) /\ (Remaps(g) <=> remaps)

LEMMA RunnerKind ==
  ASSUME NEW src \in {"VCAM", "FIXTURE"}, NEW out \in {"mapOut", "reqOne"}, NEW m \in Nat,
         out = "reqOne" => src = "VCAM"
  PROVE  Runner(Run(src, out, m)) /\ NewKind(Run(src, out, m), FALSE)
<1>1. PICK g : g = Run(src, out, m)
  OBVIOUS
<1>2. /\ g.setup = RunSetup(out) /\ g.loop = RunLoop /\ g.after = << >>
      /\ g.cleanup = RunCleanup /\ g.index = "dequeued" /\ g.backend = src
      /\ g.mem = IF out = "reqOne" THEN "surface" ELSE "own"
      /\ g.depth \in 1 .. N /\ g.depth > 0
      /\ out = "reqOne" => g.depth = 1
  BY <1>1, Constants DEF Run, OutDepth
<1>3. Runner(g)
  BY <1>2, Turns, SetupCalls DEF Runner, Bare
<1>4. (g.depth > 0) = TRUE
  BY <1>2
<1>5. InTurn(g.loop, g.depth > 0)
  BY <1>2, <1>4, Turns, Zenon
<1>6. Staged(g.setup) /\ Calls(g.cleanup) \subseteq Quits
  BY <1>2, Stages, QuitCalls
<1> QED
  BY <1>1, <1>2, <1>3, <1>5, <1>6, Turns DEF NewKind, Kind, Remaps

LEMMA ShallowKind ==
  ASSUME NEW g, g.depth = 0, Copier(g) \/ Bench(g) \/ Feeder(g) \/ Camera(g),
         InTurn(g.loop, FALSE), Staged(g.setup), Calls(g.cleanup) \subseteq Quits
  PROVE  Kind(g)
<1>1. (g.depth > 0) = FALSE
  OBVIOUS
<1>2. InTurn(g.loop, g.depth > 0)
  BY <1>1, Zenon
<1> QED
  BY <1>2 DEF Kind

LEMMA CopierKinds ==
  /\ \A dma \in BOOLEAN : Copier(CaptureM2M(dma)) /\ NewKind(CaptureM2M(dma), FALSE)
  /\ NewKind(CaptureDmabuf, FALSE)
<1>1. ASSUME NEW dma \in BOOLEAN
      PROVE  Copier(CaptureM2M(dma)) /\ NewKind(CaptureM2M(dma), FALSE)
  <2>1. PICK g : g = CaptureM2M(dma)
    OBVIOUS
  <2>2. /\ g.setup = CaptureM2MSetup(dma) /\ g.loop = CaptureM2MLoop
        /\ g.after = << >> /\ g.cleanup = CaptureM2MCleanup
        /\ g.index = "camera" /\ g.mem = (IF dma THEN "viv" ELSE "own")
        /\ g.depth = 0 /\ g.backend = "FIXTURE"
    BY <2>1 DEF CaptureM2M
  <2>3. \/ dma = TRUE /\ g.mem = "viv"
        \/ dma = FALSE /\ g.mem = "own"
    BY <2>2
  <2>4. Staged(g.setup)
    BY <2>2, <2>3, Stages, Zenon
  <2>5. \/ g.mem = "viv" /\ g.setup = CaptureM2MSetup(TRUE)
        \/ g.mem = "own" /\ g.setup = CaptureM2MSetup(FALSE)
    BY <2>2, <2>3, Zenon
  <2>6. Copier(g)
    BY <2>2, <2>5, Turns, SetupCalls DEF Copier, Bare
  <2>7. Kind(g)
    BY <2>2, <2>4, <2>6, Turns, QuitCalls, ShallowKind
  <2> QED
    BY <2>1, <2>2, <2>6, <2>7, Turns DEF NewKind, Remaps
<1>2. NewKind(CaptureDmabuf, FALSE)
  <2>1. PICK g : g = CaptureDmabuf
    OBVIOUS
  <2>2. /\ g.setup = CaptureDmabufSetup /\ g.loop = CaptureDmabufLoop
        /\ g.after = << >> /\ g.cleanup = CaptureDmabufCleanup
        /\ g.index = "camera" /\ g.mem = "viv" /\ g.depth = 0 /\ g.backend = "FIXTURE"
    BY <2>1 DEF CaptureDmabuf, CaptureM2M
  <2>3. Copier(g)
    BY <2>2, Turns, SetupCalls DEF Copier, Bare
  <2>4. Kind(g)
    BY <2>2, <2>3, Turns, Stages, QuitCalls, ShallowKind
  <2> QED
    BY <2>1, <2>2, <2>4, Turns DEF NewKind, Remaps
<1> QED
  BY <1>1, <1>2

LEMMA BenchKinds ==
  /\ NewKind(BenchFixture, FALSE) /\ NewKind(VcamBench, FALSE)
  /\ NewKind(DmabufBench, FALSE) /\ NewKind(DmabufTest, FALSE)
  /\ NewKind(FixtureFeed, FALSE)
<1>1. ASSUME NEW g, g = BenchFixture PROVE NewKind(g, FALSE)
  <2>1. /\ g.setup = BenchFixtureSetup /\ g.loop = BenchFixtureLoop
        /\ g.after = << >> /\ g.cleanup = BenchFixtureCleanup
        /\ g.index = "modulo" /\ g.mem = "heap" /\ g.depth = 0 /\ g.backend = "FIXTURE"
    BY <1>1 DEF BenchFixture
  <2>2. Bench(g)
    BY <2>1, Turns, SetupCalls DEF Bench, Bare
  <2>3. Kind(g)
    BY <2>1, <2>2, Turns, Stages, QuitCalls, ShallowKind
  <2> QED
    BY <2>1, <2>3, Turns DEF NewKind, Remaps
<1>2. ASSUME NEW g, g = VcamBench PROVE NewKind(g, FALSE)
  <2>1. /\ g.setup = VcamBenchSetup /\ g.loop = VcamBenchLoop
        /\ g.after = << >> /\ g.cleanup = VcamBenchCleanup
        /\ g.index = "modulo" /\ g.mem = "own" /\ g.depth = 0 /\ g.backend = "VCAM"
    BY <1>2 DEF VcamBench
  <2>2. Bench(g)
    BY <2>1, Turns, SetupCalls DEF Bench, Bare
  <2>3. Kind(g)
    BY <2>1, <2>2, Turns, Stages, QuitCalls, ShallowKind
  <2> QED
    BY <2>1, <2>3, Turns DEF NewKind, Remaps
<1>3. ASSUME NEW g, g = DmabufBench PROVE NewKind(g, FALSE)
  <2>1. /\ g.setup = DmabufBenchSetup /\ g.loop = DmabufBenchLoop
        /\ g.after = << >> /\ g.cleanup = DmabufBenchCleanup
        /\ g.index = "zero" /\ g.mem = "surface" /\ g.depth = 0 /\ g.backend = "VCAM"
    BY <1>3 DEF DmabufBench, VcamBench
  <2>2. Bench(g)
    BY <2>1, Turns, SetupCalls DEF Bench, Bare
  <2>3. Kind(g)
    BY <2>1, <2>2, Turns, Stages, QuitCalls, ShallowKind
  <2> QED
    BY <2>1, <2>3, Turns DEF NewKind, Remaps
<1>4. ASSUME NEW g, g = DmabufTest PROVE NewKind(g, FALSE)
  <2>1. /\ g.setup = DmabufTestSetup /\ g.loop = DmabufTestLoop
        /\ g.after = DmabufTestVerify /\ g.cleanup = DmabufTestCleanup
        /\ g.index = "modulo" /\ g.mem = "own" /\ g.depth = 0 /\ g.backend = "VCAM"
    BY <1>4 DEF DmabufTest, VcamBench
  <2>2. Bench(g)
    BY <2>1, Turns, SetupCalls, QuitCalls DEF Bench
  <2>3. Kind(g)
    BY <2>1, <2>2, Turns, Stages, QuitCalls, ShallowKind
  <2> QED
    BY <2>1, <2>3, Turns DEF NewKind, Remaps
<1>5. ASSUME NEW g, g = FixtureFeed PROVE NewKind(g, FALSE)
  <2>1. /\ g.setup = FixtureFeedSetup /\ g.loop = FixtureFeedLoop
        /\ g.after = << >> /\ g.cleanup = FixtureFeedCleanup /\ g.frames = 1
        /\ g.index = "zero" /\ g.mem = "heap" /\ g.depth = 0 /\ g.backend = "FIXTURE"
    BY <1>5 DEF FixtureFeed, BenchFixture
  <2>2. Feeder(g)
    BY <2>1, Turns, SetupCalls DEF Feeder, Bare
  <2>3. Kind(g)
    BY <2>1, <2>2, Turns, Stages, QuitCalls, ShallowKind
  <2> QED
    BY <2>1, <2>3, Turns DEF NewKind, Remaps
<1> QED
  BY <1>1, <1>2, <1>3, <1>4, <1>5

LEMMA CameraKinds ==
  /\ NewKind(CaptureMmap, FALSE)
  /\ NewKind(Userptr(TRUE), TRUE) /\ NewKind(Userptr(FALSE), FALSE)
<1>1. ASSUME NEW g, g = CaptureMmap PROVE NewKind(g, FALSE)
  <2>1. /\ g.setup = CaptureMmapSetup /\ g.loop = CaptureMmapLoop
        /\ g.after = << >> /\ g.cleanup = CaptureMmapCleanup
        /\ g.index = "camera" /\ g.mem = "own" /\ g.depth = 0 /\ g.backend = "FIXTURE"
    BY <1>1 DEF CaptureMmap
  <2>2. Camera(g)
    BY <2>1, Turns, SetupCalls DEF Camera, Bare
  <2>3. Kind(g)
    BY <2>1, <2>2, Turns, Stages, QuitCalls, ShallowKind
  <2> QED
    BY <2>1, <2>3, Turns DEF NewKind, Remaps
<1>2. ASSUME NEW reset \in BOOLEAN, NEW g, g = Userptr(reset)
      PROVE  /\ g.setup = UserptrSetup /\ g.loop = UserptrLoop(reset)
             /\ g.after = << >> /\ g.cleanup = UserptrCleanup
             /\ g.index = "camera" /\ g.mem = "own" /\ g.depth = 0
             /\ g.backend = "FIXTURE"
  BY <1>2 DEF Userptr, CaptureMmap
<1>3. ASSUME NEW g, g = Userptr(TRUE) PROVE NewKind(g, TRUE)
  <2>1. /\ g.setup = UserptrSetup /\ g.loop = UserptrLoop(TRUE)
        /\ g.after = << >> /\ g.cleanup = UserptrCleanup
        /\ g.index = "camera" /\ g.mem = "own" /\ g.depth = 0 /\ g.backend = "FIXTURE"
    BY <1>2, <1>3
  <2>2. Camera(g)
    BY <2>1, Turns, SetupCalls DEF Camera, Bare
  <2>3. Kind(g)
    BY <2>1, <2>2, Turns, Stages, QuitCalls, ShallowKind
  <2> QED
    BY <2>1, <2>3, Turns DEF NewKind, Remaps
<1>4. ASSUME NEW g, g = Userptr(FALSE) PROVE NewKind(g, FALSE)
  <2>1. /\ g.setup = UserptrSetup /\ g.loop = UserptrLoop(FALSE)
        /\ g.after = << >> /\ g.cleanup = UserptrCleanup
        /\ g.index = "camera" /\ g.mem = "own" /\ g.depth = 0 /\ g.backend = "FIXTURE"
    BY <1>2, <1>4
  <2>2. Camera(g)
    BY <2>1, Turns, SetupCalls DEF Camera, Bare
  <2>3. Kind(g)
    BY <2>1, <2>2, Turns, Stages, QuitCalls, ShallowKind
  <2>4. Calls(g.loop) = {"dqViv", "row", "qViv"}
    BY <2>1, Turns, Zenon
  <2> QED
    BY <2>3, <2>4 DEF NewKind, Remaps
<1> QED
  BY <1>1, <1>3, <1>4

LEMMA Kinds ==
  ASSUME NEW p \in Names
  PROVE  /\ Kind(Programs[p])
         /\ Remaps(Programs[p]) <=> p = "userptrReset"
         /\ p \in {"runOne", "runDmabuf"} => Runner(Programs[p])
         /\ Scripted(p) => Copier(Programs[p])
<1>1. CASE p \in {"run", "runFixture", "runOne", "runDmabuf"}
  <2>1. \/ Programs[p] = Run("VCAM", "mapOut", N)
        \/ Programs[p] = Run("FIXTURE", "mapOut", N)
        \/ Programs[p] = Run("VCAM", "mapOut", 1)
        \/ Programs[p] = Run("VCAM", "reqOne", N)
    BY <1>1 DEF Programs
  <2>2. Runner(Programs[p]) /\ NewKind(Programs[p], FALSE)
    BY <2>1, Constants, RunnerKind
  <2> QED
    BY <1>1, <2>2 DEF NewKind, Scripted
<1>2. CASE p \in {"m2mCopy", "m2mDmabuf", "userptrReset", "userptrNoreset"}
  <2>1. ASSUME NEW a, NEW b, a = FALSE, b = TRUE
        PROVE  /\ Programs["m2mCopy"] = CaptureM2M(a)
               /\ Programs["m2mDmabuf"] = CaptureM2M(b)
               /\ Programs["userptrReset"] = Userptr(b)
               /\ Programs["userptrNoreset"] = Userptr(a)
    BY <2>1, Zenon DEF Programs
  <2>2. PICK a, b : a = FALSE /\ b = TRUE
    OBVIOUS
  <2>3. a \in BOOLEAN /\ b \in BOOLEAN
    BY <2>2
  <2>4. CASE p \in {"m2mCopy", "m2mDmabuf"}
    <3>1. Copier(Programs[p]) /\ NewKind(Programs[p], FALSE)
      BY <2>1, <2>2, <2>3, <2>4, CopierKinds, Zenon
    <3> QED
      BY <2>4, <3>1 DEF NewKind
  <2>5. CASE p = "userptrReset"
    <3>1. NewKind(Programs[p], TRUE)
      BY <2>1, <2>2, <2>5, CameraKinds, Zenon
    <3> QED
      BY <2>5, <3>1 DEF NewKind, Scripted
  <2>6. CASE p = "userptrNoreset"
    <3>1. NewKind(Programs[p], FALSE)
      BY <2>1, <2>2, <2>6, CameraKinds, Zenon
    <3> QED
      BY <2>6, <3>1 DEF NewKind, Scripted
  <2> QED
    BY <1>2, <2>4, <2>5, <2>6
<1>3. CASE p \in {"captureDmabuf", "benchFixture", "vcamBench", "dmabufBench",
                  "dmabufTest", "fixtureFeed", "captureMmap"}
  <2>0. Programs[p] \in {CaptureDmabuf, BenchFixture, VcamBench, DmabufBench,
                         DmabufTest, FixtureFeed, CaptureMmap}
    BY <1>3 DEF Programs
  <2>1. NewKind(Programs[p], FALSE)
    BY <2>0, CopierKinds, BenchKinds, CameraKinds, Zenon
  <2> QED
    BY <1>3, <2>1 DEF NewKind, Scripted
<1> QED
  BY <1>1, <1>2, <1>3 DEF Names
-----------------------------------------------------------------------------
(* How far the program g is at the place m: whether it has made the call c *)
(* in this turn of its loop, how often in the loop so far, and whether in  *)
(* its set-up.                                                             *)
Live == me.runs # << >> /\ Phase # "cleanup"
Past(m, g, c) == m.pc[1] = "loop" /\ Called(g.loop, m.pc[2], {c})
Done(m, g, c) == IF Past(m, g, c) THEN m.i + 1 ELSE m.i
Ready(m, g, c) == m.pc[1] # "setup" \/ Called(g.setup, m.pc[2], {c})
(* frames submitted *)
Sent(m, g) ==
  IF g.depth > 0 THEN m.sent
  ELSE IF "submit" \in Calls(g.loop) THEN Done(m, g, "submit")
  ELSE IF Ready(m, g, "submit") THEN 1 ELSE 0

SetupNames ==
  NodeSetup \cup VivSetup \cup
    {"backend", "mapOut", "reqOut", "reqOne", "mapViv", "mapSlots", "reqUser",
     "heap", "ctrl", "csv", "tryMeta", "qCaps", "qCap0", "submit", "export"}

(* What a program does in each of its parts. *)
LEMMA KindCalls ==
  ASSUME NEW g, Kind(g)
  PROVE  /\ Calls(g.setup) \subseteq SetupNames /\ Calls(g.loop) \subseteq LoopCalls
         /\ Calls(g.cleanup) \subseteq Quits
         /\ g.after # << >> => Calls(g.after) = {"export", "verify"}
<1>1. Calls(g.loop) \subseteq LoopCalls /\ Calls(g.cleanup) \subseteq Quits
  BY DEF Kind, InTurn
<1>2. Calls(g.setup) \subseteq SetupNames
  <2>1. CASE Runner(g)
    BY <2>1 DEF Runner, SetupNames
  <2>2. CASE Copier(g)
    BY <2>2 DEF Copier, SetupNames
  <2>3. CASE Bench(g)
    BY <2>3 DEF Bench, SetupNames
  <2>4. CASE Feeder(g)
    BY <2>4 DEF Feeder, SetupNames
  <2>5. CASE Camera(g)
    BY <2>5 DEF Camera, SetupNames
  <2> QED
    BY <2>1, <2>2, <2>3, <2>4, <2>5 DEF Kind
<1>3. g.after # << >> => Calls(g.after) = {"export", "verify"}
  BY DEF Kind, Runner, Copier, Bench, Feeder, Camera, Bare
<1> QED
  BY <1>1, <1>2, <1>3

LEMMA Where ==
  ASSUME Inv, NEW c, At(c)
  PROVE  /\ me \in MeType /\ me.runs # << >> /\ Plan(Prog) /\ Kind(Prog)
         /\ Placed(me, Prog) /\ c = Part(Prog, me.pc[1])[me.pc[2]]
         /\ me.pc[2] \in 1 .. Len(Part(Prog, me.pc[1])) /\ Phase \in Phases
         /\ Phase = "setup" => c \in Calls(Prog.setup) /\ c \in SetupNames
         /\ Phase = "fill" => c = "submit"
         /\ Phase = "loop" => c \in Calls(Prog.loop) /\ c \in LoopCalls
         /\ Phase = "after" => c \in {"export", "verify"}
         /\ Phase = "cleanup" => c \in Quits
<1>1. me \in MeType /\ Place /\ me.runs # << >>
  BY DEF Inv, Types, At, Exited
<1>2. PICK g : g = Prog
  OBVIOUS
<1>3. Plan(g) /\ Placed(me, g) /\ Kind(g)
  BY <1>1, <1>2, Planned, Kinds DEF Place, Prog
<1>4. PICK k, s : k = me.pc[2] /\ s = Part(g, me.pc[1])
  OBVIOUS
<1>5. /\ Phase \in Phases /\ k \in 1 .. Len(s) /\ c = s[k]
      /\ Phase = "after" => g.after # << >>
  BY <1>1, <1>2, <1>3, <1>4, MeFields, BodyIs DEF Placed, Phase, At
<1>6. c \in Calls(s)
  BY <1>5 DEF Calls
<1>7. /\ Phase = "setup" => s = g.setup
      /\ Phase = "fill" => s = <<"submit">>
      /\ Phase = "loop" => s = g.loop
      /\ Phase = "after" => s = g.after
      /\ Phase = "cleanup" => s = g.cleanup
  BY <1>3, <1>4, <1>5, PartOf DEF Phase
<1>8. Calls(<<"submit">>) = {"submit"}
  BY DEF Calls
<1> QED
  BY <1>1, <1>2, <1>3, <1>4, <1>5, <1>6, <1>7, <1>8, KindCalls

(* The place in a turn says which calls of the turn have been made. *)
LEMMA Ranks ==
  ASSUME NEW deep \in BOOLEAN, NEW c \in LoopCalls
  PROVE  Rank(c, deep) \in 1 .. 12
  BY DEF Rank, LoopCalls

LEMMA InOrder ==
  ASSUME NEW s, List(s), NEW deep \in BOOLEAN, InTurn(s, deep), NEW k \in 1 .. Len(s),
         NEW x \in Calls(s)
  PROVE  Called(s, k, {x}) <=> Rank(x, deep) < Rank(s[k], deep)
<1>1. Len(s) \in Nat
  BY DEF List
<1>2. PICK j \in 1 .. Len(s) : s[j] = x
  BY DEF Calls
<1>3. s[k] \in LoopCalls /\ x \in LoopCalls
  BY DEF InTurn, Calls
<1>4. Rank(x, deep) \in Nat /\ Rank(s[k], deep) \in Nat
  BY <1>3, Ranks
<1>5. ASSUME Called(s, k, {x}) PROVE Rank(x, deep) < Rank(s[k], deep)
  <2>1. PICK i \in 1 .. k - 1 : s[i] = x
    BY <1>5 DEF Called
  <2>2. i \in 1 .. Len(s) /\ i < k
    BY <1>1, <2>1
  <2> QED
    BY <2>1, <2>2 DEF InTurn
<1>6. ASSUME ~Called(s, k, {x}) PROVE ~(Rank(x, deep) < Rank(s[k], deep))
  <2>1. ~(j < k)
    <3>1. j < k => j \in 1 .. k - 1
      BY <1>1
    <3> QED
      BY <1>2, <1>6, <3>1 DEF Called
  <2>2. j = k \/ k < j
    BY <1>1, <2>1
  <2>3. k < j => Rank(s[k], deep) < Rank(x, deep)
    BY <1>2 DEF InTurn
  <2> QED
    BY <1>2, <1>4, <2>2, <2>3
<1> QED
  BY <1>5, <1>6

LEMMA StageType == \A c \in SetupNames : Stage(c) \in 1 .. 10
  BY DEF Stage, SetupNames, NodeSetup, VivSetup

LEMMA InStages ==
  ASSUME NEW s, List(s), Staged(s), Calls(s) \subseteq SetupNames, NEW k \in 1 .. Len(s),
         NEW x \in Calls(s)
  PROVE  /\ Stage(x) < Stage(s[k]) => Called(s, k, {x})
         /\ Called(s, k, {x}) => Stage(x) <= Stage(s[k]) /\ x # s[k]
<1>1. Len(s) \in Nat
  BY DEF List
<1>2. PICK j \in 1 .. Len(s) : s[j] = x
  BY DEF Calls
<1>3. s[k] \in SetupNames /\ x \in SetupNames
  BY DEF Calls
<1>4. Stage(x) \in Nat /\ Stage(s[k]) \in Nat
  BY <1>3, StageType
<1>5. ASSUME Called(s, k, {x}) PROVE Stage(x) <= Stage(s[k]) /\ x # s[k]
  <2>1. PICK i \in 1 .. k - 1 : s[i] = x
    BY <1>5 DEF Called
  <2>2. i \in 1 .. Len(s) /\ i < k /\ i # k
    BY <1>1, <2>1
  <2> QED
    BY <2>1, <2>2 DEF Staged
<1>6. ASSUME ~Called(s, k, {x}) PROVE ~(Stage(x) < Stage(s[k]))
  <2>1. ~(j < k)
    <3>1. j < k => j \in 1 .. k - 1
      BY <1>1
    <3> QED
      BY <1>2, <1>6, <3>1 DEF Called
  <2>2. j = k \/ k < j
    BY <1>1, <2>1
  <2>3. k < j => Stage(s[k]) <= Stage(x)
    BY <1>2 DEF Staged
  <2> QED
    BY <1>2, <1>4, <2>2, <2>3
<1> QED
  BY <1>5, <1>6

(* What the program g has done after the call c at the place m, which led  *)
(* to the place n.  Either the turn goes on or it has ended, and then all  *)
(* its calls have been made.                                               *)
SameTurn(m, n, g, c) ==
  /\ n.pc[1] = m.pc[1] /\ n.i = m.i
  /\ \A x : Past(n, g, x) <=> Past(m, g, x) \/ (m.pc[1] = "loop" /\ x = c)
NewTurn(m, n, g, c) ==
  /\ n.pc[1] # "setup" /\ \A x : ~Past(n, g, x)
  /\ m.pc[1] = "loop" =>
       n.i = m.i + 1 /\ \A x \in Calls(g.loop) : Past(m, g, x) \/ x = c
  /\ m.pc[1] # "loop" => n.i = m.i
Forward(m, n, g, c, s) ==
  /\ n \in MeType /\ n.runs = m.runs /\ n.why = m.why /\ n.sent = m.sent + s
  /\ SameTurn(m, n, g, c) \/ NewTurn(m, n, g, c)
  /\ n.pc[1] = "setup" => m.pc[1] = "setup"
  /\ n.pc[1] = m.pc[1] \/ n.pc[2] = 1
  /\ \A x \in Calls(g.loop) :
       Done(n, g, x) = Done(m, g, x) + (IF m.pc[1] = "loop" /\ x = c THEN 1 ELSE 0)
  /\ \A x \in Calls(g.setup) :
       Ready(n, g, x) <=> Ready(m, g, x) \/ (m.pc[1] = "setup" /\ x = c)
  /\ \A x : Ready(m, g, x) => Ready(n, g, x)
  /\ n.pc[1] = "fill" => n.sent < g.frames /\ n.sent < g.depth /\ m.pc[1] \in {"setup", "fill"}

(* A call is made once in a turn. *)
LEMMA OnceInTurn ==
  ASSUME NEW s, List(s), NEW deep \in BOOLEAN, InTurn(s, deep), NEW k \in 1 .. Len(s)
  PROVE  ~Called(s, k, {s[k]})
<1>1. s[k] \in Calls(s) /\ s[k] \in LoopCalls
  BY DEF Calls, InTurn
<1>2. Rank(s[k], deep) \in Nat
  BY <1>1, Ranks
<1> QED
  BY <1>1, <1>2, InOrder

LEMMA CalledAll ==
  ASSUME NEW s, List(s), NEW x \in Calls(s)
  PROVE  Called(s, Len(s), {x}) \/ x = s[Len(s)]
<1>1. Len(s) \in Nat
  BY DEF List
<1>2. PICK j \in 1 .. Len(s) : s[j] = x
  BY DEF Calls
<1>3. j = Len(s) \/ j \in 1 .. Len(s) - 1
  BY <1>1
<1> QED
  BY <1>2, <1>3 DEF Called

LEMMA Forwards ==
  ASSUME NEW m \in MeType, NEW n \in MeType, NEW g, Plan(g), Kind(g), Placed(m, g),
         m.pc[1] # "cleanup", NEW s \in {0, 1}, NEW c,
         c = Part(g, m.pc[1])[m.pc[2]], n = Advanced(m, g, s)
  PROVE  Forward(m, n, g, c, s)
<1>1. PICK ph, k, q, L : ph = m.pc[1] /\ k = m.pc[2] /\ q = Part(g, ph) /\ L = Len(q)
  OBVIOUS
<1>2. /\ ph \in Phases /\ k \in Nat /\ m.i \in Nat /\ m.sent \in Nat /\ n.i \in Nat
      /\ ph # "cleanup" /\ n.pc[1] \in Phases
  BY <1>1, MeFields
<1>3. /\ k \in 1 .. L /\ L \in Nat /\ List(q) /\ c = q[k] /\ k >= 1
      /\ ph = "setup" => q = g.setup
      /\ ph = "loop" => q = g.loop
  BY <1>1, <1>2, PartOf DEF Placed, List
<1>4. PICK deep : deep = (g.depth > 0)
  OBVIOUS
<1>5. deep \in BOOLEAN /\ InTurn(g.loop, deep) /\ Staged(g.setup)
  BY <1>4 DEF Kind
<1>6. /\ n.runs = m.runs /\ n.why = m.why /\ n.sent = m.sent + s
      /\ n.i = (IF k = L /\ ph = "loop" THEN m.i + 1 ELSE m.i)
      /\ n.pc = (IF k = L THEN NextPart(g, ph, m.sent + s, n.i) ELSE <<ph, k + 1>>)
  BY <1>1 DEF Advanced, Turn, NextPlace, MeType
<1>7. ph = "loop" => ~Past(m, g, c)
  BY <1>1, <1>3, <1>5, OnceInTurn DEF Past
<1>8. ph # "loop" => \A x : ~Past(m, g, x)
  BY <1>1 DEF Past
<1>9. CASE k # L
  <2>1. n.pc[1] = ph /\ n.pc[2] = k + 1 /\ n.i = m.i
    BY <1>6, <1>9
  <2>2. ASSUME NEW x PROVE Past(n, g, x) <=> Past(m, g, x) \/ (ph = "loop" /\ x = c)
    <3>1. CASE ph = "loop"
      <4>1. Called(g.loop, k + 1, {x}) <=> Called(g.loop, k, {x}) \/ g.loop[k] \in {x}
        BY <1>2, <1>3, CalledNext
      <4> QED
        BY <1>1, <1>3, <2>1, <3>1, <4>1 DEF Past
    <3>2. CASE ph # "loop"
      BY <1>1, <2>1, <3>2 DEF Past
    <3> QED
      BY <3>1, <3>2
  <2>3. SameTurn(m, n, g, c)
    BY <1>1, <2>1, <2>2 DEF SameTurn
  <2>4. \A x : Done(n, g, x) = Done(m, g, x) + (IF ph = "loop" /\ x = c THEN 1 ELSE 0)
    BY <1>2, <1>7, <2>1, <2>2 DEF Done
  <2>5. ASSUME NEW x PROVE Ready(n, g, x) <=> Ready(m, g, x) \/ (ph = "setup" /\ x = c)
    <3>1. CASE ph = "setup"
      <4>1. Called(g.setup, k + 1, {x}) <=> Called(g.setup, k, {x}) \/ g.setup[k] \in {x}
        BY <1>2, <1>3, CalledNext
      <4> QED
        BY <1>1, <1>3, <2>1, <3>1, <4>1 DEF Ready
    <3>2. CASE ph # "setup"
      BY <1>1, <2>1, <3>2 DEF Ready
    <3> QED
      BY <3>1, <3>2
  <2>6. n.pc[1] # "fill"
    <3>1. ph = "fill" => L = 1
      BY <1>1, <1>2, PartOf DEF Placed
    <3> QED
      BY <1>3, <1>9, <2>1, <3>1
  <2> QED
    BY <1>1, <1>6, <2>1, <2>3, <2>4, <2>5, <2>6 DEF Forward
<1>10. CASE k = L
  <2>1. n.pc = NextPart(g, ph, m.sent + s, n.i)
    BY <1>6, <1>10
  <2>2. /\ n.pc[1] # "setup" /\ n.pc[2] = 1
        /\ n.pc[1] = "fill" => n.sent < g.frames /\ n.sent < g.depth
                               /\ ph \in {"setup", "fill"}
    BY <1>6, <2>1 DEF NextPart
  <2>3. \A x : ~Past(n, g, x)
    BY <2>2, CalledNone DEF Past
  <2>4. ph = "loop" => \A x \in Calls(g.loop) : Past(m, g, x) \/ x = c
    BY <1>1, <1>3, <1>10, CalledAll DEF Past
  <2>5. NewTurn(m, n, g, c)
    BY <1>1, <1>6, <1>10, <2>2, <2>3, <2>4 DEF NewTurn
  <2>6. ASSUME NEW x \in Calls(g.loop)
        PROVE  Done(n, g, x) = Done(m, g, x) + (IF ph = "loop" /\ x = c THEN 1 ELSE 0)
    <3>1. CASE ph = "loop"
      BY <1>2, <1>6, <1>7, <1>10, <2>3, <2>4, <3>1 DEF Done
    <3>2. CASE ph # "loop"
      BY <1>2, <1>6, <1>8, <2>3, <3>2 DEF Done
    <3> QED
      BY <3>1, <3>2
  <2>7. \A x : Ready(n, g, x)
    BY <2>2 DEF Ready
  <2>8. ASSUME NEW x \in Calls(g.setup)
        PROVE  Ready(m, g, x) \/ (ph = "setup" /\ x = c)
    BY <1>1, <1>3, <1>10, CalledAll DEF Ready
  <2> QED
    BY <1>1, <1>6, <2>2, <2>5, <2>6, <2>7, <2>8 DEF Forward
<1> QED
  BY <1>9, <1>10

(* The same of a step of Tools. *)
LEMMA Goes ==
  ASSUME Inv, NEW c, At(c), NEW s \in {0, 1}, Advance(s), Phase # "cleanup",
         s = 1 => c = "submit" /\ Submits,
         s = 0 /\ Prog.depth = 0 => c # "submit"
  PROVE  /\ Forward(me, me', Prog, c, s) /\ Prog' = Prog /\ me'.runs # << >>
         /\ me'.runs = me.runs
<1>1. me \in MeType /\ Place
  BY DEF Inv, Types
<1>2. /\ me' \in MeType /\ Place' /\ Moves(me, me', Prog) /\ me.runs # << >>
      /\ Prog' = Prog
  BY <1>1, AdvanceOk
<1>3. PICK g, m, n, b : g = Prog /\ m = me /\ n = me' /\ b = c
  OBVIOUS
<1>4. /\ m \in MeType /\ n \in MeType /\ Plan(g) /\ Kind(g) /\ Placed(m, g)
      /\ m.pc[1] # "cleanup" /\ b = Part(g, m.pc[1])[m.pc[2]]
  BY <1>2, <1>3, Where DEF Phase
<1>5. n = Advanced(m, g, s)
  <2>1. \A x, y : Enter(x, y) = NextPart(g, me.pc[1], x, y)
    BY <1>3 DEF Enter, NextPart, Phase
  <2> QED
    BY <1>3, <2>1, BodyIs DEF Advance, Phase, Advanced, NextPlace, Turn
<1>6. Forward(m, n, g, b, s)
  BY ONLY <1>4, <1>5, s \in {0, 1}, Forwards
<1> QED
  BY <1>2, <1>3, <1>6 DEF Moves
-----------------------------------------------------------------------------
(* The steps as seen from the program: a call that returned, the cleanup   *)
(* or the end, the next run of --compare, or a step of somebody else.      *)
Makes(c, s) ==
  /\ At(c) /\ Live /\ s \in {0, 1} /\ Forward(me, me', Prog, c, s) /\ Prog' = Prog
  /\ me'.runs = me.runs /\ me'.runs # << >>
  /\ s = 1 => c = "submit" /\ Submits
  /\ s = 0 /\ c = "submit" => ~Submits
NewRun ==
  /\ Close /\ NextRun /\ me'.runs # << >> /\ me'.pc = <<"setup", 1>> /\ me'.sent = 0
  /\ me'.i = 0 /\ me'.runs = Tail(me.runs) /\ Head(me.runs) = "runOne"
  /\ me' \in MeType /\ Len(me.runs) > 1 /\ me.why # "killed"
(* the action that is the call c *)
Acts(c, s) ==
  /\ c = "submit" => (IF s = 1 THEN Submit ELSE SubmitNone)
  /\ c = "dqCap" => DequeueCapture
  /\ c = "dqOut" => DequeueOutput
  /\ c = "readMeta" => ReadMeta
  /\ c = "row" => WriteRow
  /\ c = "qCap" => RequeueCapture
  /\ c = "seqCtrl" => SetSequence
  /\ c = "dqViv" => DequeueViv
  /\ c = "qViv" => RequeueViv
  /\ c = "remap" => Remap
  /\ c = "open" => OpenNode
  /\ c = "openViv" => OpenViv
  /\ c = "tryMeta" => OpenMeta
  /\ c = "heap" => FillHeap
  /\ c = "qVivs" => QueueSlots
  /\ c \in {"qCaps", "qCap0"} => QueueCaptures
  /\ c \in {"onOut", "onCap"} => StreamOn
  /\ c = "onViv" => StreamOnViv
  /\ c = "mapSlots" => MapSlots
  /\ c \in Requests("OUT") \cup Requests("CAP") => RequestBuffers
  /\ c \in {"mapViv", "reqUser"} => RequestViv
  /\ c = "closeMeta" => CloseMeta
(* to the cleanup, through it, or to the end *)
Ends ==
  /\ ~Live'
  /\ \/ me'.runs = << >>
     \/ me'.runs = me.runs /\ me'.pc = <<"cleanup", 1>>
     \/ me'.runs = me.runs /\ Dies
     \/ \E c : /\ me'.runs = me.runs /\ Phase = "cleanup" /\ At(c)
               /\ me'.pc = <<"cleanup", me.pc[2] + 1>>
               /\ c = "closeMeta" => CloseMeta
Others ==
  \/ RunJob \/ VividFill \/ VividSkip \/ PublishForeign \/ DrainOpen \/ DrainRead
  \/ UNCHANGED vars
Way == \/ me' = me /\ Others
       \/ Ends
       \/ NewRun
       \/ ~Others /\ \E c, s : Makes(c, s) /\ Acts(c, s)

LEMMA OthersStay == Others => me' = me
  BY DEF Others, RunJob, VividFill, VividSkip, PublishForeign, DrainOpen, DrainRead, vars

LEMMA Does ==
  ASSUME Inv, NEW c, At(c), Advance(0), c \notin Closes, c # "submit",
         c = "closeMeta" => CloseMeta
  PROVE  Makes(c, 0) \/ Ends
<1>1. CASE Phase = "cleanup"
  <2>1. /\ me' \in MeType /\ Moves(me, me', Prog) /\ Prog' = Prog /\ me.runs # << >>
    BY AdvanceOk DEF Inv, Types
  <2>2. Phase' = "cleanup"
    BY <1>1, <2>1, Onward DEF Inv, Types
  <2>3. me'.runs = me.runs /\ me'.pc = <<"cleanup", me.pc[2] + 1>>
    BY <1>1, <2>1 DEF Moves, Phase
  <2> QED
    BY <1>1, <2>2, <2>3 DEF Live, Ends
<1>2. CASE Phase # "cleanup"
  <2>1. /\ Forward(me, me', Prog, c, 0) /\ Prog' = Prog /\ me'.runs # << >>
        /\ me'.runs = me.runs
    BY <1>2, Goes
  <2>2. Live
    BY <1>2 DEF Live, At, Exited
  <2> QED
    BY <2>1, <2>2 DEF Makes
<1> QED
  BY <1>1, <1>2

LEMMA GivesUp ==
  ASSUME Inv, NEW w, GiveUp(w)
  PROVE  Ends
<1>1. me \in MeType
  BY DEF Inv, Types
<1>2. me'.pc = <<"cleanup", 1>> /\ me'.runs = me.runs
  BY <1>1 DEF GiveUp, MeType
<1> QED
  BY <1>2 DEF Live, Phase, Ends

LEMMA GivesOut ==
  ASSUME Inv, Dies, me.runs # << >>
  PROVE  Ends
<1>1. me'.runs = me.runs /\ me'.pc[1] = "cleanup"
  BY DiesOk DEF Inv, Types
<1> QED
  BY <1>1 DEF Live, Phase, Ends

LEMMA EndOfRun ==
  ASSUME Inv, NextRun, me.runs # << >>, Close \/ CloseViv
  PROVE  NewRun \/ Ends
<1>1. CASE Len(me.runs) > 1 /\ me.why # "killed" /\ Close
  <2>1. me' = [me EXCEPT !.runs = Tail(@), !.pc = <<"setup", 1>>,
                 !.sent = 0, !.i = 0, !.why = "none"]
    BY <1>1 DEF NextRun
  <2>2. me \in MeType /\ me' \in MeType
    BY NextRunOk DEF Inv, Types
  <2>3. /\ me'.pc = <<"setup", 1>> /\ me'.sent = 0 /\ me'.i = 0
        /\ me'.runs = Tail(me.runs)
    BY <2>1, <2>2 DEF MeType
  <2>4. Head(me.runs) = "runOne" /\ Tail(me.runs) \in Mains
    BY <1>1, <2>2, Planned, MainRuns
  <2>5. Tail(me.runs) # << >>
    BY <2>4, MainRuns
  <2> QED
    BY <1>1, <2>2, <2>3, <2>4, <2>5 DEF NewRun
<1>2. CASE CloseViv
  <2>1. At("closeViv") /\ "closeViv" \in Closes /\ NextRun
    BY <1>2 DEF CloseViv, Closes
  <2>2. /\ me.runs # << >> /\ Prog.cleanup[me.pc[2]] = "closeViv" /\ me \in MeType
        /\ me.pc[2] \in 1 .. Len(Prog.cleanup)
    BY <2>1, CloseCall DEF Inv, Types
  <2>3. me'.runs = << >> \/ Head(me.runs) = "runOne"
    BY <2>1, <2>2, NextRunOk
  <2>4. Head(me.runs) # "runOne"
    BY <2>2, RunnerNeverClosesViv DEF Prog
  <2> QED
    BY <2>3, <2>4 DEF Live, Ends
<1>3. CASE ~(Len(me.runs) > 1 /\ me.why # "killed")
  <2>1. me' = [me EXCEPT !.runs = << >>] /\ me \in MeType
    BY <1>3 DEF NextRun, Inv, Types
  <2> QED
    BY <2>1 DEF MeType, Live, Ends
<1> QED
  BY <1>1, <1>2, <1>3

LEMMA CloseWay ==
  ASSUME Inv, Close
  PROVE  NewRun \/ Ends
<1>1. At("close") /\ "close" \in Closes
  BY DEF Close, Closes
<1>2. Phase = "cleanup" /\ me.runs # << >> /\ Body = Prog.cleanup
  BY <1>1, CloseCall
<1>3. CASE NextRun
  BY <1>2, <1>3, EndOfRun
<1>4. CASE ~NextRun
  <2>1. Advance(0) /\ me.pc[2] # Len(Body)
    BY <1>4 DEF Close
  <2>2. me' \in MeType /\ Moves(me, me', Prog) /\ Prog' = Prog
    BY <1>1, <2>1, AdvanceOk DEF Inv, Types
  <2>3. Phase' = "cleanup" /\ me'.runs = me.runs
        /\ me'.pc = <<"cleanup", me.pc[2] + 1>>
    BY <1>2, <2>2, Onward DEF Inv, Types, Moves, Phase
  <2> QED
    BY <1>1, <1>2, <2>3 DEF Live, Ends
<1> QED
  BY <1>3, <1>4

(* The calls. *)
LEMMA CallWay ==
  ASSUME Inv, Program, ~Close, ~CloseViv
  PROVE  Way
<1> DEFINE Go(c) == At(c) /\ Advance(0) /\ c \notin Closes /\ c # "submit"
<1>0. ASSUME NEW c, Go(c), Acts(c, 0) PROVE Way
  <2>1. /\ At(c) /\ Advance(0) /\ c \notin Closes /\ c # "submit"
        /\ c = "closeMeta" => CloseMeta
    BY <1>0 DEF Acts
  <2> QED
    BY <1>0, <2>1, Does, OthersStay DEF Way
<1>1. CASE Plain \/ SetFormat \/ Export \/ Verify
  <2>1. CASE \E w : GiveUp(w)
    BY <2>1, GivesUp DEF Way
  <2>2. CASE ~\E w : GiveUp(w)
    <3>1. \E c \in {"backend", "ctrl", "csv", "fmtViv", "fmtOut", "fmtCap", "export",
                    "verify"} : At(c) /\ Advance(0)
      BY <1>1, <2>2 DEF Plain, SetFormat, Export, Verify, Call
    <3> QED
      BY <1>0, <3>1 DEF Closes, Acts, Requests
  <2> QED
    BY <2>1, <2>2
<1>2. CASE StopOutput \/ StopCapture \/ StopViv \/ CloseMeta
  BY <1>0, <1>2 DEF StopOutput, StopCapture, StopViv, CloseMeta, Closes, Acts, Requests
<1>3. CASE Refused \/ Crashes
  BY <1>3, GivesUp, GivesOut DEF Refused, Crashes, Faults, At, Exited, Way
<1>4. CASE OpenNode \/ FillHeap \/ OpenMeta \/ SetSequence
  <2>1. CASE OpenNode
    BY <1>0, <2>1 DEF OpenNode, Call, Closes, Acts, Requests
  <2>2. CASE FillHeap
    BY <1>0, <2>2 DEF FillHeap, Call, Closes, Acts, Requests
  <2>3. CASE OpenMeta
    BY <1>0, <2>3 DEF OpenMeta, Call, Closes, Acts, Requests
  <2>4. CASE SetSequence
    BY <1>0, <2>4 DEF SetSequence, Call, Closes, Acts, Requests
  <2> QED
    BY <1>4, <2>1, <2>2, <2>3, <2>4
<1>5. CASE RequestBuffers
  <2>1. PICK c \in {"mapOut", "reqOut", "reqOne", "mapCap"} : At(c)
    BY <1>5 DEF RequestBuffers, Call
  <2>2. Advance(0)
    BY <1>5 DEF RequestBuffers
  <2>3. Acts(c, 0)
    BY <1>5, <2>1 DEF Acts
  <2> QED
    BY <1>0, <2>1, <2>2, <2>3 DEF Closes
<1>6. CASE QueueCaptures
  <2>1. PICK c \in {"qCaps", "qCap0"} : At(c)
    BY <1>6 DEF QueueCaptures, Call
  <2>2. Advance(0)
    BY <1>6 DEF QueueCaptures
  <2>3. Acts(c, 0)
    BY <1>6, <2>1 DEF Acts, Requests
  <2> QED
    BY <1>0, <2>1, <2>2, <2>3 DEF Closes
<1>7. CASE StreamOn
  <2>1. PICK c \in {"onCap", "onOut"} : At(c)
    BY <1>7 DEF StreamOn, Call
  <2>2. Advance(0)
    BY <1>7 DEF StreamOn
  <2>3. Acts(c, 0)
    BY <1>7, <2>1 DEF Acts, Requests
  <2> QED
    BY <1>0, <2>1, <2>2, <2>3 DEF Closes
<1>8. CASE RequestViv
  <2>1. PICK c \in {"mapViv", "reqUser"} : At(c)
    BY <1>8 DEF RequestViv, Call
  <2>2. Advance(0)
    BY <1>8 DEF RequestViv
  <2>3. Acts(c, 0)
    BY <1>8, <2>1 DEF Acts, Requests
  <2> QED
    BY <1>0, <2>1, <2>2, <2>3 DEF Closes
<1>9. CASE DequeueCapture
  BY <1>0, <1>9 DEF DequeueCapture, Call, Closes, Acts, Requests
<1>10. CASE DequeueOutput
  BY <1>0, <1>10 DEF DequeueOutput, Call, Closes, Acts, Requests
<1>11. CASE ReadMeta
  BY <1>0, <1>11 DEF ReadMeta, Call, Closes, Acts, Requests
<1>12. CASE WriteRow
  BY <1>0, <1>12 DEF WriteRow, Call, Closes, Acts, Requests
<1>13. CASE RequeueCapture
  BY <1>0, <1>13 DEF RequeueCapture, Call, Closes, Acts, Requests
<1>14. CASE OpenViv
  BY <1>0, <1>14 DEF OpenViv, Call, Closes, Acts, Requests
<1>15. CASE MapSlots
  BY <1>0, <1>15 DEF MapSlots, Call, Closes, Acts, Requests
<1>16. CASE QueueSlots
  BY <1>0, <1>16 DEF QueueSlots, Call, Closes, Acts, Requests
<1>17. CASE RequeueViv
  BY <1>0, <1>17 DEF RequeueViv, Call, Closes, Acts, Requests
<1>18. CASE StreamOnViv
  BY <1>0, <1>18 DEF StreamOnViv, Call, Closes, Acts, Requests
<1>19. CASE DequeueViv
  BY <1>0, <1>19 DEF DequeueViv, Call, Closes, Acts, Requests
<1>20. CASE Remap
  <2>1. At("remap") /\ (Advance(0) \/ GiveUp("refused"))
    BY <1>20 DEF Remap, Call
  <2>2. GiveUp("refused") => Ends
    BY GivesUp
  <2>3. Acts("remap", 0)
    BY <1>20 DEF Acts, Requests
  <2> QED
    BY <1>0, <2>1, <2>2, <2>3 DEF Way, Closes
<1>21. CASE Submit \/ SubmitNone
  <2>1. PICK s \in {0, 1} : /\ At("submit") /\ Advance(s)
                            /\ IF s = 1 THEN Submit /\ Submits ELSE SubmitNone /\ ~Submits
    BY <1>21 DEF Submit, SubmitNone, Call
  <2>2. Phase # "cleanup" /\ me.runs # << >>
    BY <2>1, SubmitCall
  <2>3. s = 0 => Prog.depth # 0
    BY <2>1 DEF Submits
  <2>4. /\ Forward(me, me', Prog, "submit", s) /\ Prog' = Prog /\ me'.runs # << >>
        /\ me'.runs = me.runs
    BY <2>1, <2>2, <2>3, Goes
  <2>5. Makes("submit", s)
    BY <2>1, <2>2, <2>4 DEF Makes, Live
  <2>6. Acts("submit", s)
    BY <2>1 DEF Acts, Requests
  <2> QED
    BY <2>5, <2>6, OthersStay DEF Way
<1> QED
  BY <1>1, <1>2, <1>3, <1>4, <1>5, <1>6, <1>7, <1>8, <1>9, <1>10, <1>11, <1>12, <1>13,
     <1>14, <1>15, <1>16, <1>17, <1>18, <1>19, <1>20, <1>21 DEF Program

LEMMA Ways == Inv /\ [Next]_vars => Way
<1> SUFFICES ASSUME Inv, [Next]_vars PROVE Way
  OBVIOUS
<1>1. CASE Program /\ ~Close /\ ~CloseViv
  BY <1>1, CallWay
<1>2. CASE Close
  BY <1>2, CloseWay DEF Way
<1>3. CASE CloseViv
  <2>1. At("closeViv") /\ NextRun
    BY <1>3 DEF CloseViv
  <2> QED
    BY <1>3, <2>1, EndOfRun DEF Way, At, Exited
<1>4. CASE Fails \/ Killed
  BY <1>4, GivesUp, GivesOut DEF Fails, Killed, Exited, Way
<1>5. CASE DrainFails
  <2>1. me'.runs = << >>
    BY <1>5 DEF DrainFails, Inv, Types, MeType
  <2> QED
    BY <2>1 DEF Live, Way, Ends
<1>6. CASE Others
  <2>1. me' = me
    BY <1>6, OthersStay
  <2> QED
    BY <1>6, <2>1 DEF Way
<1> QED
  BY <1>1, <1>2, <1>3, <1>4, <1>5, <1>6 DEF Next, Others
-----------------------------------------------------------------------------
(* What distinguishes the kinds. *)
LEMMA KindFacts ==
  ASSUME NEW g, Kind(g)
  PROVE  /\ HasNode(g) <=> Runner(g) \/ Copier(g) \/ Bench(g) \/ Feeder(g)
         /\ HasViv(g) <=> Copier(g) \/ Camera(g)
         /\ HasViv(g) <=> g.index = "camera"
         /\ g.depth > 0 <=> Runner(g)
         /\ Runner(g) => g.depth \in 1 .. N /\ g.after = << >>
         /\ ~Runner(g) => g.depth = 0
         /\ "submit" \in Calls(g.setup) <=> Feeder(g)
         /\ "submit" \in Calls(g.loop) <=> Runner(g) \/ Copier(g) \/ Bench(g)
         /\ HasNode(g) \/ HasViv(g)
         /\ "readMeta" \in Calls(g.loop) <=> Runner(g)
         /\ "tryMeta" \in Calls(g.setup) <=> Runner(g)
         /\ HasViv(g) => g.depth = 0 /\ "qViv" \in Calls(g.loop)
         /\ "submit" \in Calls(g.setup) => g.depth = 0 /\ "submit" \notin Calls(g.loop)
         /\ g.depth > 0 => "submit" \in Calls(g.loop)
<1> USE DEF HasNode, HasViv
<1>1. N \in Nat
  BY Constants
<1>2. CASE Runner(g)
  BY <1>1, <1>2 DEF Runner, Copier, Bench, Feeder, Camera, NodeSetup, Bare
<1>3. CASE Copier(g)
  BY <1>3 DEF Runner, Copier, Bench, Feeder, Camera, NodeSetup, VivSetup
<1>4. CASE Bench(g)
  BY <1>4 DEF Runner, Copier, Bench, Feeder, Camera, NodeSetup
<1>5. CASE Feeder(g)
  BY <1>5 DEF Runner, Copier, Bench, Feeder, Camera, NodeSetup
<1>6. CASE Camera(g)
  BY <1>6 DEF Runner, Copier, Bench, Feeder, Camera, NodeSetup, VivSetup
<1> QED
  BY <1>2, <1>3, <1>4, <1>5, <1>6 DEF Kind

LEMMA PastRank ==
  ASSUME NEW m \in MeType, NEW g, Plan(g), Kind(g), Placed(m, g), m.pc[1] = "loop",
         NEW x \in Calls(g.loop)
  PROVE  /\ Past(m, g, x) <=>
              Rank(x, g.depth > 0) < Rank(Part(g, "loop")[m.pc[2]], g.depth > 0)
         /\ Part(g, "loop")[m.pc[2]] \in Calls(g.loop)
         /\ Part(g, "loop")[m.pc[2]] \in LoopCalls
<1>1. Part(g, "loop") = g.loop /\ List(g.loop)
  BY PartOf DEF Phases
<1>2. PICK deep, k : deep = (g.depth > 0) /\ k = m.pc[2]
  OBVIOUS
<1>3. deep \in BOOLEAN /\ InTurn(g.loop, deep) /\ k \in 1 .. Len(g.loop)
  BY <1>1, <1>2 DEF Kind, Placed
<1>4. Called(g.loop, k, {x}) <=> Rank(x, deep) < Rank(g.loop[k], deep)
  BY <1>1, <1>3, InOrder
<1>5. g.loop[k] \in Calls(g.loop)
  BY <1>3 DEF Calls
<1> QED
  BY <1>1, <1>2, <1>4, <1>5, KindCalls DEF Past

(* In a turn: what has been made when the call c is due. *)
LEMMA NowRank ==
  ASSUME Inv, NEW c, At(c), Phase = "loop", NEW x \in Calls(Prog.loop)
  PROVE  Past(me, Prog, x) <=> Rank(x, Prog.depth > 0) < Rank(c, Prog.depth > 0)
<1>1. /\ me \in MeType /\ Plan(Prog) /\ Kind(Prog) /\ Placed(me, Prog)
      /\ c = Part(Prog, me.pc[1])[me.pc[2]]
  BY Where
<1> QED
  BY <1>1, PastRank DEF Phase

(* The runner submits last in a turn, the camera's buffer goes back last. *)
LEMMA LastCalls ==
  ASSUME NEW m \in MeType, NEW g, Plan(g), Kind(g), Placed(m, g)
  PROVE  /\ g.depth > 0 => ~Past(m, g, "submit")
         /\ HasViv(g) => ~Past(m, g, "qViv")
<1>1. CASE m.pc[1] # "loop"
  BY <1>1 DEF Past
<1>2. CASE m.pc[1] = "loop"
  <2>1. PICK c, deep : c = Part(g, "loop")[m.pc[2]] /\ deep = (g.depth > 0)
    OBVIOUS
  <2>2. \A x \in Calls(g.loop) :
          /\ Past(m, g, x) <=> Rank(x, deep) < Rank(c, deep)
          /\ c \in LoopCalls
    BY <1>2, <2>1, PastRank
  <2>3. ASSUME g.depth > 0 PROVE ~Past(m, g, "submit")
    <3>1. "submit" \in Calls(g.loop) /\ deep = TRUE
      BY <2>1, <2>3, KindFacts
    <3>2. c \in LoopCalls /\ Rank("submit", deep) = 12
      BY <2>2, <3>1 DEF Rank
    <3>3. Rank(c, deep) \in 1 .. 12
      BY <3>1, <3>2, Ranks
    <3>4. PICK a, b : a = Rank("submit", deep) /\ b = Rank(c, deep)
      OBVIOUS
    <3>5. ~(a < b)
      BY <3>2, <3>3, <3>4
    <3> QED
      BY <2>2, <3>1, <3>4, <3>5
  <2>4. ASSUME HasViv(g) PROVE ~Past(m, g, "qViv")
    <3>1. "qViv" \in Calls(g.loop) /\ g.depth = 0
      BY <2>4, KindFacts
    <3>0. ~deep
      <4>1. ASSUME NEW y, y = g.depth PROVE (y > 0) = FALSE
        BY <3>1, <4>1
      <4> QED
        BY <2>1, <4>1, Zenon
    <3>2. c \in LoopCalls /\ Rank("qViv", deep) = 10
      BY <2>2, <3>1 DEF Rank
    <3>3. Rank(c, deep) \in 1 .. 10
      BY <3>0, <3>2 DEF Rank, LoopCalls
    <3>4. PICK a, b : a = Rank("qViv", deep) /\ b = Rank(c, deep)
      OBVIOUS
    <3>5. ~(a < b)
      BY <3>2, <3>3, <3>4
    <3> QED
      BY <2>2, <3>1, <3>4, <3>5
  <2> QED
    BY <2>3, <2>4
<1> QED
  BY <1>1, <1>2

(* The counters of the runner's two loops. *)
Counters ==
  Live =>
    /\ Phase = "fill" => me.i = 0 /\ me.sent < Prog.depth /\ me.sent < Prog.frames
    /\ Prog.depth > 0 /\ Phase = "setup" => me.sent = 0
    /\ Prog.depth > 0 /\ Phase = "loop" => me.sent <= me.i + Prog.depth

LEMMA MadeFacts ==
  ASSUME Inv, Inv', NEW c, NEW s, Makes(c, s)
  PROVE  /\ me \in MeType /\ me' \in MeType /\ Plan(Prog) /\ Kind(Prog)
         /\ Placed(me, Prog) /\ Placed(me', Prog) /\ s \in {0, 1}
         /\ me.i \in Nat /\ me.sent \in Nat /\ me'.i \in Nat /\ me'.sent \in Nat
         /\ Prog.depth \in Nat /\ Prog.frames \in Nat /\ Prog' = Prog
         /\ me.pc[1] \in Phases /\ me'.pc[1] \in Phases /\ me.pc[1] = Phase
         /\ me'.pc[1] = Phase' /\ Phase # "cleanup"
         /\ me'.sent = me.sent + s /\ Id(0)' = Id(0)
<1>1. At(c) /\ me'.runs # << >> /\ Prog' = Prog /\ me'.runs = me.runs
  BY DEF Makes
<1>2. me \in MeType /\ Plan(Prog) /\ Kind(Prog) /\ Placed(me, Prog)
  BY <1>1, Where
<1>3. me' \in MeType /\ Placed(me', Prog)
  BY <1>1 DEF Inv, Types, Place
<1>4. Prog.depth \in Nat /\ Prog.frames \in Nat
  BY <1>2, Constants DEF Plan
<1> QED
  BY <1>1, <1>2, <1>3, <1>4, MeFields DEF Makes, Forward, Live, Phase, Id

LEMMA CountersNext ==
  ASSUME Inv, Inv', Counters, Way
  PROVE  Counters'
<1>1. CASE me' = me
  BY <1>1 DEF Counters, Live, Phase, Prog
<1>2. CASE Ends
  BY <1>2 DEF Counters, Ends
<1>3. CASE NewRun
  BY <1>3 DEF NewRun, Counters, Phase
<1>4. ASSUME NEW c, NEW s, Makes(c, s) PROVE Counters'
  <2>1. PICK m, n, g : m = me /\ n = me' /\ g = Prog
    OBVIOUS
  <2>2. /\ m \in MeType /\ n \in MeType /\ Plan(g) /\ Kind(g) /\ Placed(m, g)
        /\ Placed(n, g) /\ s \in {0, 1} /\ m.i \in Nat /\ m.sent \in Nat
        /\ n.i \in Nat /\ n.sent \in Nat /\ g.depth \in Nat /\ g.frames \in Nat
        /\ m.pc[1] \in Phases /\ m.pc[1] # "cleanup" /\ n.sent = m.sent + s
        /\ Prog' = g /\ m.pc[1] = Phase
    BY <1>4, <2>1, MadeFacts
  <2>3. Forward(m, n, g, c, s) /\ At(c) /\ (s = 1 => c = "submit")
    BY <1>4, <2>1 DEF Makes
  <2>4. /\ m.pc[1] = "fill" => m.i = 0 /\ m.sent < g.depth /\ m.sent < g.frames
        /\ g.depth > 0 /\ m.pc[1] = "setup" => m.sent = 0
        /\ g.depth > 0 /\ m.pc[1] = "loop" => m.sent <= m.i + g.depth
        /\ m.pc[1] = "setup" => m.i = 0
        /\ m.pc[1] = "after" => g.after # << >>
    BY <1>4, <2>1, <2>2 DEF Counters, Phase, Placed, Makes
  <2>5. n.pc[1] = "fill" => n.i = 0 /\ n.sent < g.depth /\ n.sent < g.frames
    BY <2>3, <2>4 DEF Forward, SameTurn, NewTurn
  <2>6. g.depth > 0 /\ n.pc[1] = "setup" => n.sent = 0
    <3> SUFFICES ASSUME g.depth > 0, n.pc[1] = "setup" PROVE n.sent = 0
      OBVIOUS
    <3>1. m.pc[1] = "setup"
      BY <2>3 DEF Forward
    <3>2. c # "submit"
      BY <2>1, <2>2, <2>3, <3>1, Where, KindFacts
    <3> QED
      BY <2>2, <2>3, <2>4, <3>1, <3>2
  <2>7. g.depth > 0 /\ n.pc[1] = "loop" => n.sent <= n.i + g.depth
    <3> SUFFICES ASSUME g.depth > 0, n.pc[1] = "loop" PROVE n.sent <= n.i + g.depth
      OBVIOUS
    <3>1. CASE m.pc[1] \in {"setup", "fill"}
      <4>1. n.i = 0 /\ m.sent < g.depth
        BY <2>2, <2>3, <2>4, <3>1 DEF Forward, SameTurn, NewTurn
      <4> QED
        BY <2>2, <4>1
    <3>2. CASE m.pc[1] = "loop" /\ SameTurn(m, n, g, c)
      <4>1. ~Past(n, g, "submit")
        BY <2>2, LastCalls
      <4>2. c # "submit" /\ n.i = m.i
        BY <3>2, <4>1 DEF SameTurn
      <4> QED
        BY <2>2, <2>3, <2>4, <3>2, <4>2
    <3>3. CASE m.pc[1] = "loop" /\ NewTurn(m, n, g, c)
      <4>1. n.i = m.i + 1
        BY <3>3 DEF NewTurn
      <4> QED
        BY <2>2, <2>4, <3>3, <4>1
    <3>4. m.pc[1] # "after"
      BY <2>2, <2>4, KindFacts
    <3> QED
      BY <2>2, <2>3, <3>1, <3>2, <3>3, <3>4 DEF Forward, Phases
  <2> QED
    BY <2>1, <2>2, <2>5, <2>6, <2>7 DEF Counters, Phase
<1> QED
  BY <1>1, <1>2, <1>3, <1>4 DEF Way

(* The frame that is submitted is the one after those submitted so far. *)
LEMMA SentNext ==
  ASSUME Inv, Inv', NEW c, NEW s, Makes(c, s), HasNode(Prog)
  PROVE  /\ Sent(me', Prog) = Sent(me, Prog) + s
         /\ s = 1 => Sent(me, Prog) = IF Prog.depth > 0 THEN me.sent ELSE me.i
         /\ Sent(me, Prog) \in Nat
<1>1. PICK m, n, g : m = me /\ n = me' /\ g = Prog
  OBVIOUS
<1>2. /\ m \in MeType /\ n \in MeType /\ Plan(g) /\ Kind(g) /\ Placed(m, g)
      /\ Placed(n, g) /\ s \in {0, 1} /\ m.i \in Nat /\ m.sent \in Nat
      /\ n.i \in Nat /\ n.sent \in Nat /\ g.depth \in Nat
      /\ m.pc[1] \in Phases /\ m.pc[1] # "cleanup" /\ n.sent = m.sent + s
      /\ m.pc[1] = Phase
  BY <1>1, MadeFacts
<1>3. /\ Forward(m, n, g, c, s) /\ At(c) /\ (s = 1 => c = "submit")
      /\ s = 0 /\ c = "submit" => ~Submits
  BY <1>1 DEF Makes
<1>4. CASE g.depth > 0
  BY <1>1, <1>2, <1>4 DEF Sent
<1>5. CASE g.depth = 0 /\ "submit" \in Calls(g.loop)
  <2>1. c = "submit" => m.pc[1] = "loop" /\ s = 1
    <3>1. "submit" \notin Calls(g.setup)
      BY <1>2, <1>5, KindFacts
    <3>2. m.pc[1] = "fill" => g.depth # 0
      BY <1>2 DEF Placed
    <3>3. Submits
      BY <1>1, <1>5 DEF Submits
    <3> QED
      BY <1>1, <1>2, <1>3, <1>5, <3>1, <3>2, <3>3, Where DEF Phases, Quits
  <2>2. /\ Sent(m, g) = Done(m, g, "submit") /\ Sent(n, g) = Done(n, g, "submit")
        /\ Done(m, g, "submit") \in Nat
    BY <1>2, <1>5 DEF Sent, Done
  <2>3. Done(n, g, "submit") = Done(m, g, "submit") +
          (IF m.pc[1] = "loop" /\ "submit" = c THEN 1 ELSE 0)
    BY <1>3, <1>5 DEF Forward
  <2>4. c = "submit" => ~Past(m, g, "submit")
    <3> SUFFICES ASSUME c = "submit" PROVE ~Past(m, g, "submit")
      OBVIOUS
    <3>0. PICK deep : deep = (g.depth > 0)
      OBVIOUS
    <3>1. Past(m, g, "submit") <=> Rank("submit", deep) < Rank(c, deep)
      BY <1>1, <1>2, <1>3, <1>5, <2>1, <3>0, NowRank
    <3>2. Rank("submit", deep) \in 1 .. 12
      <4>1. deep \in BOOLEAN /\ "submit" \in LoopCalls
        BY <3>0 DEF LoopCalls
      <4> QED
        BY <4>1, Ranks
    <3> QED
      BY <3>1, <3>2
  <2> QED
    BY <1>1, <1>2, <1>3, <1>5, <2>1, <2>2, <2>3, <2>4 DEF Done
<1>6. CASE g.depth = 0 /\ "submit" \notin Calls(g.loop)
  <2>1. "submit" \in Calls(g.setup)
    BY <1>1, <1>2, <1>6, KindFacts
  <2>2. c = "submit" => m.pc[1] = "setup" /\ s = 1
    <3>1. m.pc[1] = "fill" => g.depth # 0
      BY <1>2 DEF Placed
    <3>2. Submits
      BY <1>1, <1>6 DEF Submits
    <3> QED
      BY <1>1, <1>2, <1>3, <1>6, <3>1, <3>2, Where DEF Phases, Quits
  <2>3. Ready(n, g, "submit") <=>
          Ready(m, g, "submit") \/ (m.pc[1] = "setup" /\ "submit" = c)
    BY <1>3, <2>1 DEF Forward
  <2>4. c = "submit" => ~Ready(m, g, "submit") /\ m.i = 0
    <3> SUFFICES ASSUME c = "submit" PROVE ~Ready(m, g, "submit") /\ m.i = 0
      OBVIOUS
    <3>1. m.pc[1] = "setup" /\ m.i = 0
      BY <1>2, <2>2 DEF Placed
    <3>2. Part(g, "setup") = g.setup /\ List(g.setup)
      BY <1>2, PartOf DEF Phases
    <3>3. Staged(g.setup) /\ m.pc[2] \in 1 .. Len(g.setup) /\ g.setup[m.pc[2]] = "submit"
      BY <1>1, <1>2, <1>3, <3>1, <3>2, Where DEF Kind, Placed
    <3>4. ~Called(g.setup, m.pc[2], {"submit"})
      BY <1>2, <2>1, <3>2, <3>3, InStages, KindCalls
    <3> QED
      BY <3>1, <3>4 DEF Ready
  <2>5. /\ Sent(m, g) = (IF Ready(m, g, "submit") THEN 1 ELSE 0)
        /\ Sent(n, g) = (IF Ready(n, g, "submit") THEN 1 ELSE 0)
    BY <1>6 DEF Sent
  <2> QED
    BY <1>1, <1>2, <1>3, <1>6, <2>2, <2>3, <2>4, <2>5
<1> QED
  BY <1>2, <1>4, <1>5, <1>6
-----------------------------------------------------------------------------
(* What is taken from a queue and put on it. *)
Took(p, q) ==
  /\ Len(q) \in Nat /\ Len(p) = Len(q) + 1 /\ DOMAIN q = 1 .. Len(q)
  /\ DOMAIN p = 1 .. Len(p) /\ \A k \in 1 .. Len(q) : q[k] = p[k + 1]
Put(p, x, q) ==
  /\ Len(p) \in Nat /\ Len(q) = Len(p) + 1 /\ DOMAIN q = 1 .. Len(q)
  /\ DOMAIN p = 1 .. Len(p) /\ q[Len(p) + 1] = x
  /\ \A k \in 1 .. Len(p) : q[k] = p[k]

LEMMA Takes ==
  ASSUME NEW S, NEW p \in Seq(S), p # << >>
  PROVE  Took(p, Tail(p)) /\ Head(p) = p[1] /\ 1 \in 1 .. Len(p)
  BY DEF Took

LEMMA Puts ==
  ASSUME NEW S, NEW p \in Seq(S), NEW x \in S
  PROVE  Put(p, x, Append(p, x))
  BY DEF Put

(* The steps that change the queues of frames in flight. *)
QueuesKept == node'.outQ = node.outQ /\ node'.capDone = node.capDone
LEMMA QueueSteps ==
  ASSUME Inv, [Next]_vars
  PROVE  \/ QueuesKept \/ Submit \/ RunJob \/ DequeueCapture \/ OpenNode
         \/ StopOutput \/ StopCapture \/ Close
<1>1. node \in NodeType
  BY Kept
<1>2. CASE \/ Plain \/ FillHeap \/ OpenMeta \/ Export \/ SubmitNone \/ ReadMeta
           \/ WriteRow \/ Verify \/ OpenViv \/ RequestViv
  BY <1>2 DEF Plain, FillHeap, OpenMeta, Export, SubmitNone, ReadMeta, WriteRow,
     Verify, OpenViv, RequestViv, QueuesKept
<1>3. CASE \/ MapSlots \/ QueueSlots \/ RequeueViv \/ StreamOnViv \/ DequeueViv
           \/ Remap \/ StopViv \/ CloseMeta \/ CloseViv
  BY <1>3 DEF MapSlots, QueueSlots, RequeueViv, QueueViv, StreamOnViv, DequeueViv,
     Remap, StopViv, CloseMeta, CloseViv, QueuesKept
<1>4. CASE \/ Refused \/ Crashes \/ Fails \/ Killed \/ VividFill \/ VividSkip
           \/ DrainOpen \/ DrainFails \/ DrainRead \/ UNCHANGED vars \/ PublishForeign
  BY <1>4 DEF Refused, Crashes, Fails, Killed, Dies, VividFill, VividSkip, DrainOpen,
     DrainFails, DrainRead, vars, PublishForeign, QueuesKept
<1>5. CASE SetFormat \/ SetSequence
  BY <1>1, <1>5 DEF SetFormat, SetSequence, NodeType, QueuesKept
<1>6. CASE RequestBuffers
  <2>1. \/ \E x : node' = [node EXCEPT !.n.OUT = x, !.plane.OUT = node.size]
        \/ \E x : node' = [node EXCEPT !.n.CAP = x, !.plane.CAP = node.size]
    BY <1>6 DEF RequestBuffers
  <2> QED
    BY <1>1, <2>1 DEF NodeType, QueuesKept
<1>7. CASE QueueCaptures \/ RequeueCapture
  <2>1. \E x : node' = [node EXCEPT !.capQ = x]
    BY <1>7 DEF QueueCaptures, RequeueCapture
  <2> QED
    BY <1>1, <2>1 DEF NodeType, QueuesKept
<1>8. CASE StreamOn
  <2>1. \E x : node' = [node EXCEPT !.on = x]
    BY <1>8 DEF StreamOn
  <2> QED
    BY <1>1, <2>1 DEF NodeType, QueuesKept
<1>9. CASE DequeueOutput
  BY <1>1, <1>9 DEF DequeueOutput, NodeType, QueuesKept
<1> QED
  BY <1>2, <1>3, <1>4, <1>5, <1>6, <1>7, <1>8, <1>9 DEF Next, Program

(* Submit and RunJob, field by field. *)
FrameNo == IF Prog.depth > 0 THEN me.sent ELSE me.i
Sends(b) ==
  /\ b \in InType /\ b.idx = OutIndex /\ b.id = Id(FrameNo) /\ b.seq = node.seq
  /\ b.cell = <<Prog.mem, OutIndex>> /\ b.dropped = Drops(FrameNo)
  /\ node' = [node EXCEPT !.outQ = Append(node.outQ, b)]
  /\ Put(node.outQ, b, node'.outQ) /\ node'.capDone = node.capDone
LEMMA SubmitDoes ==
  ASSUME Inv, Submit
  PROVE  /\ \E b : Sends(b)
         /\ At("submit") /\ Call("submit") /\ Submits /\ me.runs # << >>
         /\ FrameNo \in 0 .. Frames - 1 /\ OutIndex \in Idx
         /\ mem' = Drawn(<<Prog.mem, OutIndex>>, FrameNo, Drops(FrameNo))
         /\ stamp' = (IF BothDevices THEN stamp
                      ELSE [stamp EXCEPT ![StampSlot(FrameNo)] = Id(FrameNo)])
         /\ UNCHANGED <<cur, slot, viv, metaVars, drain>>
<1>1. PICK no, cell, i, d :
        /\ no = FrameNo
        /\ i = OutIndex /\ cell = <<Prog.mem, i>> /\ d = Drops(no)
        /\ mem' = Drawn(cell, no, d)
        /\ node' = [node EXCEPT !.outQ = Append(@,
              [idx |-> i, id |-> Id(no), seq |-> node.seq, cell |-> cell,
               dropped |-> d])]
        /\ stamp' = IF BothDevices THEN stamp
                    ELSE [stamp EXCEPT ![StampSlot(no)] = Id(no)]
  BY Zenon DEF Submit, FrameNo
<1>2. /\ Call("submit") /\ At("submit") /\ Submits
      /\ UNCHANGED <<cur, slot, viv, metaVars, drain>>
  BY DEF Submit, Call
<1>3. /\ Plan(Prog) /\ me.i \in Nat /\ me.sent \in Nat /\ Len(me.runs) \in 1 .. 2
      /\ Prog.depth \in Nat /\ Prog.frames \in Nat /\ Prog.frames <= Frames
      /\ Prog.depth = 0 => me.i < Frames
  BY <1>2, SubmitCall
<1>4. no \in 0 .. Frames - 1
  BY <1>1, <1>2, <1>3, Constants DEF Submits, FrameNo
<1>5. Id(no) \in FrameIds
  BY <1>3, <1>4 DEF Id, FrameIds
<1>6. i \in Idx /\ cell \in Cells
  BY <1>1, <1>2, <1>3, OutIndexOk DEF Cells, Plan
<1>7. d \in BOOLEAN
  BY <1>1, Zenon DEF Drops
<1>8. node \in NodeType /\ node.seq \in Pixels /\ node.outQ \in Seq(InType)
  BY Kept DEF NodeType
<1>9. PICK b : b = [idx |-> i, id |-> Id(no), seq |-> node.seq, cell |-> cell,
                    dropped |-> d]
  OBVIOUS
<1>10. b \in InType
  BY <1>5, <1>6, <1>7, <1>8, <1>9 DEF InType
<1>11. node' = [node EXCEPT !.outQ = Append(node.outQ, b)]
  BY <1>1, <1>9
<1>12. node'.outQ = Append(node.outQ, b) /\ node'.capDone = node.capDone
  BY <1>8, <1>11 DEF NodeType
<1>13. Put(node.outQ, b, node'.outQ)
  BY <1>8, <1>10, <1>12, Puts
<1>14. Sends(b)
  BY <1>1, <1>9, <1>10, <1>11, <1>12, <1>13 DEF Sends
<1> QED
  BY <1>1, <1>2, <1>4, <1>6, <1>14 DEF At, Exited

Jobs(in, b) ==
  /\ in = node.outQ[1] /\ 1 \in 1 .. Len(node.outQ) /\ in \in InType /\ b \in DoneType
  /\ b.idx = Head(node.capQ) /\ b.id = in.id /\ b.seq = in.seq
  /\ b.dropped = in.dropped /\ b.pixels = (IF b.err THEN Blank ELSE mem[in.cell])
  /\ errs' = errs + (IF b.err THEN 1 ELSE 0)
  /\ Took(node.outQ, node'.outQ) /\ Put(node.capDone, b, node'.capDone)
  /\ Took(node.capQ, node'.capQ) /\ node.capQ[1] = b.idx /\ 1 \in 1 .. Len(node.capQ)
  /\ Put(node.outDone, [idx |-> in.idx], node'.outDone)
  /\ node' = [node EXCEPT !.outQ = node'.outQ, !.capQ = node'.capQ,
                !.outDone = node'.outDone, !.capDone = node'.capDone]
LEMMA RunJobDoes ==
  ASSUME Inv, RunJob
  PROVE  /\ \E in, b : Jobs(in, b)
         /\ UNCHANGED <<me, progVars, viv, mem, log, meta, rate, drain>>
<1>1. PICK in, err, c, px :
        /\ in = Head(node.outQ) /\ c = Head(node.capQ) /\ err \in BOOLEAN
        /\ px = (IF err THEN Blank ELSE mem[in.cell])
        /\ node' = [node EXCEPT !.outQ = Tail(@), !.capQ = Tail(@),
              !.outDone = Append(@, [idx |-> in.idx]),
              !.capDone = Append(@, [idx |-> c, id |-> in.id, seq |-> in.seq,
                            dropped |-> in.dropped, err |-> err, pixels |-> px])]
        /\ errs' = errs + (IF err THEN 1 ELSE 0)
  BY Zenon DEF RunJob
<1>2. /\ node.outQ # << >> /\ node.capQ # << >>
      /\ UNCHANGED <<me, progVars, viv, mem, log, meta, rate, drain>>
  BY DEF RunJob
<1>3. /\ node \in NodeType /\ node.outQ \in Seq(InType) /\ node.capQ \in Seq(Idx)
      /\ node.outDone \in Seq([idx : Idx]) /\ node.capDone \in Seq(DoneType)
      /\ mem \in [Cells -> Pixels]
  BY DEF Inv, Types, NodeType
<1>4. in \in InType /\ c \in Idx
  BY <1>1, <1>2, <1>3, SeqFacts
<1>5. /\ in.idx \in Idx /\ in.id \in FrameIds /\ in.seq \in Pixels /\ in.cell \in Cells
      /\ in.dropped \in BOOLEAN
  BY <1>4 DEF InType
<1>6. px \in Pixels
  <2>1. mem[in.cell] \in Pixels /\ Blank \in Pixels
    BY <1>3, <1>5, Constants
  <2> QED
    BY <1>1, <2>1, Zenon
<1>7. PICK a, b : /\ a = [idx |-> in.idx]
                  /\ b = [idx |-> c, id |-> in.id, seq |-> in.seq,
                          dropped |-> in.dropped, err |-> err, pixels |-> px]
  OBVIOUS
<1>8. a \in [idx : Idx] /\ b \in DoneType
  BY <1>1, <1>4, <1>5, <1>6, <1>7 DEF DoneType
<1>9. PICK q, r, y, z : /\ q = Append(node.outDone, a) /\ r = Append(node.capDone, b)
                        /\ y = Tail(node.outQ) /\ z = Tail(node.capQ)
  OBVIOUS
<1>10. Put(node.outDone, a, q)
  BY <1>3, <1>8, <1>9, Puts
<1>11. Put(node.capDone, b, r)
  BY <1>3, <1>8, <1>9, Puts
<1>12. Took(node.outQ, y) /\ in = node.outQ[1] /\ 1 \in 1 .. Len(node.outQ)
  BY <1>1, <1>2, <1>3, <1>9, Takes
<1>13. Took(node.capQ, z) /\ c = node.capQ[1] /\ 1 \in 1 .. Len(node.capQ)
  BY <1>1, <1>2, <1>3, <1>9, Takes
<1>14. node' = [node EXCEPT !.outQ = y, !.capQ = z, !.outDone = q, !.capDone = r]
  BY <1>1, <1>7, <1>9
<1>15. /\ node'.outQ = y /\ node'.capQ = z /\ node'.outDone = q /\ node'.capDone = r
  BY <1>3, <1>14 DEF NodeType
<1>16. /\ b.idx = c /\ b.id = in.id /\ b.seq = in.seq /\ b.dropped = in.dropped
       /\ b.pixels = px /\ b.err = err
  BY <1>7
<1>17. Jobs(in, b)
  BY <1>1, <1>4, <1>7, <1>8, <1>10, <1>11, <1>12, <1>13, <1>14, <1>15, <1>16 DEF Jobs
<1> QED
  BY <1>2, <1>17

(* Frames in flight: those completed and not dequeued, d, and those still  *)
(* queued, q, are the frames from t on, in order; r counts the runs left.  *)
Trail(t, sent, d, q, r) ==
  /\ t + Len(d) + Len(q) = sent
  /\ \A k \in 1 .. Len(d) : d[k].id = <<r, t + k - 1>>
  /\ \A k \in 1 .. Len(q) : q[k].id = <<r, t + Len(d) + k - 1>>

LEMMA TrailGrows ==
  ASSUME NEW t \in Nat, NEW sent, NEW d, NEW q, NEW r, Trail(t, sent, d, q, r),
         Len(d) \in Nat, NEW x, NEW p, Put(q, x, p), x.id = <<r, sent>>
  PROVE  Trail(t, sent + 1, d, p, r)
<1>1. PICK n, l, e : n = Len(q) /\ l = Len(p) /\ e = Len(d)
  OBVIOUS
<1>2. n \in Nat /\ l = n + 1 /\ e \in Nat /\ sent = t + e + n
  BY <1>1 DEF Trail, Put
<1>3. ASSUME NEW k \in 1 .. l PROVE p[k].id = <<r, t + e + k - 1>>
  <2>1. CASE k \in 1 .. n
    BY <1>1, <2>1 DEF Trail, Put
  <2>2. CASE k = n + 1
    <3>1. p[k] = x /\ t + e + k - 1 = sent
      BY <1>1, <1>2, <2>2 DEF Put
    <3> QED
      BY <3>1
  <2> QED
    BY <1>2, <2>1, <2>2
<1>4. t + e + l = sent + 1
  BY <1>2
<1>5. \A k \in 1 .. e : d[k].id = <<r, t + k - 1>>
  BY <1>1 DEF Trail
<1> QED
  BY ONLY <1>1, <1>3, <1>4, <1>5 DEF Trail

LEMMA TrailMoves ==
  ASSUME NEW t \in Nat, NEW sent, NEW d, NEW q, NEW r, Trail(t, sent, d, q, r),
         NEW x, NEW p, Put(d, x, p), NEW u, Took(q, u), x.id = q[1].id
  PROVE  Trail(t, sent, p, u, r)
<1>1. PICK e, l, n, v : e = Len(d) /\ l = Len(p) /\ n = Len(q) /\ v = Len(u)
  OBVIOUS
<1>2. /\ e \in Nat /\ l = e + 1 /\ v \in Nat /\ n = v + 1 /\ sent = t + e + n
      /\ 1 \in 1 .. n
  BY <1>1 DEF Trail, Put, Took
<1>3. ASSUME NEW k \in 1 .. l PROVE p[k].id = <<r, t + k - 1>>
  <2>1. CASE k \in 1 .. e
    BY <1>1, <2>1 DEF Trail, Put
  <2>2. CASE k = e + 1
    <3>1. p[k] = x /\ q[1].id = <<r, t + e + 1 - 1>>
      BY <1>1, <1>2, <2>2 DEF Put, Trail
    <3>2. t + e + 1 - 1 = t + k - 1
      BY <1>2, <2>2
    <3> QED
      BY <3>1, <3>2
  <2> QED
    BY <1>2, <2>1, <2>2
<1>4. ASSUME NEW k \in 1 .. v PROVE u[k].id = <<r, t + l + k - 1>>
  <2>1. u[k] = q[k + 1] /\ k + 1 \in 1 .. n
    BY <1>1, <1>2 DEF Took
  <2>2. q[k + 1].id = <<r, t + e + (k + 1) - 1>>
    BY <1>1, <2>1 DEF Trail
  <2>3. t + e + (k + 1) - 1 = t + l + k - 1
    BY <1>2
  <2> QED
    BY <2>1, <2>2, <2>3
<1>5. t + l + v = sent
  BY <1>2
<1> QED
  BY ONLY <1>1, <1>3, <1>4, <1>5 DEF Trail

LEMMA TrailShrinks ==
  ASSUME NEW t \in Nat, NEW sent, NEW d, NEW q, NEW r, Trail(t, sent, d, q, r),
         Len(q) \in Nat, NEW p, Took(d, p)
  PROVE  Trail(t + 1, sent, p, q, r) /\ d[1].id = <<r, t>>
<1>1. PICK e, l, n : e = Len(d) /\ l = Len(p) /\ n = Len(q)
  OBVIOUS
<1>2. l \in Nat /\ e = l + 1 /\ n \in Nat /\ sent = t + e + n /\ 1 \in 1 .. e
  BY <1>1 DEF Trail, Took
<1>3. ASSUME NEW k \in 1 .. l PROVE p[k].id = <<r, (t + 1) + k - 1>>
  <2>1. p[k] = d[k + 1] /\ k + 1 \in 1 .. e
    BY <1>1, <1>2 DEF Took
  <2>2. d[k + 1].id = <<r, t + (k + 1) - 1>>
    BY <1>1, <2>1 DEF Trail
  <2>3. t + (k + 1) - 1 = (t + 1) + k - 1
    OBVIOUS
  <2> QED
    BY <2>1, <2>2, <2>3
<1>4. ASSUME NEW k \in 1 .. n PROVE q[k].id = <<r, (t + 1) + l + k - 1>>
  <2>1. q[k].id = <<r, t + e + k - 1>>
    BY <1>1 DEF Trail
  <2>2. t + e + k - 1 = (t + 1) + l + k - 1
    BY <1>2
  <2> QED
    BY <2>1, <2>2
<1>5. d[1].id = <<r, t>>
  <2>1. d[1].id = <<r, t + 1 - 1>>
    BY <1>1, <1>2 DEF Trail
  <2> QED
    BY <2>1
<1>6. (t + 1) + l + n = sent
  BY <1>2
<1> QED
  BY <1>1, <1>3, <1>4, <1>5, <1>6 DEF Trail

Flight ==
  Live /\ HasNode(Prog) =>
    Trail(Done(me, Prog, "dqCap"), Sent(me, Prog), node.capDone, node.outQ, Len(me.runs))

(* Calls of the program that the node's queues depend on, at their place. *)
LEMMA DoneType1 ==
  ASSUME NEW m \in MeType, NEW g, NEW c
  PROVE  Done(m, g, c) \in Nat
  BY MeFields DEF Done

LEMMA SameCall ==
  ASSUME NEW c, NEW d, At(c), At(d)
  PROVE  c = d
  BY DEF At

(* Before the first frame. *)
LEMMA NothingSent ==
  ASSUME NEW m \in MeType, NEW g, Plan(g), Kind(g), Placed(m, g), m.pc[1] = "setup",
         m.pc[2] = 1 \/ g.setup[m.pc[2]] = "open", g.depth > 0 => m.sent = 0
  PROVE  Done(m, g, "dqCap") = 0 /\ Sent(m, g) = 0
<1>1. m.i = 0 /\ \A x : ~Past(m, g, x)
  BY DEF Placed, Past
<1>2. \A x : Done(m, g, x) = 0
  BY <1>1 DEF Done
<1>3. "submit" \in Calls(g.setup) => ~Ready(m, g, "submit")
  <2>1. CASE m.pc[2] = 1
    BY <2>1, CalledNone DEF Ready
  <2>2. CASE g.setup[m.pc[2]] = "open" /\ "submit" \in Calls(g.setup)
    <3>1. Part(g, "setup") = g.setup /\ List(g.setup)
      BY PartOf DEF Phases
    <3>2. Staged(g.setup) /\ m.pc[2] \in 1 .. Len(g.setup) /\ Calls(g.setup) \subseteq SetupNames
      BY <3>1, KindCalls DEF Kind, Placed
    <3>3. Stage("submit") = 8 /\ Stage("open") = 2
      BY DEF Stage
    <3>4. Called(g.setup, m.pc[2], {"submit"}) => Stage("submit") <= Stage("open")
      BY <2>2, <3>1, <3>2, InStages
    <3> QED
      BY <3>3, <3>4 DEF Ready
  <2> QED
    BY <2>1, <2>2
<1>4. "submit" \notin Calls(g.loop) /\ g.depth = 0 /\ HasNode(g) => "submit" \in Calls(g.setup)
  BY KindFacts
<1>5. "submit" \notin Calls(g.setup) => ~Ready(m, g, "submit")
  <2>1. Part(g, "setup") = g.setup /\ List(g.setup)
    BY PartOf DEF Phases
  <2>2. m.pc[2] \in 1 .. Len(g.setup) /\ Len(g.setup) \in Nat
    BY <2>1 DEF Placed, List
  <2> QED
    BY <2>2 DEF Ready, Called, Calls
<1> QED
  BY <1>2, <1>3, <1>5 DEF Sent

LEMMA FlightNext ==
  ASSUME Inv, Inv', Counters, Flight, Way, [Next]_vars
  PROVE  Flight'
<1> SUFFICES ASSUME Live', HasNode(Prog)' PROVE Flight'
  BY DEF Flight
<1>1. PICK d, q, e, p, r : /\ d = node.capDone /\ q = node.outQ /\ e = node'.capDone
                           /\ p = node'.outQ /\ r = Len(me.runs)
  OBVIOUS
<1>2. /\ node \in NodeType /\ d \in Seq(DoneType) /\ q \in Seq(InType)
      /\ Len(d) \in Nat /\ Len(q) \in Nat
  BY <1>1, Kept DEF NodeType
<1>3. CASE me' = me /\ Others
  <2>1. Live /\ HasNode(Prog) /\ Prog' = Prog
    BY <1>3 DEF Live, Prog, Phase
  <2>2. PICK t, s : t = Done(me, Prog, "dqCap") /\ s = Sent(me, Prog)
    OBVIOUS
  <2>3. Trail(t, s, d, q, r) /\ t \in Nat
    BY <1>1, <2>1, <2>2, DoneType1 DEF Flight, Inv, Types
  <2>4. Trail(t, s, e, p, r) => Flight'
    BY <1>1, <1>3, <2>1, <2>2 DEF Flight
  <2>5. CASE RunJob
    <3>1. PICK in, b : Jobs(in, b)
      BY <2>5, RunJobDoes
    <3>2. Took(q, p) /\ Put(d, b, e) /\ b.id = q[1].id
      BY <1>1, <3>1 DEF Jobs
    <3>3. Trail(t, s, e, p, r)
      BY ONLY <2>3, <3>2, TrailMoves
    <3> QED
      BY <2>4, <3>3
  <2>6. CASE ~RunJob
    <3>1. node' = node
      BY <1>3, <2>6 DEF Others, VividFill, VividSkip, PublishForeign, DrainOpen,
         DrainRead, vars
    <3> QED
      BY <1>1, <2>3, <2>4, <3>1
  <2> QED
    BY <2>5, <2>6
<1>4. CASE Ends
  BY <1>4 DEF Ends
<1>5. CASE NewRun
  <2>1. node' = ClosedNode /\ me' \in MeType /\ me'.runs # << >> /\ me'.sent = 0
        /\ me'.pc = <<"setup", 1>>
    BY <1>5 DEF NewRun, Close
  <2>2. Plan(Prog') /\ Kind(Prog') /\ Placed(me', Prog')
    <3>1. me'.runs \in Mains /\ Prog' = Programs[Head(me'.runs)]
      BY <2>1, MeFields DEF Prog
    <3> QED
      BY <2>1, <3>1, MainRuns, ProgramPlans, Kinds DEF Inv, Place
  <2>3. Done(me', Prog', "dqCap") = 0 /\ Sent(me', Prog') = 0
    BY <2>1, <2>2, NothingSent
  <2>4. e = << >> /\ p = << >>
    BY <1>1, <2>1 DEF ClosedNode
  <2>5. Trail(0, 0, << >>, << >>, Len(me'.runs))
    BY DEF Trail
  <2> QED
    BY <1>1, <2>3, <2>4, <2>5 DEF Flight
<1>6. ASSUME NEW c, NEW s, Makes(c, s), Acts(c, s), ~Others PROVE Flight'
  <2>1. PICK m, n, g : m = me /\ n = me' /\ g = Prog
    OBVIOUS
  <2>2. /\ m \in MeType /\ n \in MeType /\ Plan(g) /\ Kind(g) /\ Placed(m, g)
        /\ Prog' = g /\ Live /\ At(c) /\ me'.runs = me.runs /\ HasNode(g)
        /\ Forward(m, n, g, c, s) /\ s \in {0, 1}
    BY <1>6, <2>1, MadeFacts DEF Makes
  <2>3. PICK t, u : t = Done(m, g, "dqCap") /\ u = Sent(m, g)
    OBVIOUS
  <2>4. Trail(t, u, d, q, r) /\ t \in Nat
    BY <1>1, <2>1, <2>2, <2>3, DoneType1 DEF Flight
  <2>5. Sent(n, g) = u + s /\ u \in Nat /\ (s = 1 => u = FrameNo)
    BY <1>6, <2>1, <2>2, <2>3, SentNext DEF FrameNo
  <2>6. Done(n, g, "dqCap") = t + (IF c = "dqCap" THEN 1 ELSE 0)
    <3>1. "dqCap" \in Calls(g.loop)
      BY <2>2 DEF HasNode
    <3>2. c = "dqCap" => m.pc[1] = "loop"
      BY <2>1, <2>2, Where DEF Phase, SetupNames, NodeSetup, VivSetup, Quits, Phases
    <3> QED
      BY <2>2, <2>3, <3>1, <3>2 DEF Forward
  <2>7. \A x, y : /\ Trail(x, y, e, p, r) /\ x = Done(n, g, "dqCap") /\ y = Sent(n, g)
                    => Flight'
    BY <1>1, <2>1, <2>2 DEF Flight
  <2>8. CASE c = "submit" /\ s = 1
    <3>1. Submit
      BY <1>6, <2>8 DEF Acts
    <3>2. PICK b : Sends(b)
      BY <3>1, SubmitDoes
    <3>3. Put(q, b, p) /\ e = d /\ b.id = <<r, u>>
      BY <1>1, <2>5, <2>8, <3>2 DEF Sends, Id
    <3>4. Trail(t, u + 1, d, p, r)
      BY ONLY <1>2, <2>4, <3>3, TrailGrows
    <3>5. t + 0 = t
      BY <2>4
    <3> QED
      BY <2>5, <2>6, <2>7, <2>8, <3>3, <3>4, <3>5
  <2>9. CASE c = "dqCap"
    <3>1. DequeueCapture /\ s = 0
      BY <1>6, <2>2, <2>9 DEF Acts, Makes
    <3>2. d # << >> /\ node' = [node EXCEPT !.capDone = Tail(@)]
      BY <1>1, <3>1 DEF DequeueCapture
    <3>3. e = Tail(d) /\ p = q
      BY <1>1, <1>2, <3>2 DEF NodeType
    <3>4. Took(d, e)
      BY <1>2, <3>2, <3>3, Takes
    <3>5. Trail(t + 1, u, e, q, r)
      BY ONLY <1>2, <2>4, <3>4, TrailShrinks
    <3>6. u + 0 = u
      BY <2>5
    <3> QED
      BY <2>5, <2>6, <2>7, <2>9, <3>1, <3>3, <3>5, <3>6
  <2>10. CASE c = "open"
    <3>1. OpenNode /\ s = 0 /\ m.pc[1] = "setup" /\ g.setup[m.pc[2]] = "open"
      <4>1. "open" \in Prepares
        BY DEF Prepares, Formats
      <4> QED
        BY <1>6, <2>1, <2>2, <2>10, <4>1, SetupCall DEF Acts, Makes, Phase
    <3>2. e = << >> /\ p = << >>
      BY <1>1, <3>1 DEF OpenNode, ClosedNode
    <3>3. t = 0 /\ u = 0
      <4>1. g.depth > 0 => m.sent = 0
        BY <2>1, <2>2, <3>1 DEF Counters, Phase
      <4> QED
        BY <2>2, <2>3, <3>1, <4>1, NothingSent
    <3>4. Trail(0, 0, << >>, << >>, r)
      BY DEF Trail
    <3> QED
      BY <2>5, <2>6, <2>7, <2>10, <3>1, <3>2, <3>3, <3>4
  <2>11. CASE c # "open" /\ c # "dqCap" /\ ~(c = "submit" /\ s = 1)
    <3>1. Phase # "cleanup"
      BY <2>2 DEF Live
    <3>2. ~Submit
      <4>1. Submit => At("submit") /\ Submits
        BY DEF Submit, Call
      <4> QED
        BY <1>6, <2>2, <2>11, <4>1, SameCall DEF Makes
    <3>3. ~DequeueCapture /\ ~OpenNode
      BY <2>2, <2>11, SameCall DEF DequeueCapture, OpenNode, Call
    <3>4. ~RunJob
      BY <1>6 DEF Others
    <3>5. ~StopOutput /\ ~StopCapture /\ ~Close
      <4>1. \A x \in {"offOut", "offCap", "close"} : c # x
        BY <2>2, <3>1, Where DEF SetupNames, NodeSetup, VivSetup, LoopCalls, Phases
      <4> QED
        BY <2>2, <4>1, SameCall DEF StopOutput, StopCapture, Close
    <3>6. QueuesKept
      BY <3>2, <3>3, <3>4, <3>5, QueueSteps
    <3>7. s = 0
      BY <1>6, <2>2, <2>11 DEF Makes
    <3>8. e = d /\ p = q /\ u + 0 = u /\ t + 0 = t
      BY <1>1, <2>4, <2>5, <3>6 DEF QueuesKept
    <3> QED
      BY <2>4, <2>5, <2>6, <2>7, <2>11, <3>7, <3>8
  <2> QED
    BY <2>8, <2>9, <2>10, <2>11
<1> QED
  BY <1>3, <1>4, <1>5, <1>6 DEF Way
-----------------------------------------------------------------------------
(* Rows.  First, which steps change the loop's variables, the log, the     *)
(* reader, the drain and the count of failed jobs.                         *)
Silent == UNCHANGED <<cur, metaVars, drain>>
LEMMA SideSteps ==
  ASSUME [Next]_vars
  PROVE  \/ Silent \/ OpenMeta \/ DequeueCapture \/ DequeueOutput \/ ReadMeta \/ WriteRow
         \/ DequeueViv \/ StopCapture \/ CloseMeta \/ Close \/ CloseViv \/ RunJob
         \/ PublishForeign \/ DrainOpen \/ DrainFails \/ DrainRead
<1> USE DEF progVars, metaVars, Silent
<1>1. CASE \/ Plain \/ FillHeap \/ Export \/ SubmitNone \/ Verify \/ OpenNode \/ SetFormat
           \/ RequestBuffers
  BY <1>1 DEF Plain, FillHeap, Export, SubmitNone, Verify, OpenNode, SetFormat,
     RequestBuffers
<1>2. CASE \/ Submit \/ QueueCaptures \/ StreamOn \/ SetSequence \/ RequeueCapture
           \/ OpenViv \/ RequestViv \/ MapSlots
  BY <1>2 DEF Submit, QueueCaptures, StreamOn, SetSequence, RequeueCapture, OpenViv,
     RequestViv, MapSlots
<1>3. CASE \/ QueueSlots \/ RequeueViv \/ StreamOnViv \/ Remap \/ StopOutput \/ StopViv
           \/ Refused \/ Crashes \/ Fails \/ Killed \/ VividFill \/ VividSkip
           \/ UNCHANGED vars
  BY <1>3 DEF QueueSlots, RequeueViv, QueueViv, StreamOnViv, Remap, StopOutput, StopViv,
     Refused, Crashes, Fails, Killed, Dies, VividFill, VividSkip, vars
<1> QED
  BY <1>1, <1>2, <1>3 DEF Next, Program

(* What a finished buffer publishes. *)
RowOf(b) == [own |-> TRUE, id |-> b.id, dropped |-> b.dropped]
Grown(S) ==
  /\ log' \in Seq(Rows) /\ Len(log) <= Len(log')
  /\ \A k \in 1 .. Len(log) : log'[k] = log[k]
  /\ \A k \in Len(log) + 1 .. Len(log') : \E j \in S : log'[k] = RowOf(node.capDone[j])
LEMMA Finishes ==
  ASSUME log \in Seq(Rows), node \in NodeType, NEW S, S \subseteq DOMAIN node.capDone,
         Finish(S)
  PROVE  Grown(S)
<1>1. PICK s \in ByIndex(WithRow(S)) :
        log' = log \o [a \in DOMAIN s |->
                         [own |-> TRUE, id |-> node.capDone[s[a]].id,
                          dropped |-> node.capDone[s[a]].dropped]]
  BY DEF Finish
<1>2. PICK n : n = Cardinality(WithRow(S))
  OBVIOUS
<1>3. s \in [1 .. n -> WithRow(S)] /\ WithRow(S) \subseteq S
  BY <1>2 DEF ByIndex, WithRow
<1>4. n \in Nat
  <2>1. PICK L : L = Len(node.capDone)
    OBVIOUS
  <2>2. L \in Nat /\ DOMAIN node.capDone = 1 .. L
    <3>1. node.capDone \in Seq(DoneType)
      BY DEF NodeType
    <3> QED
      BY <2>1, <3>1, SeqFacts
  <2>3. IsFiniteSet(1 .. L) /\ WithRow(S) \subseteq 1 .. L
    <3>1. 1 \in Int /\ L \in Int
      BY <2>2
    <3> QED
      BY <1>3, <2>2, <3>1, FS_Interval
  <2>4. IsFiniteSet(WithRow(S))
    BY <2>3, FS_Subset
  <2> QED
    BY <1>2, <2>4, FS_CardinalityType
<1>5. PICK z : z = [a \in 1 .. n |-> [own |-> TRUE, id |-> node.capDone[s[a]].id,
                                      dropped |-> node.capDone[s[a]].dropped]]
  OBVIOUS
<1>6. /\ \A j \in S : node.capDone[j] \in DoneType
      /\ \A a \in 1 .. n : s[a] \in S
  <2>1. node.capDone \in Seq(DoneType)
    BY DEF NodeType
  <2> QED
    BY <1>3, <2>1, SeqFacts
<1>7. \A a \in 1 .. n : z[a] \in Rows /\ z[a] = RowOf(node.capDone[s[a]])
  <2>1. \A b \in DoneType : RowOf(b) \in Rows
    BY FrameIdsAreIds DEF DoneType, Rows, RowOf
  <2>2. \A a \in 1 .. n : z[a] = RowOf(node.capDone[s[a]])
    BY <1>5 DEF RowOf
  <2> QED
    BY <1>6, <2>1, <2>2
<1>8. z \in Seq(Rows) /\ Len(z) = n
  BY <1>4, <1>5, <1>7
<1>9. log' = log \o z
  BY <1>1, <1>3, <1>5
<1>10. PICK l : l = Len(log) /\ l \in Nat
  OBVIOUS
<1>11. /\ log' \in Seq(Rows) /\ Len(log') = l + n
       /\ \A k \in 1 .. l : log'[k] = log[k]
       /\ \A k \in l + 1 .. l + n : log'[k] = z[k - l]
  BY <1>8, <1>9, <1>10
<1>12. ASSUME NEW k \in l + 1 .. l + n
       PROVE  \E j \in S : log'[k] = RowOf(node.capDone[j])
  <2>1. k - l \in 1 .. n
    BY <1>4, <1>10
  <2>2. log'[k] = RowOf(node.capDone[s[k - l]]) /\ s[k - l] \in S
    BY <1>6, <1>7, <1>11, <2>1
  <2> QED
    BY <2>2
<1> QED
  BY <1>4, <1>10, <1>11, <1>12 DEF Grown

LEMMA FinishesNone ==
  ASSUME log \in Seq(Rows), node \in NodeType, Finish({})
  PROVE  Len(log') = Len(log) /\ Grown({})
<1>1. {} \subseteq DOMAIN node.capDone
  OBVIOUS
<1>2. Grown({})
  BY <1>1, Finishes
<1>3. PICK l, u : l = Len(log) /\ u = Len(log')
  OBVIOUS
<1>4. /\ log' \in Seq(Rows) /\ l \in Nat /\ u \in Nat /\ l <= u
      /\ \A k \in l + 1 .. u : FALSE
  BY <1>2, <1>3 DEF Grown
<1>5. u = l
  <2>1. u # l => u \in l + 1 .. u
    BY <1>4
  <2> QED
    BY <1>4, <2>1
<1> QED
  BY <1>2, <1>3, <1>5

LEMMA PutsLast ==
  ASSUME NEW S, NEW p \in Seq(S), NEW z \in Seq(S), Len(z) = 1
  PROVE  Put(p, z[1], p \o z)
<1>1. PICK w, l : w = p \o z /\ l = Len(p)
  OBVIOUS
<1>2. l \in Nat /\ w \in Seq(S) /\ Len(w) = l + 1
  <2>1. \A y \in Seq(S) : p \o y \in Seq(S) /\ Len(p \o y) = Len(p) + Len(y)
    OBVIOUS
  <2>2. l \in Nat
    BY <1>1
  <2> QED
    BY <1>1, <2>1, <2>2
<1>3. \A k \in 1 .. l : w[k] = p[k]
  BY <1>1
<1>4. w[l + 1] = z[1]
  BY <1>1, <1>2
<1> QED
  BY <1>1, <1>2, <1>3, <1>4 DEF Put

LEMMA FinishesOne ==
  ASSUME log \in Seq(Rows), node \in NodeType, Finish({1}), 1 \in DOMAIN node.capDone,
         ~node.capDone[1].err
  PROVE  Put(log, RowOf(node.capDone[1]), log')
<1>1. PICK s \in ByIndex(WithRow({1})) :
        log' = log \o [a \in DOMAIN s |->
                         [own |-> TRUE, id |-> node.capDone[s[a]].id,
                          dropped |-> node.capDone[s[a]].dropped]]
  BY DEF Finish
<1>2. WithRow({1}) = {1} /\ Cardinality({1}) = 1
  BY FS_Singleton DEF WithRow
<1>3. s \in [1 .. 1 -> {1}]
  BY <1>1, <1>2 DEF ByIndex
<1>4. DOMAIN s = 1 .. 1 /\ s[1] = 1
  BY <1>3
<1>6. PICK z : z = [a \in 1 .. 1 |-> [own |-> TRUE, id |-> node.capDone[s[a]].id,
                                      dropped |-> node.capDone[s[a]].dropped]]
  OBVIOUS
<1>7. log' = log \o z
  BY <1>1, <1>4, <1>6
<1>8. z[1] = RowOf(node.capDone[1]) /\ z[1] \in Rows
  <2>1. node.capDone \in Seq(DoneType)
    BY DEF NodeType
  <2>2. node.capDone[1] \in DoneType
    BY <2>1, SeqFacts
  <2>3. RowOf(node.capDone[1]) \in Rows
    BY <2>2, FrameIdsAreIds DEF DoneType, Rows, RowOf
  <2>4. z[1] = RowOf(node.capDone[1])
    <3>1. 1 \in 1 .. 1
      OBVIOUS
    <3>2. z[1] = [own |-> TRUE, id |-> node.capDone[s[1]].id,
                  dropped |-> node.capDone[s[1]].dropped]
      BY <1>6, <3>1
    <3> QED
      BY <1>4, <3>2 DEF RowOf
  <2> QED
    BY <2>3, <2>4
<1>9. z \in Seq(Rows) /\ Len(z) = 1
  BY <1>6, <1>8
<1>10. Put(log, z[1], log \o z)
  BY <1>9, PutsLast
<1> QED
  BY <1>7, <1>8, <1>10

(* Every buffer in flight is of the present run. *)
OursOf(q, r) == \A k \in 1 .. Len(q) : q[k].id[1] = r
Ours ==
  me.runs # << >> =>
    OursOf(node.outQ, Len(me.runs)) /\ OursOf(node.capDone, Len(me.runs))

LEMMA OursTook ==
  ASSUME NEW p, NEW q, NEW r, Took(p, q), OursOf(p, r)
  PROVE  OursOf(q, r)
<1>1. ASSUME NEW k \in 1 .. Len(q) PROVE q[k].id[1] = r
  <2>1. k + 1 \in 1 .. Len(p) /\ q[k] = p[k + 1]
    BY DEF Took
  <2> QED
    BY <2>1 DEF OursOf
<1> QED
  BY <1>1 DEF OursOf

LEMMA OursPut ==
  ASSUME NEW p, NEW x, NEW q, NEW r, Put(p, x, q), OursOf(p, r), x.id[1] = r
  PROVE  OursOf(q, r)
<1>1. ASSUME NEW k \in 1 .. Len(q) PROVE q[k].id[1] = r
  <2>1. \/ k \in 1 .. Len(p) /\ q[k] = p[k]
        \/ k = Len(p) + 1 /\ q[k] = x
    BY DEF Put
  <2> QED
    BY <2>1 DEF OursOf
<1> QED
  BY <1>1 DEF OursOf

LEMMA OursNone == \A r : OursOf(<< >>, r)
  BY DEF OursOf

LEMMA RunsStep == Way => me'.runs = << >> \/ me'.runs = me.runs \/ NewRun
  BY DEF Way, Ends, Makes

LEMMA OursNext ==
  ASSUME Inv, Ours, Way, [Next]_vars
  PROVE  Ours'
<1>1. node \in NodeType /\ node.outQ \in Seq(InType) /\ node.capDone \in Seq(DoneType)
  BY Kept DEF NodeType
<1>2. CASE NewRun
  <2>1. node'.outQ = << >> /\ node'.capDone = << >>
    BY <1>2 DEF NewRun, Close, ClosedNode
  <2> QED
    BY <2>1, OursNone DEF Ours
<1>3. CASE me'.runs = << >>
  BY <1>3 DEF Ours
<1>4. CASE me'.runs = me.runs /\ me.runs # << >>
  <2>1. PICK r : r = Len(me.runs)
    OBVIOUS
  <2>2. OursOf(node.outQ, r) /\ OursOf(node.capDone, r)
    BY <1>4, <2>1 DEF Ours
  <2>3. OursOf(node'.outQ, r) /\ OursOf(node'.capDone, r) => Ours'
    BY <1>4, <2>1 DEF Ours
  <2>4. CASE QueuesKept
    BY <2>2, <2>3, <2>4 DEF QueuesKept
  <2>5. CASE Submit
    <3>1. PICK b : Sends(b)
      BY <2>5, SubmitDoes
    <3>2. Put(node.outQ, b, node'.outQ) /\ node'.capDone = node.capDone /\ b.id[1] = r
      BY <2>1, <3>1 DEF Sends, Id
    <3> QED
      BY <2>2, <2>3, <3>2, OursPut
  <2>6. CASE RunJob
    <3>1. PICK in, b : Jobs(in, b)
      BY <2>6, RunJobDoes
    <3>2. /\ Took(node.outQ, node'.outQ) /\ Put(node.capDone, b, node'.capDone)
          /\ b.id = node.outQ[1].id /\ 1 \in 1 .. Len(node.outQ)
      BY <3>1 DEF Jobs
    <3>3. b.id[1] = r
      BY <2>2, <3>2 DEF OursOf
    <3> QED
      BY <2>2, <2>3, <3>2, <3>3, OursPut, OursTook
  <2>7. CASE DequeueCapture
    <3>1. node.capDone # << >> /\ node' = [node EXCEPT !.capDone = Tail(@)]
      BY <2>7 DEF DequeueCapture
    <3>2. node'.capDone = Tail(node.capDone) /\ node'.outQ = node.outQ
      BY <1>1, <3>1 DEF NodeType
    <3>3. Took(node.capDone, node'.capDone)
      BY <1>1, <3>1, <3>2, Takes
    <3> QED
      BY <2>2, <2>3, <3>2, <3>3, OursTook
  <2>8. CASE OpenNode \/ Close
    <3>1. node'.outQ = << >> /\ node'.capDone = << >>
      BY <2>8 DEF OpenNode, Close, ClosedNode
    <3> QED
      BY <2>3, <3>1, OursNone
  <2>9. CASE StopOutput \/ StopCapture
    <3>1. /\ node'.outQ = node.outQ \/ node'.outQ = << >>
          /\ node'.capDone = node.capDone \/ node'.capDone = << >>
      BY <1>1, <2>9 DEF StopOutput, StopCapture, NodeType
    <3> QED
      BY <2>2, <2>3, <3>1, OursNone
  <2> QED
    BY <2>4, <2>5, <2>6, <2>7, <2>8, <2>9, QueueSteps
<1> QED
  BY <1>2, <1>3, <1>4, RunsStep

(* Only a failed job leaves a failed buffer. *)
NoErr == errs = 0 => \A k \in 1 .. Len(node.capDone) : ~node.capDone[k].err

LEMMA CloseVivLast ==
  ASSUME Inv, CloseViv
  PROVE  ~(Len(me.runs) > 1)
<1>1. At("closeViv") /\ "closeViv" \in Closes
  BY DEF CloseViv, Closes
<1>2. /\ me.runs # << >> /\ Prog.cleanup[me.pc[2]] = "closeViv" /\ me \in MeType
      /\ me.pc[2] \in 1 .. Len(Prog.cleanup)
  BY <1>1, CloseCall DEF Inv, Types
<1>3. Head(me.runs) # "runOne"
  BY <1>2, RunnerNeverClosesViv DEF Prog
<1> QED
  BY <1>2, <1>3, Planned, MainRuns

LEMMA ErrsBack ==
  ASSUME Inv, [Next]_vars, errs' = 0
  PROVE  errs = 0 \/ Close
<1>1. errs \in Nat
  BY ToolsAssumption DEF Inv, Types
<1>2. CASE Silent \/ OpenMeta \/ DequeueCapture \/ DequeueOutput \/ ReadMeta \/ WriteRow
  BY <1>2 DEF Silent, metaVars, OpenMeta, DequeueCapture, DequeueOutput, ReadMeta, WriteRow
<1>3. CASE DequeueViv \/ StopCapture \/ CloseMeta
  BY <1>3 DEF metaVars, DequeueViv, StopCapture, CloseMeta
<1>4. CASE PublishForeign \/ DrainOpen \/ DrainFails \/ DrainRead
  BY <1>4 DEF metaVars, PublishForeign, DrainOpen, DrainFails, DrainRead
<1>5. CASE CloseViv
  <2>1. NextRun /\ ~(Len(me.runs) > 1)
    BY <1>5, CloseVivLast DEF CloseViv
  <2> QED
    BY <2>1 DEF NextRun
<1>6. CASE RunJob
  <2>1. PICK in, b : Jobs(in, b)
    BY <1>6, RunJobDoes
  <2>2. errs' = errs + (IF b.err THEN 1 ELSE 0)
    BY <2>1 DEF Jobs
  <2> QED
    BY <1>1, <2>2
<1> QED
  BY <1>2, <1>3, <1>4, <1>5, <1>6, SideSteps

LEMMA NoErrNext ==
  ASSUME Inv, NoErr, [Next]_vars
  PROVE  NoErr'
<1> SUFFICES ASSUME errs' = 0, NEW k \in 1 .. Len(node'.capDone)
             PROVE  ~node'.capDone[k].err
  BY DEF NoErr
<1>1. node \in NodeType /\ node.capDone \in Seq(DoneType)
  BY Kept DEF NodeType
<1>2. CASE OpenNode \/ Close \/ StopCapture
  <2>1. node'.capDone = << >>
    <3>1. CASE OpenNode \/ Close
      BY <3>1 DEF OpenNode, Close, ClosedNode
    <3>2. CASE StopCapture
      BY <1>1, <3>2 DEF StopCapture, NodeType
    <3> QED
      BY <1>2, <3>1, <3>2
  <2> QED
    BY <2>1
<1>3. CASE ~Close
  <2>1. errs = 0
    BY <1>3, ErrsBack
  <2>2. \A j \in 1 .. Len(node.capDone) : ~node.capDone[j].err
    BY <2>1 DEF NoErr
  <2>3. CASE QueuesKept \/ Submit \/ StopOutput
    <3>1. node'.capDone = node.capDone
      <4>1. Submit => node'.capDone = node.capDone
        BY SubmitDoes DEF Sends
      <4> QED
        BY <1>1, <2>3, <4>1 DEF QueuesKept, StopOutput, NodeType
    <3> QED
      BY <2>2, <3>1
  <2>4. CASE DequeueCapture
    <3>1. node.capDone # << >> /\ node' = [node EXCEPT !.capDone = Tail(@)]
      BY <2>4 DEF DequeueCapture
    <3>2. node'.capDone = Tail(node.capDone)
      BY <1>1, <3>1 DEF NodeType
    <3>3. Took(node.capDone, node'.capDone)
      BY <1>1, <3>1, <3>2, Takes
    <3>4. k + 1 \in 1 .. Len(node.capDone) /\ node'.capDone[k] = node.capDone[k + 1]
      BY <3>3 DEF Took
    <3> QED
      BY <2>2, <3>4
  <2>5. CASE RunJob
    <3>1. PICK in, b : Jobs(in, b)
      BY <2>5, RunJobDoes
    <3>2. Put(node.capDone, b, node'.capDone) /\ errs' = errs + (IF b.err THEN 1 ELSE 0)
      BY <3>1 DEF Jobs
    <3>3. ~b.err
      BY <2>1, <3>2
    <3>4. \/ k \in 1 .. Len(node.capDone) /\ node'.capDone[k] = node.capDone[k]
          \/ node'.capDone[k] = b
      BY <3>2 DEF Put
    <3> QED
      BY <2>2, <3>3, <3>4
  <2> QED
    BY <1>2, <1>3, <2>3, <2>4, <2>5, QueueSteps
<1> QED
  BY <1>2, <1>3

(* The runner's reader: it is open from tryMeta to closeMeta of a run, and *)
(* sees rows of that run or of other contexts.                             *)
RowsOurs == \A k \in meta.from + 1 .. Len(log) : log[k].own => log[k].id[1] = Len(me.runs)
MetaOk ==
  /\ meta.from <= meta.pos
  /\ meta.open /\ me.runs # << >> =>
       /\ Runner(Prog) /\ RowsOurs
       /\ Phase = "cleanup" => ~Called(Prog.cleanup, me.pc[2], {"closeMeta"})
  /\ cur.read /\ me.runs # << >> /\ cur.row.own => cur.row.id[1] = Len(me.runs)

LEMMA LogSteps ==
  ASSUME Inv, [Next]_vars
  PROVE  log' = log \/ Grown(1 .. Len(node.capDone)) \/ PublishForeign
<1>1. log \in Seq(Rows) /\ node \in NodeType /\ node.capDone \in Seq(DoneType)
  BY Kept DEF MetaTypes, NodeType
<1>2. DOMAIN node.capDone = 1 .. Len(node.capDone)
  BY <1>1, SeqFacts
<1>3. CASE StopCapture \/ Close
  <2>1. Finish(DOMAIN node.capDone)
    BY <1>3 DEF StopCapture, Close
  <2> QED
    BY <1>1, <1>2, <2>1, Finishes
<1>4. CASE DequeueCapture
  <2>1. Finish({1}) /\ node.capDone # << >>
    BY <1>4 DEF DequeueCapture
  <2>2. {1} \subseteq 1 .. Len(node.capDone)
    BY <1>1, <2>1, Takes
  <2>3. Grown({1})
    BY <1>1, <1>2, <2>1, <2>2, Finishes
  <2> QED
    BY <2>2, <2>3 DEF Grown
<1>5. CASE Silent \/ OpenMeta \/ DequeueOutput \/ ReadMeta \/ WriteRow \/ DequeueViv
  BY <1>5 DEF Silent, metaVars, OpenMeta, DequeueOutput, ReadMeta, WriteRow, DequeueViv
<1>6. CASE CloseMeta \/ CloseViv \/ RunJob \/ DrainOpen \/ DrainFails \/ DrainRead
  BY <1>6 DEF metaVars, CloseMeta, CloseViv, RunJob, DrainOpen, DrainFails, DrainRead
<1> QED
  BY <1>3, <1>4, <1>5, <1>6, SideSteps

LEMMA ForeignRow ==
  ASSUME Inv, PublishForeign
  PROVE  Put(log, NoRow, log') /\ ~NoRow.own
<1>1. log \in Seq(Rows) /\ NoRow \in Rows
  BY Kept, Constants DEF MetaTypes
<1>2. log' = Append(log, NoRow)
  BY DEF PublishForeign
<1>3. Put(log, NoRow, Append(log, NoRow))
  BY <1>1, Puts
<1> QED
  BY <1>2, <1>3 DEF NoRow

(* Rows published while a run lasts are its own or foreign. *)
LEMMA RowsStayOurs ==
  ASSUME Inv, Ours, RowsOurs, me.runs # << >>, me'.runs = me.runs, meta'.from = meta.from,
         [Next]_vars
  PROVE  RowsOurs'
<1>1. PICK f, l, u, r : f = meta.from /\ l = Len(log) /\ u = Len(log') /\ r = Len(me.runs)
  OBVIOUS
<1>2. l \in Nat /\ f \in Nat
  BY <1>1, Kept DEF MetaTypes, MetaType
<1> SUFFICES ASSUME NEW k \in f + 1 .. u, log'[k].own PROVE log'[k].id[1] = r
  BY <1>1 DEF RowsOurs
<1>3. \A j \in f + 1 .. l : log[j].own => log[j].id[1] = r
  BY <1>1 DEF RowsOurs
<1>4. CASE log' = log
  BY <1>1, <1>3, <1>4
<1>5. CASE Grown(1 .. Len(node.capDone))
  <2>1. \/ k \in f + 1 .. l /\ log'[k] = log[k]
        \/ \E j \in 1 .. Len(node.capDone) : log'[k] = RowOf(node.capDone[j])
    <3>1. k <= l => k \in 1 .. l
      BY <1>2
    <3>2. ~(k <= l) => k \in l + 1 .. u
      BY <1>2
    <3> QED
      BY <1>1, <1>2, <1>5, <3>1, <3>2 DEF Grown
  <2>2. \A j \in 1 .. Len(node.capDone) : node.capDone[j].id[1] = r
    BY <1>1 DEF Ours, OursOf
  <2>3. \A b : RowOf(b).id = b.id
    BY DEF RowOf
  <2> QED
    BY <1>3, <2>1, <2>2, <2>3
<1>6. CASE PublishForeign
  <2>1. Put(log, NoRow, log') /\ ~NoRow.own
    BY <1>6, ForeignRow
  <2>2. \/ k \in f + 1 .. l /\ log'[k] = log[k]
        \/ log'[k] = NoRow
    BY <1>1, <1>2, <2>1 DEF Put
  <2> QED
    BY <1>3, <2>1, <2>2
<1> QED
  BY <1>4, <1>5, <1>6, LogSteps

(* The place in the cleanup. *)
LEMMA InCleanup ==
  ASSUME Inv, Way, me'.runs # << >>, Phase' = "cleanup"
  PROVE  /\ me'.runs = me.runs /\ Prog' = Prog
         /\ \/ me'.pc[2] = 1 \/ me' = me \/ Dies
            \/ \E c : /\ Phase = "cleanup" /\ At(c) /\ me'.pc[2] = me.pc[2] + 1
                      /\ c = Prog.cleanup[me.pc[2]]
                      /\ c = "closeMeta" => CloseMeta
<1>1. CASE me' = me
  BY <1>1 DEF Prog
<1>2. CASE Ends
  <2>1. me'.runs = me.runs /\ Prog' = Prog
    BY <1>2 DEF Ends, Prog
  <2>2. CASE me'.pc = <<"cleanup", 1>>
    BY <2>1, <2>2
  <2>3. CASE me'.pc # <<"cleanup", 1>> /\ ~Dies
    <3>1. PICK c : /\ Phase = "cleanup" /\ At(c) /\ me'.pc = <<"cleanup", me.pc[2] + 1>>
                   /\ c = "closeMeta" => CloseMeta
      BY <1>2, <2>3 DEF Ends
    <3>2. c = Prog.cleanup[me.pc[2]] /\ me'.pc[2] = me.pc[2] + 1
      BY <3>1 DEF At, Body
    <3> QED
      BY <2>1, <3>1, <3>2
  <2> QED
    BY <2>1, <2>2, <2>3
<1>3. CASE NewRun
  BY <1>3 DEF NewRun, Phase
<1>4. ASSUME NEW c, NEW s, Makes(c, s)
      PROVE  me'.runs = me.runs /\ Prog' = Prog /\ me'.pc[2] = 1
  <2>1. Phase # "cleanup"
    BY <1>4 DEF Makes, Live
  <2> QED
    BY <1>4, <2>1 DEF Makes, Forward, Phase
<1> QED
  BY <1>1, <1>2, <1>3, <1>4 DEF Way

(* A signal leaves the metadata device to be closed. *)
LEMMA NotYetClosed ==
  ASSUME Inv, Dies, me.runs # << >>,
         Phase = "cleanup" => ~Called(Prog.cleanup, me.pc[2], {"closeMeta"})
  PROVE  ~Called(Prog.cleanup, me'.pc[2], {"closeMeta"})
<1>1. PICK f, p : f = (IF Phase = "cleanup" THEN me.pc[2] ELSE 1) /\ p = Prog.cleanup
  OBVIOUS
<1>2. PICK k \in f .. Len(p) :
        /\ \A j \in f .. k - 1 : p[j] \notin Closing
        /\ me' = [me EXCEPT !.why = "killed", !.pc = <<"cleanup", k>>]
  BY <1>1 DEF Dies
<1>3. me'.pc[2] = k
  BY <1>2 DEF Inv, Types, MeType
<1>4. f \in Nat /\ f >= 1
  <2>1. me.pc[2] \in Nat /\ me.pc[2] \in 1 .. Len(Part(Prog, me.pc[1]))
    BY MeFields DEF Inv, Types, Place, Placed
  <2> QED
    BY <1>1, <2>1
<1>5. ~Called(p, f, {"closeMeta"})
  BY <1>1, CalledNone
<1>6. \A j \in f .. k - 1 : p[j] # "closeMeta"
  BY <1>2 DEF Closing
<1>7. ~Called(p, k, {"closeMeta"})
  <2>1. f \in Nat /\ k \in f .. Len(p) /\ \A j \in 1 .. f - 1 : p[j] # "closeMeta"
    BY <1>2, <1>4, <1>5 DEF Called
  <2> QED
    BY <1>6, <2>1 DEF Called
<1> QED
  BY <1>1, <1>3, <1>7

(* The runner closes the metadata device before the node. *)
LEMMA ClosedBefore ==
  ASSUME Inv, NewRun
  PROVE  Called(Prog.cleanup, me.pc[2], {"closeMeta"}) /\ Phase = "cleanup" /\ me.runs # << >>
<1>1. At("close") /\ "close" \in Closes /\ Head(me.runs) = "runOne"
  BY DEF NewRun, Close, Closes
<1>2. Phase = "cleanup" /\ me.runs # << >> /\ Body = Prog.cleanup
  BY <1>1, CloseCall
<1>3. Prog.cleanup = RunCleanup
  <2>1. me \in MeType
    BY DEF Inv, Types
  <2> QED
    BY <1>1, <1>2, <2>1, Planned, Kinds DEF Prog, Runner
<1>4. PICK k : k = me.pc[2]
  OBVIOUS
<1>5. k \in 1 .. 4 /\ RunCleanup[k] = "close"
  <2>1. k \in 1 .. Len(Part(Prog, me.pc[1])) /\ Part(Prog, me.pc[1]) = RunCleanup
    BY <1>1, <1>2, <1>3, <1>4, Where, BodyIs DEF Phase
  <2>2. Len(RunCleanup) = 4
    BY DEF RunCleanup
  <2> QED
    BY <1>1, <1>2, <1>3, <1>4, <2>1, <2>2 DEF At
<1>6. k = 4 /\ RunCleanup[3] = "closeMeta"
  BY <1>5 DEF RunCleanup
<1> QED
  BY <1>2, <1>3, <1>4, <1>6 DEF Called

LEMMA MetaSteps ==
  ASSUME Inv, [Next]_vars
  PROVE  /\ \/ OpenMeta \/ ReadMeta
            \/ meta' = meta
            \/ meta'.open = FALSE /\ meta'.from = meta.from /\ meta'.pos = meta.pos
         /\ ReadMeta => /\ meta'.open = meta.open /\ meta'.from = meta.from
                        /\ meta'.pos = (IF meta.open THEN meta.pos + 1 ELSE meta.pos)
<1>1. meta \in MetaType
  BY Kept DEF MetaTypes
<1>2. (\/ Silent \/ DequeueCapture \/ DequeueOutput \/ WriteRow \/ DequeueViv
       \/ StopCapture) => meta' = meta
  BY DEF Silent, metaVars, DequeueCapture, DequeueOutput, WriteRow, DequeueViv,
     StopCapture
<1>3. (\/ Close \/ CloseViv \/ RunJob \/ PublishForeign \/ DrainOpen \/ DrainFails
       \/ DrainRead) => meta' = meta
  BY DEF metaVars, Close, CloseViv, RunJob, PublishForeign, DrainOpen, DrainFails,
     DrainRead
<1>4. CloseMeta => meta'.open = FALSE /\ meta'.from = meta.from /\ meta'.pos = meta.pos
  BY <1>1 DEF CloseMeta, MetaType
<1>5. ReadMeta => /\ meta'.open = meta.open /\ meta'.from = meta.from
                  /\ meta'.pos = (IF meta.open THEN meta.pos + 1 ELSE meta.pos)
  BY <1>1 DEF ReadMeta, MetaType
<1> QED
  BY <1>2, <1>3, <1>4, <1>5, SideSteps

RowKept == cur'.read = cur.read /\ cur'.row = cur.row
LEMMA RowSteps ==
  ASSUME Inv, [Next]_vars
  PROVE  /\ ReadMeta \/ RowKept \/ cur'.read = FALSE
         /\ ReadMeta => cur'.read = meta.open /\ cur'.cap = cur.cap
                        /\ cur'.row = (IF meta.open THEN log[meta.pos + 1] ELSE NoRow)
         /\ WriteRow => cur'.read = FALSE
         /\ DequeueCapture => RowKept /\ cur'.cap = node.capDone[1]
<1>1. cur \in CurType /\ node.capDone \in Seq(DoneType)
  BY Kept DEF ProgTypes, NodeType
<1>2. (\/ Silent \/ OpenMeta \/ StopCapture \/ CloseMeta \/ RunJob \/ PublishForeign
       \/ DrainOpen \/ DrainFails \/ DrainRead) => RowKept
  BY DEF Silent, OpenMeta, StopCapture, CloseMeta, RunJob, PublishForeign, DrainOpen,
     DrainFails, DrainRead, progVars, RowKept
<1>3. DequeueOutput \/ DequeueViv => RowKept
  BY <1>1 DEF DequeueOutput, DequeueViv, CurType, RowKept
<1>4. Close \/ CloseViv => RowKept \/ cur'.read = FALSE
  <2>1. Close \/ CloseViv => cur' = cur \/ cur' = Fresh
    BY DEF Close, CloseViv, NextRun
  <2> QED
    BY <2>1 DEF Fresh, RowKept
<1>5. WriteRow => cur'.read = FALSE
  BY DEF WriteRow, Fresh
<1>6. ReadMeta => cur'.read = meta.open /\ cur'.cap = cur.cap
                  /\ cur'.row = (IF meta.open THEN log[meta.pos + 1] ELSE NoRow)
  BY <1>1 DEF ReadMeta, CurType
<1>7. DequeueCapture => RowKept /\ cur'.cap = node.capDone[1]
  <2> SUFFICES ASSUME DequeueCapture PROVE RowKept /\ cur'.cap = node.capDone[1]
    OBVIOUS
  <2>1. cur' = [cur EXCEPT !.cap = Head(node.capDone)] /\ node.capDone # << >>
    BY DEF DequeueCapture
  <2>2. Head(node.capDone) = node.capDone[1]
    BY <1>1, <2>1, Takes
  <2> QED
    BY <1>1, <2>1, <2>2 DEF CurType, RowKept
<1> QED
  BY <1>2, <1>3, <1>4, <1>5, <1>6, <1>7, SideSteps

LEMMA MetaOkNext ==
  ASSUME Inv, Inv', Ours, MetaOk, Way, [Next]_vars
  PROVE  MetaOk'
<1>1. /\ meta.from \in Nat /\ meta.pos \in Nat /\ meta.pos <= Len(log) /\ Len(log) \in Nat
      /\ me \in MeType
  BY Kept DEF MetaTypes, MetaType, Inv, Types
<1>2. OpenMeta => /\ meta'.from = Len(log) /\ meta'.pos = Len(log) /\ log' = log
                  /\ At("tryMeta")
  BY DEF OpenMeta, Call
<1>3. meta'.from <= meta'.pos
  <2>1. CASE OpenMeta
    BY <1>1, <1>2, <2>1
  <2>2. CASE ~OpenMeta
    <3>1. meta'.from = meta.from /\ meta'.pos \in {meta.pos, meta.pos + 1}
      BY <2>2, MetaSteps
    <3> QED
      BY <1>1, <3>1 DEF MetaOk
  <2> QED
    BY <2>1, <2>2
<1>4. ASSUME meta'.open, me'.runs # << >>
      PROVE  /\ Runner(Prog') /\ RowsOurs'
             /\ Phase' = "cleanup" => ~Called(Prog'.cleanup, me'.pc[2], {"closeMeta"})
  <2>1. CASE OpenMeta
    <3>1. At("tryMeta") /\ me.runs # << >>
      BY <1>2, <2>1 DEF At, Exited
    <3>2. ~NewRun
      BY <3>1, SameCall DEF NewRun, Close
    <3>3. me'.runs = me.runs /\ Prog' = Prog
      BY <1>4, <3>2, RunsStep DEF Prog
    <3>4. Phase # "cleanup" /\ "tryMeta" \in Calls(Prog.setup) /\ Kind(Prog)
      BY <3>1, Where DEF Quits, LoopCalls, Phases
    <3>5. Runner(Prog)
      BY <3>4, KindFacts
    <3>6. RowsOurs'
      <4>1. Len(log)' = Len(log) /\ meta'.from = Len(log)
        BY <1>2, <2>1
      <4>2. \A k \in Len(log) + 1 .. Len(log) : FALSE
        BY <1>1
      <4> QED
        BY <4>1, <4>2 DEF RowsOurs
    <3>7. Phase' = "cleanup" => me'.pc[2] = 1
      <4>1. At("tryMeta") /\ Advance(0)
        BY <2>1 DEF OpenMeta, Call
      <4>2. Forward(me, me', Prog, "tryMeta", 0)
        BY <3>4, <4>1, Goes
      <4> QED
        BY <3>4, <4>2 DEF Forward, Phase
    <3> QED
      BY <3>3, <3>4, <3>5, <3>6, <3>7, CalledNone DEF Phase
  <2>2. CASE ~OpenMeta
    <3>1. meta.open /\ meta'.from = meta.from
      BY <1>4, <2>2, MetaSteps
    <3>2. me.runs # << >>
      BY <1>4, RunsStep, ClosedBefore
    <3>3. /\ Runner(Prog) /\ RowsOurs
          /\ Phase = "cleanup" => ~Called(Prog.cleanup, me.pc[2], {"closeMeta"})
      BY <3>1, <3>2 DEF MetaOk
    <3>4. me'.runs = me.runs /\ Prog' = Prog
      BY <1>4, <3>3, RunsStep, ClosedBefore DEF Prog
    <3>5. RowsOurs'
      BY <3>1, <3>2, <3>3, <3>4, RowsStayOurs
    <3>6. ASSUME Phase' = "cleanup" PROVE ~Called(Prog.cleanup, me'.pc[2], {"closeMeta"})
      <4>1. CASE me'.pc[2] = 1
        BY <4>1, CalledNone
      <4>2. CASE me' = me
        BY <3>3, <3>6, <4>2 DEF Phase
      <4>4. CASE Dies
        BY <3>2, <3>3, <4>4, NotYetClosed
      <4>3. ASSUME ~(me'.pc[2] = 1), ~(me' = me), ~Dies
            PROVE  ~Called(Prog.cleanup, me'.pc[2], {"closeMeta"})
        <5>3. PICK c : /\ Phase = "cleanup" /\ At(c) /\ me'.pc[2] = me.pc[2] + 1
                       /\ c = Prog.cleanup[me.pc[2]]
                       /\ c = "closeMeta" => CloseMeta
          BY <1>4, <3>6, <4>3, InCleanup
        <5>1. ~CloseMeta
          <6>1. meta \in MetaType
            BY Kept DEF MetaTypes
          <6> QED
            BY <1>4, <6>1 DEF CloseMeta, MetaType
        <5>2. me.pc[2] \in Nat /\ me.pc[2] >= 1
          <6>1. me.pc[2] \in 1 .. Len(Part(Prog, me.pc[1])) /\ me.pc[2] \in Nat
            BY <1>1, <3>2, MeFields DEF Inv, Place, Placed
          <6> QED
            BY <6>1
        <5> QED
          BY <3>3, <5>3, <5>1, <5>2, CalledNext
      <4> QED
        BY <4>1, <4>2, <4>3, <4>4
    <3> QED
      BY <3>3, <3>4, <3>5, <3>6
  <2> QED
    BY <2>1, <2>2
<1>5. ASSUME cur'.read, me'.runs # << >>, cur'.row.own
      PROVE  cur'.row.id[1] = Len(me'.runs)
  <2>1. CASE ReadMeta
    <3>1. At("readMeta") /\ me.runs # << >> /\ (meta.open => meta.pos < Len(log))
      BY <2>1 DEF ReadMeta, Call, At, Exited
    <3>2. ~NewRun
      BY <3>1, SameCall DEF NewRun, Close
    <3>3. me'.runs = me.runs
      BY <1>5, <3>2, RunsStep
    <3>4. meta.open /\ cur'.row = log[meta.pos + 1]
      BY <1>5, <2>1, RowSteps
    <3>5. RowsOurs /\ meta.from <= meta.pos
      BY <3>1, <3>4 DEF MetaOk
    <3>6. meta.pos + 1 \in meta.from + 1 .. Len(log)
      BY <1>1, <3>1, <3>4, <3>5
    <3> QED
      BY <1>5, <3>3, <3>4, <3>5, <3>6 DEF RowsOurs
  <2>2. CASE ~ReadMeta
    <3>1. cur'.row = cur.row /\ cur.read
      BY <1>5, <2>2, RowSteps DEF RowKept
    <3>2. ~NewRun
      <4>1. NewRun => cur' = Fresh
        BY DEF NewRun, NextRun
      <4> QED
        BY <1>5, <4>1 DEF Fresh
    <3>3. me'.runs = me.runs
      BY <1>5, <3>2, RunsStep
    <3> QED
      BY <1>5, <3>1, <3>3 DEF MetaOk
  <2> QED
    BY <2>1, <2>2
<1> QED
  BY <1>3, <1>4, <1>5 DEF MetaOk

-----------------------------------------------------------------------------
(* The runner reads a row after each DQBUF of CAPTURE: between the two it   *)
(* is one row behind, otherwise it has read them all.                       *)
InGap(m, g) == Past(m, g, "dqCap") /\ ~Past(m, g, "readMeta")
Reading(m, g) == Past(m, g, "readMeta") /\ ~Past(m, g, "row")
RowFits(row) == row.id = cur.cap.id /\ row.dropped = cur.cap.dropped
Pace ==
  Live =>
    /\ meta.open /\ Undisturbed(meta.from) =>
         /\ InGap(me, Prog) => Len(log) = meta.pos + 1 /\ RowFits(log[Len(log)])
         /\ ~InGap(me, Prog) => Len(log) = meta.pos
    /\ cur.read => Reading(me, Prog) /\ (Undisturbed(meta.from) => RowFits(cur.row))

LEMMA DeepPast ==
  ASSUME Inv, NEW c, At(c), Phase = "loop", Runner(Prog), NEW x \in Calls(Prog.loop)
  PROVE  Past(me, Prog, x) <=> Rank(x, TRUE) < Rank(c, TRUE)
<1>1. PICK deep : deep = (Prog.depth > 0)
  OBVIOUS
<1>2. Past(me, Prog, x) <=> Rank(x, deep) < Rank(c, deep)
  BY <1>1, NowRank
<1>3. ASSUME NEW y, y = Prog.depth PROVE (y > 0) = TRUE
  BY <1>3, Constants DEF Runner
<1>4. deep = TRUE
  BY <1>1, <1>3, Zenon
<1> QED
  BY <1>2, <1>4

LEMMA ShallowPast ==
  ASSUME Inv, NEW c, At(c), Phase = "loop", ~Runner(Prog), NEW x \in Calls(Prog.loop)
  PROVE  Past(me, Prog, x) <=> Rank(x, FALSE) < Rank(c, FALSE)
<1>1. PICK deep : deep = (Prog.depth > 0)
  OBVIOUS
<1>2. Past(me, Prog, x) <=> Rank(x, deep) < Rank(c, deep)
  BY <1>1, NowRank
<1>3. Prog.depth = 0
  BY Where, KindFacts
<1>4. ASSUME NEW y, y = Prog.depth PROVE (y > 0) = FALSE
  BY <1>3, <1>4
<1>5. deep = FALSE
  BY <1>1, <1>4, Zenon
<1> QED
  BY <1>2, <1>5

LEMMA RunnerPast ==
  ASSUME Inv, NEW c, At(c), Phase = "loop", Runner(Prog), NEW x \in Calls(Prog.loop)
  PROVE  /\ c = "dqCap" => ~Past(me, Prog, x)
         /\ c = "readMeta" => (Past(me, Prog, x) <=> x = "dqCap")
         /\ c = "row" => (Past(me, Prog, x) <=> x \in {"dqCap", "readMeta"})
         /\ c = "qCap" => (Past(me, Prog, x) <=> x \in {"dqCap", "readMeta", "row"})
         /\ c = "dqOut" => (Past(me, Prog, x) <=> x \in {"dqCap", "readMeta", "row", "qCap"})
         /\ c = "submit" => (Past(me, Prog, x) <=> x # "submit")
<1>1. Past(me, Prog, x) <=> Rank(x, TRUE) < Rank(c, TRUE)
  BY DeepPast
<1>2. x \in {"dqCap", "readMeta", "row", "qCap", "dqOut", "submit"}
  BY DEF Runner
<1>3. c = "dqCap" => ~Past(me, Prog, x)
  BY <1>1, <1>2 DEF Rank
<1>4. c = "readMeta" => (Past(me, Prog, x) <=> x = "dqCap")
  BY <1>1, <1>2 DEF Rank
<1>5. c = "row" => (Past(me, Prog, x) <=> x \in {"dqCap", "readMeta"})
  BY <1>1, <1>2 DEF Rank
<1>6. c = "qCap" => (Past(me, Prog, x) <=> x \in {"dqCap", "readMeta", "row"})
  BY <1>1, <1>2 DEF Rank
<1>7. c = "dqOut" => (Past(me, Prog, x) <=> x \in {"dqCap", "readMeta", "row", "qCap"})
  BY <1>1, <1>2 DEF Rank
<1>8. c = "submit" => (Past(me, Prog, x) <=> x # "submit")
  BY <1>1, <1>2 DEF Rank
<1> QED
  BY <1>3, <1>4, <1>5, <1>6, <1>7, <1>8

LEMMA OtherPast ==
  ASSUME Inv, NEW c, At(c), Phase = "loop", ~Runner(Prog), NEW x \in Calls(Prog.loop)
  PROVE  /\ c = "dqViv" => ~Past(me, Prog, x)
         /\ c = "seqCtrl" => (Past(me, Prog, x) <=> x = "dqViv")
         /\ c = "submit" => (Past(me, Prog, x) <=> x \in {"dqViv", "seqCtrl"})
         /\ c = "dqCap" => (Past(me, Prog, x) <=> x \in {"dqViv", "seqCtrl", "submit"})
         /\ c = "dqOut" =>
              (Past(me, Prog, x) <=> x \in {"dqViv", "seqCtrl", "submit", "dqCap"})
         /\ c = "row" =>
              (Past(me, Prog, x) <=> x \in {"dqViv", "seqCtrl", "submit", "dqCap", "dqOut"})
         /\ c = "remap" => (Past(me, Prog, x) <=> x \notin {"remap", "qCap", "qViv"})
         /\ c = "qCap" => (Past(me, Prog, x) <=> x \notin {"qCap", "qViv"})
         /\ c = "qViv" => (Past(me, Prog, x) <=> x # "qViv")
<1>1. Past(me, Prog, x) <=> Rank(x, FALSE) < Rank(c, FALSE)
  BY ShallowPast
<1>2. x \in LoopCalls /\ x # "readMeta"
  <2>1. Kind(Prog)
    BY Where
  <2> QED
    BY <2>1, KindFacts, KindCalls
<1>3. c = "dqViv" => ~Past(me, Prog, x)
  BY <1>1, <1>2 DEF Rank, LoopCalls
<1>4. c = "seqCtrl" => (Past(me, Prog, x) <=> x = "dqViv")
  BY <1>1, <1>2 DEF Rank, LoopCalls
<1>5. c = "submit" => (Past(me, Prog, x) <=> x \in {"dqViv", "seqCtrl"})
  BY <1>1, <1>2 DEF Rank, LoopCalls
<1>6. c = "dqCap" => (Past(me, Prog, x) <=> x \in {"dqViv", "seqCtrl", "submit"})
  BY <1>1, <1>2 DEF Rank, LoopCalls
<1>7. c = "dqOut" => (Past(me, Prog, x) <=> x \in {"dqViv", "seqCtrl", "submit", "dqCap"})
  BY <1>1, <1>2 DEF Rank, LoopCalls
<1>8. c = "row" =>
        (Past(me, Prog, x) <=> x \in {"dqViv", "seqCtrl", "submit", "dqCap", "dqOut"})
  BY <1>1, <1>2 DEF Rank, LoopCalls
<1>9. c = "remap" => (Past(me, Prog, x) <=> x \notin {"remap", "qCap", "qViv"})
  BY <1>1, <1>2 DEF Rank, LoopCalls
<1>10. c = "qCap" => (Past(me, Prog, x) <=> x \notin {"qCap", "qViv"})
  BY <1>1, <1>2 DEF Rank, LoopCalls
<1>11. c = "qViv" => (Past(me, Prog, x) <=> x # "qViv")
  BY <1>1, <1>2 DEF Rank, LoopCalls
<1> QED
  BY <1>3, <1>4, <1>5, <1>6, <1>7, <1>8, <1>9, <1>10, <1>11

LEMMA NeverPast ==
  ASSUME NEW c, NEW s, Makes(c, s), Phase # "loop"
  PROVE  \A x : ~Past(me, Prog, x) /\ ~Past(me', Prog, x)
<1>1. \A x : ~Past(me, Prog, x)
  BY DEF Past, Phase
<1>2. SameTurn(me, me', Prog, c) \/ NewTurn(me, me', Prog, c)
  BY DEF Makes, Forward
<1> QED
  BY <1>1, <1>2 DEF SameTurn, NewTurn, Phase

LEMMA InLoop ==
  ASSUME Inv, NEW c, NEW s, Makes(c, s), c \in LoopCalls, c # "submit"
  PROVE  Phase = "loop"
<1>1. At(c) /\ Phase # "cleanup"
  BY DEF Makes, Live
<1>2. Phase \in Phases /\ (Phase = "setup" => c \in SetupNames)
      /\ (Phase = "fill" => c = "submit") /\ (Phase = "after" => c \in {"export", "verify"})
  BY <1>1, Where
<1> QED
  BY <1>1, <1>2 DEF LoopCalls, Phases, SetupNames, NodeSetup, VivSetup

LEMMA RunnerTurn ==
  ASSUME Inv, NEW c, NEW s, Makes(c, s), Runner(Prog)
  PROVE  /\ c = "dqCap" => ~InGap(me, Prog) /\ ~Reading(me, Prog) /\ InGap(me', Prog)
         /\ c = "readMeta" => InGap(me, Prog) /\ ~InGap(me', Prog) /\ Reading(me', Prog)
         /\ c \notin {"dqCap", "readMeta"} => ~InGap(me, Prog) /\ ~InGap(me', Prog)
         /\ c \notin {"dqCap", "readMeta", "row"} => ~Reading(me, Prog)
<1>1. At(c) /\ (SameTurn(me, me', Prog, c) \/ NewTurn(me, me', Prog, c))
  BY DEF Makes, Forward
<1>2. Calls(Prog.loop) = {"dqCap", "readMeta", "row", "qCap", "dqOut", "submit"}
  BY DEF Runner
<1>3. CASE Phase # "loop"
  <2>1. c \notin {"dqCap", "readMeta"}
    BY <1>3, InLoop DEF LoopCalls
  <2> QED
    BY <1>3, <2>1, NeverPast DEF InGap, Reading
<1>4. CASE Phase = "loop"
  <2>1. c \in Calls(Prog.loop)
    BY <1>1, <1>4, Where
  <2>3. ASSUME c \in {"dqCap", "readMeta"} PROVE SameTurn(me, me', Prog, c)
    <3>1. ~Past(me, Prog, "submit") /\ c # "submit"
      BY <1>1, <1>2, <1>4, <2>3, RunnerPast
    <3> QED
      BY <1>1, <1>2, <1>4, <3>1 DEF NewTurn, Phase
  <2>4. ASSUME c = "dqCap" PROVE ~InGap(me, Prog) /\ ~Reading(me, Prog) /\ InGap(me', Prog)
    <3>1. ~Past(me, Prog, "dqCap") /\ ~Past(me, Prog, "readMeta")
      BY <1>1, <1>2, <1>4, <2>4, RunnerPast
    <3> QED
      BY <1>4, <2>3, <2>4, <3>1 DEF InGap, Reading, SameTurn, Phase
  <2>5. ASSUME c = "readMeta"
        PROVE  InGap(me, Prog) /\ ~InGap(me', Prog) /\ Reading(me', Prog)
    <3>1. Past(me, Prog, "dqCap") /\ ~Past(me, Prog, "readMeta") /\ ~Past(me, Prog, "row")
      BY <1>1, <1>2, <1>4, <2>5, RunnerPast
    <3> QED
      BY <1>4, <2>3, <2>5, <3>1 DEF InGap, Reading, SameTurn, Phase
  <2>6. ASSUME c \in {"row", "qCap", "dqOut", "submit"}
        PROVE  /\ ~InGap(me, Prog) /\ ~InGap(me', Prog)
               /\ c # "row" => ~Reading(me, Prog)
    <3>1. Past(me, Prog, "readMeta")
      BY <1>1, <1>2, <1>4, <2>6, RunnerPast
    <3>2. c # "row" => Past(me, Prog, "row")
      BY <1>1, <1>2, <1>4, <2>6, RunnerPast
    <3> QED
      BY <1>1, <3>1, <3>2 DEF InGap, Reading, SameTurn, NewTurn
  <2> QED
    BY <1>2, <2>1, <2>4, <2>5, <2>6
<1> QED
  BY <1>3, <1>4

(* What a call before the cleanup leaves alone. *)
LEMMA MakesSide ==
  ASSUME Inv, NEW c, NEW s, Makes(c, s), Acts(c, s), ~Others, [Next]_vars
  PROVE  /\ drain' = drain /\ errs' = errs /\ log' \in Seq(Rows)
         /\ c \notin {"tryMeta", "readMeta"} => meta' = meta
         /\ c # "dqCap" => log' = log
         /\ c \notin {"readMeta", "row"} => RowKept
         /\ c \notin {"dqCap", "row"} => cur'.cap = cur.cap
<1>1. At(c) /\ me'.runs # << >> /\ cur \in CurType /\ log \in Seq(Rows)
  BY Kept DEF Makes, ProgTypes, MetaTypes
<1>2. c \notin Quits
  <2>1. Phase # "cleanup"
    BY DEF Makes, Live
  <2> QED
    BY <1>1, <2>1, Where DEF Quits, LoopCalls, SetupNames, NodeSetup, VivSetup, Phases
<1>3. ~StopCapture /\ ~CloseMeta /\ ~Close /\ ~CloseViv
  BY <1>1, <1>2, SameCall DEF Quits, StopCapture, CloseMeta, Close, CloseViv
<1>4. ~RunJob /\ ~PublishForeign /\ ~DrainOpen /\ ~DrainRead
  BY DEF Others
<1>5. ~DrainFails
  <2>1. me \in MeType
    BY DEF Inv, Types
  <2> QED
    BY <1>1, <2>1 DEF DrainFails, MeType
<1>6. \/ Silent \/ OpenMeta \/ DequeueCapture \/ DequeueOutput \/ ReadMeta \/ WriteRow
      \/ DequeueViv
  BY <1>3, <1>4, <1>5, SideSteps
<1>7. CASE Silent
  BY <1>1, <1>7 DEF Silent, metaVars, RowKept
<1>8. CASE OpenMeta
  <2>1. c = "tryMeta"
    BY <1>1, <1>8, SameCall DEF OpenMeta, Call
  <2> QED
    BY <1>1, <1>8, <2>1 DEF OpenMeta, progVars, RowKept
<1>9. CASE DequeueCapture
  <2>1. c = "dqCap" /\ Finish({1}) /\ node.capDone # << >>
    BY <1>1, <1>9, SameCall DEF DequeueCapture, Call
  <2>2. node \in NodeType /\ node.capDone \in Seq(DoneType)
    BY Kept DEF NodeType
  <2>3. {1} \subseteq DOMAIN node.capDone
    BY <2>1, <2>2, Takes DEF Took
  <2>4. log' \in Seq(Rows)
    BY <1>1, <2>1, <2>2, <2>3, Finishes DEF Grown
  <2> QED
    BY <1>9, <2>1, <2>4, RowSteps DEF DequeueCapture
<1>10. CASE DequeueOutput \/ DequeueViv
  BY <1>1, <1>10 DEF DequeueOutput, DequeueViv, CurType, RowKept, metaVars
<1>11. CASE ReadMeta
  <2>1. c = "readMeta"
    BY <1>1, <1>11, SameCall DEF ReadMeta, Call
  <2> QED
    BY <1>1, <1>11, <2>1, RowSteps DEF ReadMeta
<1>12. CASE WriteRow
  <2>1. c = "row"
    BY <1>1, <1>12, SameCall DEF WriteRow, Call
  <2> QED
    BY <1>1, <1>12, <2>1 DEF WriteRow, metaVars
<1> QED
  BY <1>6, <1>7, <1>8, <1>9, <1>10, <1>11, <1>12

(* Rows once published stay. *)
LEMMA LogPrefix ==
  ASSUME Inv, [Next]_vars
  PROVE  /\ Len(log) \in Nat /\ Len(log') \in Nat /\ Len(log) <= Len(log')
         /\ \A k \in 1 .. Len(log) : log'[k] = log[k]
<1>1. log \in Seq(Rows) /\ Len(log) \in Nat
  BY Kept DEF MetaTypes
<1>2. CASE log' = log
  BY <1>1, <1>2
<1>3. CASE Grown(1 .. Len(node.capDone))
  BY <1>1, <1>3 DEF Grown
<1>4. CASE PublishForeign
  BY <1>1, <1>4, ForeignRow DEF Put
<1> QED
  BY <1>2, <1>3, <1>4, LogSteps

LEMMA UndisturbedBack ==
  ASSUME Inv, [Next]_vars, NEW f \in Nat, errs' = 0 => errs = 0, errs' = 0,
         \A k \in f + 1 .. Len(log') : log'[k].own
  PROVE  Undisturbed(f)
<1>1. PICK l, u : l = Len(log) /\ u = Len(log')
  OBVIOUS
<1>2. l \in Nat /\ u \in Nat /\ l <= u /\ \A k \in 1 .. l : log'[k] = log[k]
  BY <1>1, LogPrefix
<1>4. ASSUME NEW k \in f + 1 .. l PROVE log[k].own
  <2>1. k \in 1 .. l /\ k \in f + 1 .. u
    BY <1>2
  <2> QED
    BY <1>1, <1>2, <2>1
<1> QED
  BY <1>1, <1>4 DEF Undisturbed

(* Without a reader there is nothing to keep pace with. *)
LEMMA OnlyRunnerReads ==
  ASSUME Inv, MetaOk, Pace, NEW c, NEW s, Makes(c, s), ~Runner(Prog)
  PROVE  ~meta.open /\ ~cur.read
<1>1. Live /\ At(c) /\ Kind(Prog) /\ Plan(Prog) /\ Placed(me, Prog) /\ me \in MeType
  BY Where DEF Makes
<1>2. ~meta.open
  BY <1>1 DEF MetaOk, Live
<1>3. ~Past(me, Prog, "readMeta")
  <2>1. "readMeta" \notin Calls(Prog.loop)
    BY <1>1, KindFacts
  <2>2. CASE Phase = "loop"
    <3>1. Part(Prog, "loop") = Prog.loop /\ me.pc[2] \in 1 .. Len(Prog.loop)
      BY <1>1, <2>2, PartOf DEF Placed, Phase, Phases
    <3> QED
      BY <2>1, <3>1 DEF Past, Called, Calls
  <2> QED
    BY <2>2 DEF Past, Phase
<1> QED
  BY <1>1, <1>2, <1>3 DEF Pace, Reading

LEMMA PaceMade ==
  ASSUME Inv, Inv', NoErr, MetaOk, Pace, NEW c, NEW s, Makes(c, s), Acts(c, s), ~Others,
         [Next]_vars
  PROVE  Pace'
<1>1. /\ Live /\ At(c) /\ Prog' = Prog /\ me'.runs = me.runs
      /\ cur \in CurType /\ log \in Seq(Rows) /\ node \in NodeType
      /\ node.capDone \in Seq(DoneType)
      /\ meta.from \in Nat /\ meta.pos \in Nat /\ Len(log) \in Nat
  BY Kept DEF Makes, ProgTypes, MetaTypes, NodeType, MetaType
<1>2. CASE ~Runner(Prog)
  <2>1. ~meta.open /\ ~cur.read
    BY <1>2, OnlyRunnerReads
  <2>2. c \notin {"tryMeta", "readMeta"}
    <3>1. Kind(Prog) /\ Phase # "cleanup" /\ Phase \in Phases
      BY <1>1, Where DEF Live
    <3>2. "tryMeta" \notin Calls(Prog.setup) /\ "readMeta" \notin Calls(Prog.loop)
      BY <1>2, <3>1, KindFacts
    <3> QED
      BY <1>1, <3>1, <3>2, Where DEF Phases, SetupNames, NodeSetup, VivSetup, LoopCalls
  <2>3. ~meta'.open
    BY <2>1, <2>2, MakesSide
  <2>4. ~cur'.read
    <3>1. c = "row" => WriteRow
      BY DEF Acts
    <3> QED
      BY <2>1, <2>2, <3>1, MakesSide, RowSteps DEF RowKept
  <2> QED
    BY <2>3, <2>4 DEF Pace
<1>3. CASE Runner(Prog)
  <2>1. errs' = errs
    BY MakesSide
  <2>2. ASSUME meta'.from = meta.from, Undisturbed(meta.from)' PROVE Undisturbed(meta.from)
    BY <1>1, <2>1, <2>2, UndisturbedBack DEF Undisturbed
  <2>3. CASE c = "tryMeta"
    <3>1. OpenMeta
      BY <2>3 DEF Acts
    <3>2. meta'.pos = Len(log) /\ log' = log /\ cur' = cur
      BY <3>1 DEF OpenMeta, progVars
    <3>3. ~InGap(me', Prog) /\ ~Reading(me, Prog)
      BY <1>3, <2>3, RunnerTurn
    <3>4. ~cur'.read
      BY <1>1, <3>2, <3>3 DEF Pace
    <3> QED
      BY <1>1, <3>2, <3>3, <3>4 DEF Pace
  <2>4. CASE c = "dqCap"
    <3>1. DequeueCapture /\ ~InGap(me, Prog) /\ ~Reading(me, Prog) /\ InGap(me', Prog)
      BY <1>3, <2>4, RunnerTurn DEF Acts
    <3>2. meta' = meta /\ RowKept /\ cur'.cap = node.capDone[1] /\ ~cur.read
      <4>1. meta' = meta
        BY <2>4, MakesSide
      <4>2. RowKept /\ cur'.cap = node.capDone[1]
        BY <3>1, RowSteps
      <4> QED
        BY <1>1, <3>1, <4>1, <4>2 DEF Pace
    <3>3. ASSUME meta.open, Undisturbed(meta.from)'
          PROVE  Len(log') = meta.pos + 1 /\ RowFits(log[Len(log)])'
      <4>1. Undisturbed(meta.from)
        BY <2>2, <3>2, <3>3
      <4>2. Len(log) = meta.pos /\ errs = 0
        BY <1>1, <3>1, <3>3, <4>1 DEF Pace, Undisturbed
      <4>3. Finish({1}) /\ node.capDone # << >>
        BY <3>1 DEF DequeueCapture
      <4>4. 1 \in DOMAIN node.capDone /\ 1 \in 1 .. Len(node.capDone)
        BY <1>1, <4>3, Takes DEF Took
      <4>5. ~node.capDone[1].err
        BY <4>2, <4>4 DEF NoErr
      <4>6. Put(log, RowOf(node.capDone[1]), log')
        BY <1>1, <4>3, <4>4, <4>5, FinishesOne
      <4>7. Len(log') = meta.pos + 1 /\ log'[Len(log')] = RowOf(node.capDone[1])
        BY <1>1, <4>2, <4>6 DEF Put
      <4> QED
        BY <3>2, <4>7 DEF RowFits, RowOf
    <3> QED
      BY <1>1, <3>1, <3>2, <3>3 DEF Pace, RowKept
  <2>5. CASE c = "readMeta"
    <3>1. ReadMeta /\ InGap(me, Prog) /\ ~InGap(me', Prog) /\ Reading(me', Prog)
      BY <1>3, <2>5, RunnerTurn DEF Acts
    <3>2. log' = log
      BY <2>5, MakesSide
    <3>3. /\ cur'.read = meta.open /\ cur'.cap = cur.cap
          /\ meta'.open = meta.open /\ meta'.from = meta.from
      BY <3>1, RowSteps, MetaSteps
    <3>4. ASSUME meta.open
          PROVE  cur'.row = log[meta.pos + 1] /\ meta'.pos = meta.pos + 1
      BY <3>1, <3>4, RowSteps, MetaSteps
    <3>5. ASSUME meta.open, Undisturbed(meta.from)'
          PROVE  Len(log') = meta'.pos /\ RowFits(cur.row)'
      <4>1. Len(log) = meta.pos + 1 /\ RowFits(log[Len(log)])
        BY <1>1, <2>2, <3>1, <3>3, <3>5 DEF Pace
      <4> QED
        BY <3>2, <3>3, <3>4, <3>5, <4>1 DEF RowFits
    <3> QED
      BY <1>1, <3>1, <3>3, <3>5 DEF Pace
  <2>6. CASE c \notin {"tryMeta", "dqCap", "readMeta"}
    <3>1. ~InGap(me, Prog) /\ ~InGap(me', Prog) /\ (c # "row" => ~Reading(me, Prog))
      BY <1>3, <2>6, RunnerTurn
    <3>2. meta' = meta /\ log' = log
      BY <2>6, MakesSide
    <3>3. ~cur'.read
      <4>1. CASE c = "row"
        <5>1. WriteRow
          BY <4>1 DEF Acts
        <5> QED
          BY <5>1, RowSteps
      <4>2. CASE c # "row"
        <5>1. RowKept /\ ~cur.read
          BY <1>1, <2>6, <3>1, <4>2, MakesSide DEF Pace
        <5> QED
          BY <5>1 DEF RowKept
      <4> QED
        BY <4>1, <4>2
    <3>4. ASSUME meta.open, Undisturbed(meta.from)' PROVE Len(log') = meta'.pos
      BY <1>1, <2>2, <3>1, <3>2, <3>4 DEF Pace
    <3> QED
      BY <1>1, <3>1, <3>2, <3>3, <3>4 DEF Pace
  <2> QED
    BY <2>3, <2>4, <2>5, <2>6
<1> QED
  BY <1>2, <1>3

LEMMA PaceOthers ==
  ASSUME Inv, Inv', MetaOk, Pace, me' = me, Others, [Next]_vars
  PROVE  Pace'
<1>1. /\ meta.from \in Nat /\ meta.pos \in Nat /\ Len(log) \in Nat /\ errs \in Nat
      /\ meta.pos <= Len(log)
  BY Kept, ToolsAssumption DEF MetaTypes, MetaType, OtherTypes
<1>2. meta' = meta /\ cur' = cur
  BY DEF Others, RunJob, VividFill, VividSkip, PublishForeign, DrainOpen, DrainRead, progVars,
     metaVars, vars
<1>3. Live' <=> Live
  BY DEF Live, Phase
<1>4. Prog' = Prog
  BY DEF Prog
<1>5. CASE PublishForeign
  <2>1. Put(log, NoRow, log') /\ ~NoRow.own
    BY <1>5, ForeignRow
  <2>2. Len(log) + 1 \in meta.from + 1 .. Len(log')
    BY <1>1, <2>1 DEF Put, MetaOk
  <2>3. ~Undisturbed(meta.from)'
    BY <1>2, <2>1, <2>2 DEF Undisturbed, Put
  <2> QED
    BY <1>2, <1>3, <1>4, <2>3 DEF Pace
<1>6. CASE ~PublishForeign
  <2>1. log' = log
    BY <1>6 DEF Others, RunJob, VividFill, VividSkip, DrainOpen, DrainRead, metaVars, vars
  <2>2. errs' = 0 => errs = 0
    <3>1. RunJob => errs' = errs \/ errs' = errs + 1
      BY <1>1 DEF RunJob
    <3>2. RunJob \/ errs' = errs
      BY <1>6 DEF Others, VividFill, VividSkip, DrainOpen, DrainRead, metaVars, vars
    <3> QED
      BY <1>1, <3>1, <3>2
  <2>3. Undisturbed(meta.from)' => Undisturbed(meta.from)
    BY <1>2, <2>1, <2>2 DEF Undisturbed
  <2> QED
    BY <1>2, <1>3, <1>4, <2>1, <2>3 DEF Pace, RowFits
<1> QED
  BY <1>5, <1>6

LEMMA PaceNext ==
  ASSUME Inv, Inv', NoErr, MetaOk, Pace, Way, [Next]_vars
  PROVE  Pace'
<1>1. CASE Ends
  BY <1>1 DEF Ends, Pace
<1>2. CASE NewRun
  <2>1. ~meta.open
    BY <1>2, ClosedBefore DEF MetaOk
  <2>2. meta' = meta /\ cur' = Fresh
    BY <1>2 DEF NewRun, Close, NextRun
  <2> QED
    BY <2>1, <2>2 DEF Pace, Fresh
<1> QED
  BY <1>1, <1>2, PaceMade, PaceOthers DEF Way

-----------------------------------------------------------------------------
(* vpipe-meta-drain runs beside a capture tool, which has one frame in     *)
(* flight at a time.                                                       *)
DrainState ==
  /\ drain.state = "starting" =>
       /\ me.runs # << >> /\ me.pc[1] = "setup" /\ me.i = 0
       /\ node.capDone = << >> /\ node.outQ = << >>
  /\ drain.state = "done" => drain.got = Frames
  /\ drain.state # "none" /\ me.runs # << >> =>
       Scripted(Head(me.runs)) /\ Len(me.runs) = 1

LEMMA DrainSteps ==
  ASSUME Inv, [Next]_vars
  PROVE  \/ drain' = drain \/ DrainOpen \/ DrainFails \/ DrainRead
         \/ drain.state = "reading" /\ drain' = [drain EXCEPT !.state = "killed"]
<1>1. (\/ Silent \/ OpenMeta \/ DequeueCapture \/ DequeueOutput \/ ReadMeta \/ WriteRow
       \/ DequeueViv) => drain' = drain
  BY DEF Silent, OpenMeta, DequeueCapture, DequeueOutput, ReadMeta, WriteRow, DequeueViv
<1>2. StopCapture \/ CloseMeta \/ RunJob \/ PublishForeign => drain' = drain
  BY DEF StopCapture, CloseMeta, RunJob, PublishForeign
<1>3. Close \/ CloseViv =>
        \/ drain' = drain
        \/ drain.state = "reading" /\ drain' = [drain EXCEPT !.state = "killed"]
  <2>1. drain \in DrainType
    BY Kept DEF MetaTypes
  <2>2. Close \/ CloseViv =>
          \/ drain' = drain
          \/ drain' = [drain EXCEPT !.state = IF me.why # "none" /\ @ = "reading"
                                              THEN "killed" ELSE @]
    BY DEF Close, CloseViv, NextRun
  <2>3. [drain EXCEPT !.state = drain.state] = drain
    BY <2>1 DEF DrainType
  <2> QED
    BY <2>2, <2>3
<1> QED
  BY <1>1, <1>2, <1>3, SideSteps

LEMMA NoCallYet ==
  ASSUME drain.state = "starting", [Next]_vars
  PROVE  ~Program /\ ~Fails /\ ~Killed
  BY DEF Program, Fails, Killed, Refused, Crashes, Faults, OpenNode,
     Plain, SetFormat, RequestBuffers, FillHeap,
     OpenMeta, QueueCaptures, StreamOn, Export, Submit, SubmitNone, SetSequence,
     DequeueCapture, DequeueOutput, ReadMeta, WriteRow, RequeueCapture, Verify, OpenViv,
     RequestViv, MapSlots, QueueSlots, RequeueViv, StreamOnViv, DequeueViv, Remap,
     StopOutput, StopCapture, StopViv, CloseMeta, Close, CloseViv, Call, At

LEMMA DrainStateNext ==
  ASSUME Inv, DrainState, Way, [Next]_vars
  PROVE  DrainState'
<1>1. drain \in DrainType
  BY Kept DEF MetaTypes
<1>2. ASSUME drain'.state = "starting"
      PROVE  /\ me'.runs # << >> /\ me'.pc[1] = "setup" /\ me'.i = 0
             /\ node'.capDone = << >> /\ node'.outQ = << >>
  <2>1. drain.state = "starting"
    BY <1>1, <1>2, DrainSteps DEF DrainOpen, DrainFails, DrainRead, DrainType
  <2>2. ~Program /\ ~Fails /\ ~Killed
    BY <2>1, NoCallYet
  <2>3. ~RunJob /\ ~DrainOpen /\ ~DrainFails
    BY <1>1, <1>2, <2>1 DEF DrainState, RunJob, DrainOpen, DrainFails, DrainType
  <2>4. me' = me /\ node' = node
    BY <2>2, <2>3 DEF Next, VividFill, VividSkip, PublishForeign, DrainRead, vars
  <2> QED
    BY <2>1, <2>4 DEF DrainState
<1>3. ASSUME drain'.state = "done" PROVE drain'.got = Frames
  <2>1. CASE DrainRead
    <3>1. drain.got \in Nat
      BY <1>1 DEF DrainType
    <3> QED
      BY <1>1, <1>3, <2>1, <3>1 DEF DrainRead, DrainType
  <2>2. CASE ~DrainRead
    <3>1. drain' = drain
      BY <1>1, <1>3, <2>2, DrainSteps DEF DrainOpen, DrainFails, DrainType
    <3> QED
      BY <1>3, <3>1 DEF DrainState
  <2> QED
    BY <2>1, <2>2
<1>4. ASSUME drain'.state # "none", me'.runs # << >>
      PROVE  Scripted(Head(me'.runs)) /\ Len(me'.runs) = 1
  <2>1. drain.state # "none"
    BY <1>1, <1>4, DrainSteps
       DEF DrainOpen, DrainFails, DrainRead, DrainType
  <2>2. CASE NewRun
    <3>1. Len(me.runs) > 1 /\ me.runs # << >>
      BY <2>2, ClosedBefore DEF NewRun
    <3>2. Len(me.runs) = 1
      BY <2>1, <3>1 DEF DrainState
    <3>3. ~(1 > 1)
      OBVIOUS
    <3> QED
      BY ONLY <3>1, <3>2, <3>3
  <2>3. CASE me'.runs = me.runs
    BY <1>4, <2>1, <2>3 DEF DrainState
  <2> QED
    BY <1>4, <2>2, <2>3, RunsStep
<1> QED
  BY <1>2, <1>3, <1>4 DEF DrainState

(* One frame in flight, numbered after the rows the drain could read. *)
OneFlight(n, d, q) ==
  /\ Len(d) + Len(q) <= 1
  /\ \A k \in 1 .. Len(d) : d[k].id = <<1, n>>
  /\ \A k \in 1 .. Len(q) : q[k].id = <<1, n>>
RowsInOrder(rows, f) == \A k \in 1 .. Len(rows) - f : rows[f + k].id = <<1, k - 1>>
Clean == drain.state \in {"reading", "done"} /\ Undisturbed(drain.from)
DrainFlow ==
  Clean =>
    /\ RowsInOrder(log, drain.from)
    /\ OneFlight(Len(log) - drain.from, node.capDone, node.outQ)
    /\ Live => Len(log) = drain.from + Done(me, Prog, "dqCap")

LEMMA FlightTook ==
  ASSUME NEW n, NEW d, NEW q, NEW p, OneFlight(n, d, q), Took(d, p), Len(q) \in Nat, NEW m
  PROVE  OneFlight(m, p, q) /\ d[1].id = <<1, n>>
<1>1. Len(p) \in Nat /\ Len(d) = Len(p) + 1
  BY DEF Took
<1>2. Len(p) = 0 /\ Len(q) = 0
  BY <1>1 DEF OneFlight
<1>3. 1 \in 1 .. Len(d)
  BY <1>1
<1>4. \A k \in 1 .. 0 : FALSE
  OBVIOUS
<1> QED
  BY <1>2, <1>3, <1>4 DEF OneFlight

LEMMA FlightMoves ==
  ASSUME NEW n, NEW d, NEW q, NEW p, NEW u, NEW x, OneFlight(n, d, q), Put(d, x, p),
         Took(q, u), x.id = q[1].id
  PROVE  OneFlight(n, p, u)
<1>1. /\ Len(u) \in Nat /\ Len(q) = Len(u) + 1 /\ Len(d) \in Nat /\ Len(p) = Len(d) + 1
      /\ p[Len(d) + 1] = x
  BY DEF Took, Put
<1>2. Len(d) = 0 /\ Len(u) = 0 /\ Len(p) = 1 /\ Len(q) = 1
  BY <1>1 DEF OneFlight
<1>3. x.id = <<1, n>>
  <2>1. 1 \in 1 .. Len(q)
    BY <1>2
  <2> QED
    BY <2>1 DEF OneFlight
<1>4. \A k \in 1 .. Len(p) : p[k].id = <<1, n>>
  BY <1>1, <1>2, <1>3
<1>5. \A k \in 1 .. Len(u) : FALSE
  BY <1>2
<1> QED
  BY <1>2, <1>4, <1>5 DEF OneFlight

LEMMA FlightStarts ==
  ASSUME NEW n, NEW d, NEW q, NEW p, NEW x, Len(d) = 0, Len(q) = 0, Put(q, x, p),
         x.id = <<1, n>>
  PROVE  OneFlight(n, d, p)
<1>1. Len(p) = 1 /\ p[1] = x
  BY DEF Put
<1>2. \A k \in 1 .. Len(p) : p[k].id = <<1, n>>
  BY <1>1
<1>3. \A k \in 1 .. Len(d) : FALSE
  OBVIOUS
<1> QED
  BY <1>1, <1>2, <1>3 DEF OneFlight

LEMMA FlightLess ==
  ASSUME NEW n, NEW d, NEW q, OneFlight(n, d, q), Len(d) \in Nat, Len(q) \in Nat
  PROVE  OneFlight(n, d, << >>) /\ OneFlight(n, << >>, q) /\ OneFlight(n, << >>, << >>)
<1>1. Len(<< >>) = 0 /\ \A k \in 1 .. 0 : FALSE
  OBVIOUS
<1>2. Len(d) <= 1 /\ Len(q) <= 1
  BY DEF OneFlight
<1> QED
  BY <1>1, <1>2 DEF OneFlight

LEMMA RowsGrow ==
  ASSUME NEW rows, NEW f \in Nat, NEW x, NEW new, RowsInOrder(rows, f), Put(rows, x, new),
         f <= Len(rows), x.id = <<1, Len(rows) - f>>
  PROVE  RowsInOrder(new, f)
<1>1. PICK l : l = Len(rows)
  OBVIOUS
<1>2. /\ l \in Nat /\ Len(new) = l + 1 /\ new[l + 1] = x /\ f <= l /\ x.id = <<1, l - f>>
      /\ \A k \in 1 .. l : new[k] = rows[k]
  BY <1>1 DEF Put
<1>3. \A k \in 1 .. l - f : rows[f + k].id = <<1, k - 1>>
  BY <1>1 DEF RowsInOrder
<1>4. ASSUME NEW k \in 1 .. l + 1 - f PROVE new[f + k].id = <<1, k - 1>>
  <2>1. CASE k = l + 1 - f
    <3>1. f + k = l + 1 /\ k - 1 = l - f
      BY <1>2, <2>1
    <3> QED
      BY <1>2, <3>1
  <2>2. CASE k # l + 1 - f
    <3>1. k \in 1 .. l - f /\ f + k \in 1 .. l
      BY <1>2, <2>2
    <3> QED
      BY <1>2, <1>3, <3>1
  <2> QED
    BY <2>1, <2>2
<1> QED
  BY <1>2, <1>4 DEF RowsInOrder

LEMMA LogStays ==
  ASSUME [Next]_vars
  PROVE  log' = log \/ DequeueCapture \/ StopCapture \/ Close \/ PublishForeign
<1>1. (\/ Silent \/ OpenMeta \/ DequeueOutput \/ ReadMeta \/ WriteRow \/ DequeueViv
       \/ CloseMeta \/ CloseViv) => log' = log
  BY DEF Silent, OpenMeta, DequeueOutput, ReadMeta, WriteRow, DequeueViv, CloseMeta,
     CloseViv, metaVars
<1>2. RunJob \/ DrainOpen \/ DrainFails \/ DrainRead => log' = log
  BY DEF RunJob, DrainOpen, DrainFails, DrainRead, metaVars
<1> QED
  BY <1>1, <1>2, SideSteps

(* The rows of the buffers that STREAMOFF or close finds done. *)
LEMMA FinishAll ==
  ASSUME Inv, Finish(DOMAIN node.capDone), RowsInOrder(log, drain.from),
         OneFlight(Len(log) - drain.from, node.capDone, node.outQ), NoErr, errs = 0
  PROVE  /\ RowsInOrder(log', drain.from)
         /\ OneFlight(Len(log') - drain.from, << >>, node.outQ)
<1>1. /\ log \in Seq(Rows) /\ node \in NodeType /\ node.capDone \in Seq(DoneType)
      /\ node.outQ \in Seq(InType) /\ Len(node.capDone) \in Nat /\ Len(node.outQ) \in Nat
      /\ Len(log) \in Nat /\ DOMAIN node.capDone = 1 .. Len(node.capDone)
      /\ drain.from \in Nat /\ drain.got \in Nat /\ drain.from + drain.got <= Len(log)
  BY Kept DEF MetaTypes, NodeType, DrainType
<1>2. drain.from <= Len(log)
  BY <1>1
<1>3. Len(node.capDone) \in {0, 1}
  <2>1. PICK a, b : a = Len(node.capDone) /\ b = Len(node.outQ)
    OBVIOUS
  <2>2. a \in Nat /\ b \in Nat /\ a + b <= 1
    BY <1>1, <2>1 DEF OneFlight
  <2>3. a = 0 \/ a = 1
    BY <2>2
  <2> QED
    BY <2>1, <2>3
<1>4. CASE Len(node.capDone) = 0
  <2>1. DOMAIN node.capDone = {}
    BY <1>1, <1>4
  <2>2. Len(log') = Len(log) /\ Grown({})
    BY <1>1, <2>1, FinishesNone
  <2>3. \A k \in 1 .. Len(log) : log'[k] = log[k]
    BY <2>2 DEF Grown
  <2>4. RowsInOrder(log', drain.from)
    <3>1. PICK l, f : l = Len(log) /\ f = drain.from
      OBVIOUS
    <3>2. l \in Nat /\ f \in Nat /\ f <= l
      BY <1>1, <1>2, <3>1
    <3>3. ASSUME NEW k \in 1 .. l - f PROVE log'[f + k].id = <<1, k - 1>>
      <4>1. f + k \in 1 .. l
        BY <3>2
      <4>2. log'[f + k] = log[f + k]
        BY <2>3, <3>1, <4>1
      <4> QED
        BY <3>1, <4>2 DEF RowsInOrder
    <3> QED
      BY <2>2, <3>1, <3>3 DEF RowsInOrder
  <2> QED
    BY <1>1, <2>2, <2>4, FlightLess
<1>5. CASE Len(node.capDone) = 1
  <2>1. DOMAIN node.capDone = {1} /\ 1 \in 1 .. Len(node.capDone)
    BY <1>1, <1>5
  <2>2. ~node.capDone[1].err
    BY <2>1 DEF NoErr
  <2>3. Put(log, RowOf(node.capDone[1]), log')
    BY <1>1, <2>1, <2>2, FinishesOne
  <2>4. node.capDone[1].id = <<1, Len(log) - drain.from>> /\ Len(node.outQ) = 0
    BY <1>1, <1>5, <2>1 DEF OneFlight
  <2>5. RowsInOrder(log', drain.from)
    <3>1. RowOf(node.capDone[1]).id = <<1, Len(log) - drain.from>>
      BY <2>4 DEF RowOf
    <3> QED
      BY <1>1, <1>2, <2>3, <3>1, RowsGrow
  <2>6. OneFlight(Len(log') - drain.from, << >>, node.outQ)
    <3>1. Len(<< >>) = 0 /\ \A k \in 1 .. 0 : FALSE
      OBVIOUS
    <3> QED
      BY <2>4, <3>1 DEF OneFlight
  <2> QED
    BY <2>5, <2>6
<1> QED
  BY <1>3, <1>4, <1>5

(* A capture tool submits when nothing is in flight. *)
LEMMA NothingInFlight ==
  ASSUME Inv, Flight, Live, Copier(Prog), At("submit"), Phase = "loop"
  PROVE  /\ Len(node.capDone) = 0 /\ Len(node.outQ) = 0 /\ FrameNo = me.i
         /\ Done(me, Prog, "dqCap") = me.i
<1>1. Kind(Prog) /\ me \in MeType
  BY Where
<1>2. HasNode(Prog) /\ ~Runner(Prog) /\ "submit" \in Calls(Prog.loop) /\ Prog.depth = 0
  BY <1>1, KindFacts DEF Copier
<1>3. ~Past(me, Prog, "submit") /\ ~Past(me, Prog, "dqCap")
  BY <1>2, OtherPast DEF HasNode
<1>4. ~(Prog.depth > 0)
  BY <1>2
<1>5. Sent(me, Prog) = me.i /\ Done(me, Prog, "dqCap") = me.i /\ FrameNo = me.i
  BY <1>2, <1>3, <1>4 DEF Sent, Done, FrameNo
<1>6. Len(node.capDone) \in Nat /\ Len(node.outQ) \in Nat /\ me.i \in Nat
  BY <1>1, Kept, MeFields DEF NodeType
<1>7. me.i + Len(node.capDone) + Len(node.outQ) = me.i
  BY <1>2, <1>5 DEF Flight, Trail
<1> QED
  BY <1>5, <1>6, <1>7

LEMMA DrainFlowNext ==
  ASSUME Inv, Inv', Counters, NoErr, Flight, DrainState, DrainFlow, Way, [Next]_vars
  PROVE  DrainFlow'
<1> SUFFICES ASSUME Clean' PROVE DrainFlow'
  BY DEF DrainFlow
<1>1. /\ log \in Seq(Rows) /\ node \in NodeType /\ node.capDone \in Seq(DoneType)
      /\ node.outQ \in Seq(InType) /\ Len(node.capDone) \in Nat /\ Len(node.outQ) \in Nat
      /\ Len(log) \in Nat /\ drain \in DrainType /\ errs \in Nat
      /\ drain.from \in Nat /\ drain.got \in Nat /\ drain.from + drain.got <= Len(log)
  <2>1. /\ log \in Seq(Rows) /\ node \in NodeType /\ drain \in DrainType
        /\ drain.from + drain.got <= Len(log) /\ errs \in 0 .. MaxErrors
    BY Kept DEF MetaTypes, OtherTypes
  <2>2. node.capDone \in Seq(DoneType) /\ node.outQ \in Seq(InType)
    BY <2>1 DEF NodeType
  <2>3. drain.from \in Nat /\ drain.got \in Nat
    BY <2>1 DEF DrainType
  <2>4. errs \in Nat
    BY <2>1
  <2>5. Len(log) \in Nat /\ Len(node.capDone) \in Nat /\ Len(node.outQ) \in Nat
    BY <2>1, <2>2
  <2> QED
    BY <2>1, <2>2, <2>3, <2>4, <2>5
<1>2. drain.from <= Len(log)
  BY <1>1
<1>3. errs' = 0 /\ drain'.state \in {"reading", "done"}
      /\ \A k \in drain'.from + 1 .. Len(log') : log'[k].own
  BY DEF Clean, Undisturbed
<1>4. CASE DrainOpen
  <2>1. /\ drain.state = "starting" /\ drain'.from = Len(log) /\ log' = log /\ node' = node
        /\ me' = me
    BY <1>1, <1>4 DEF DrainOpen, metaVars, DrainType
  <2>2. me.pc[1] = "setup" /\ me.i = 0 /\ node.capDone = << >> /\ node.outQ = << >>
    BY <2>1 DEF DrainState
  <2>3. Done(me', Prog', "dqCap") = 0
    BY <2>1, <2>2 DEF Done, Past
  <2>4. RowsInOrder(log', drain'.from)
    <3>1. \A k \in 1 .. Len(log) - Len(log) : FALSE
      BY <1>1
    <3> QED
      BY <2>1, <3>1 DEF RowsInOrder
  <2>5. OneFlight(Len(log') - drain'.from, node'.capDone, node'.outQ)
    <3>1. Len(<< >>) = 0 /\ \A k \in 1 .. 0 : FALSE
      OBVIOUS
    <3> QED
      BY <2>1, <2>2, <3>1 DEF OneFlight
  <2> QED
    BY <1>1, <2>1, <2>3, <2>4, <2>5 DEF DrainFlow
<1>5. CASE ~DrainOpen
  <2>1. drain'.from = drain.from /\ drain.state \in {"reading", "done"}
    BY <1>1, <1>3, <1>5, DrainSteps DEF DrainRead, DrainFails, DrainType
  <2>2. me.runs # << >> => Scripted(Head(me.runs)) /\ Len(me.runs) = 1
    BY <2>1 DEF DrainState
  <2>3. ~NewRun
    <3>1. NewRun => Len(me.runs) > 1 /\ me.runs # << >>
      BY ClosedBefore DEF NewRun
    <3>2. ~(1 > 1)
      OBVIOUS
    <3> QED
      BY <2>2, <3>1, <3>2
  <2>10. me.runs # << >> => Copier(Prog)
    <3>1. me.runs # << >> => Head(me.runs) \in Names
      BY MeFields, MainRuns DEF Inv, Types
    <3> QED
      BY <2>2, <3>1, Kinds DEF Prog
  <2>11. DequeueCapture => Put(log, RowOf(node.capDone[1]), log')
    <3> SUFFICES ASSUME DequeueCapture PROVE Put(log, RowOf(node.capDone[1]), log')
      OBVIOUS
    <3>1. Finish({1}) /\ node.capDone # << >>
      BY DEF DequeueCapture
    <3>2. 1 \in 1 .. Len(node.capDone) /\ 1 \in DOMAIN node.capDone
      BY <1>1, <3>1, Takes DEF Took
    <3>3. errs = 0
      BY <1>3 DEF DequeueCapture
    <3> QED
      BY <1>1, <3>1, <3>2, <3>3, FinishesOne DEF NoErr
  <2>4. errs = 0
    <3>1. CASE Close
      <4>1. me.runs # << >>
        BY <3>1 DEF Close, At, Exited
      <4>2. ~(Len(me.runs) > 1)
        <5>1. ~(1 > 1)
          OBVIOUS
        <5>2. Len(me.runs) = 1
          BY <2>2, <4>1
        <5> QED
          BY ONLY <5>1, <5>2
      <4> QED
        BY <1>3, <3>1, <4>2 DEF Close, NextRun
    <3>2. CASE ~Close
      BY <1>3, <3>2, ErrsBack
    <3> QED
      BY <3>1, <3>2
  <2>5. Clean
    BY <1>1, <1>3, <2>1, <2>4, UndisturbedBack DEF Clean
  <2>6. /\ RowsInOrder(log, drain.from)
        /\ OneFlight(Len(log) - drain.from, node.capDone, node.outQ)
        /\ Live => Len(log) = drain.from + Done(me, Prog, "dqCap")
    BY <2>5 DEF DrainFlow
  <2>7. ~PublishForeign
    <3>1. ASSUME PublishForeign PROVE FALSE
      <4>1. Put(log, NoRow, log') /\ ~NoRow.own
        BY <3>1, ForeignRow
      <4>2. Len(log) + 1 \in drain'.from + 1 .. Len(log')
        BY <1>1, <1>2, <2>1, <4>1 DEF Put
      <4> QED
        BY <1>3, <4>1, <4>2 DEF Put
    <3> QED
      BY <3>1
  <2>8. /\ RowsInOrder(log', drain.from)
        /\ OneFlight(Len(log') - drain.from, node'.capDone, node'.outQ)
    <3>1. CASE DequeueCapture
      <4>1. /\ Finish({1}) /\ node.capDone # << >> /\ node'.outQ = node.outQ
            /\ node'.capDone = Tail(node.capDone)
        BY <1>1, <3>1 DEF DequeueCapture, NodeType
      <4>2. Took(node.capDone, node'.capDone) /\ 1 \in 1 .. Len(node.capDone)
            /\ 1 \in DOMAIN node.capDone
        BY <1>1, <4>1, Takes DEF Took
      <4>3. Put(log, RowOf(node.capDone[1]), log')
        BY <2>11, <3>1
      <4>4. /\ OneFlight(Len(log') - drain.from, node'.capDone, node'.outQ)
            /\ node.capDone[1].id = <<1, Len(log) - drain.from>>
        BY <1>1, <2>6, <4>1, <4>2, FlightTook
      <4>5. RowOf(node.capDone[1]).id = <<1, Len(log) - drain.from>>
        BY <4>4 DEF RowOf
      <4> QED
        BY <1>1, <1>2, <2>6, <4>3, <4>4, <4>5, RowsGrow
    <3>2. CASE StopCapture \/ Close
      <4>1. Finish(DOMAIN node.capDone) /\ node'.capDone = << >>
            /\ (node'.outQ = node.outQ \/ node'.outQ = << >>)
        <5>1. Finish(DOMAIN node.capDone)
          BY <3>2 DEF StopCapture, Close
        <5>2. StopCapture => node'.capDone = << >> /\ node'.outQ = node.outQ
          BY <1>1 DEF StopCapture, NodeType
        <5>3. Close => node'.capDone = << >> /\ node'.outQ = << >>
          BY DEF Close, ClosedNode
        <5> QED
          BY <3>2, <5>1, <5>2, <5>3
      <4>2. /\ RowsInOrder(log', drain.from)
            /\ OneFlight(Len(log') - drain.from, << >>, node.outQ)
        BY <2>4, <2>6, <4>1, FinishAll
      <4>3. Len(<< >>) \in Nat
        OBVIOUS
      <4> QED
        BY <1>1, <4>1, <4>2, <4>3, FlightLess
    <3>3. CASE ~DequeueCapture /\ ~StopCapture /\ ~Close
      <4>1. log' = log
        BY <2>7, <3>3, LogStays
      <4>2. CASE QueuesKept
        BY <2>6, <4>1, <4>2 DEF QueuesKept
      <4>3. CASE Submit
        <5>1. PICK b : Sends(b)
          BY <4>3, SubmitDoes
        <5>2. At("submit") /\ me.runs # << >>
          BY <4>3, SubmitDoes
        <5>3. Copier(Prog) /\ Kind(Prog) /\ Phase \in Phases
              /\ (Phase = "setup" => "submit" \in Calls(Prog.setup))
              /\ Phase # "cleanup" /\ Phase # "after"
              /\ Len(me.runs) = 1
          <6>1. Copier(Prog) /\ Len(me.runs) = 1 /\ Kind(Prog)
            BY <2>2, <2>10, <5>2, Where
          <6> QED
            BY <5>2, <6>1, Where DEF Quits
        <5>4. Phase = "loop" /\ Live
          <6>1. "submit" \notin Calls(Prog.setup)
            BY <5>3 DEF Copier, NodeSetup, VivSetup
          <6>2. Phase # "fill"
            <7>1. Prog.depth = 0 /\ me.sent \in Nat
              BY <5>3, MeFields DEF Copier, Inv, Types
            <7>2. Phase = "fill" => me.sent < Prog.depth
              BY <5>2 DEF Counters, Live
            <7> QED
              BY <7>1, <7>2
          <6> QED
            BY <5>2, <5>3, <6>1, <6>2 DEF Phases, Live
        <5>5. /\ Len(node.capDone) = 0 /\ Len(node.outQ) = 0 /\ FrameNo = me.i
              /\ Done(me, Prog, "dqCap") = me.i
          BY <5>2, <5>3, <5>4, NothingInFlight
        <5>6. Len(log) - drain.from = me.i
          <6>1. Len(log) = drain.from + me.i /\ me.i \in Nat
            BY <2>6, <5>4, <5>5, MeFields DEF Inv, Types
          <6> QED
            BY <1>1, <6>1
        <5>7. /\ Put(node.outQ, b, node'.outQ) /\ node'.capDone = node.capDone
              /\ b.id = <<1, Len(log) - drain.from>>
          BY <5>1, <5>3, <5>5, <5>6 DEF Sends, Id
        <5> QED
          BY <2>6, <4>1, <5>5, <5>7, FlightStarts
      <4>4. CASE RunJob
        <5>1. PICK in, b : Jobs(in, b)
          BY <4>4, RunJobDoes
        <5>2. /\ Took(node.outQ, node'.outQ) /\ Put(node.capDone, b, node'.capDone)
              /\ b.id = node.outQ[1].id
          BY <5>1 DEF Jobs
        <5> QED
          BY <2>6, <4>1, <5>2, FlightMoves
      <4>5. CASE OpenNode \/ StopOutput
        <5>1. /\ node'.outQ = << >>
              /\ node'.capDone = node.capDone \/ node'.capDone = << >>
          BY <1>1, <4>5 DEF OpenNode, StopOutput, NodeType, ClosedNode
        <5> QED
          BY <1>1, <2>6, <4>1, <5>1, FlightLess
      <4> QED
        BY <3>3, <4>2, <4>3, <4>4, <4>5, QueueSteps
    <3> QED
      BY <3>1, <3>2, <3>3
  <2>9. ASSUME Live' PROVE Len(log') = drain.from + Done(me', Prog', "dqCap")
    <3>1. CASE me' = me /\ Others
      <4>1. Live /\ Prog' = Prog
        BY <2>9, <3>1 DEF Live, Phase, Prog
      <4>2. log' = log
        BY <2>7, <3>1 DEF Others, RunJob, VividFill, VividSkip, DrainOpen, DrainRead, metaVars,
           vars
      <4> QED
        BY <2>6, <3>1, <4>1, <4>2
    <3>2. ASSUME ~Others, NEW c, NEW s, Makes(c, s), Acts(c, s)
          PROVE  Len(log') = drain.from + Done(me', Prog', "dqCap")
      <4>1. Live /\ Prog' = Prog /\ At(c) /\ me.runs # << >>
        BY <3>2 DEF Makes, Live
      <4>2. Len(log) = drain.from + Done(me, Prog, "dqCap") /\ Done(me, Prog, "dqCap") \in Nat
        BY <2>6, <4>1, DoneType1 DEF Inv, Types
      <4>3. "dqCap" \in Calls(Prog.loop)
        <5>1. Copier(Prog)
          BY <2>10, <4>1
        <5> QED
          BY <5>1 DEF Copier
      <4>4. Done(me', Prog, "dqCap") = Done(me, Prog, "dqCap")
              + (IF me.pc[1] = "loop" /\ "dqCap" = c THEN 1 ELSE 0)
        BY <3>2, <4>3 DEF Makes, Forward
      <4>5. CASE c = "dqCap"
        <5>1. DequeueCapture /\ Phase = "loop"
          BY <3>2, <4>5, InLoop DEF Acts, LoopCalls
        <5>2. Len(log') = Len(log) + 1
          BY <2>11, <5>1 DEF Put
        <5> QED
          BY <1>1, <4>1, <4>2, <4>4, <4>5, <5>1, <5>2 DEF Phase
      <4>6. CASE c # "dqCap"
        <5>1. log' = log
          BY <3>2, <4>6, MakesSide
        <5> QED
          BY <4>1, <4>2, <4>4, <4>6, <5>1
      <4> QED
        BY <4>5, <4>6
    <3> QED
      BY <2>3, <2>9, <3>1, <3>2 DEF Way, Ends
  <2> QED
    BY <2>1, <2>8, <2>9 DEF DrainFlow
<1> QED
  BY <1>4, <1>5

-----------------------------------------------------------------------------
(* Everything about frames and rows, from the first state on. *)
Frame1 == Counters /\ Flight /\ Ours /\ NoErr /\ MetaOk
Frame2 == Pace /\ DrainState /\ DrainFlow

LEMMA FirstState ==
  ASSUME Init
  PROVE  /\ me.runs \in Mains /\ me.runs # << >> /\ Head(me.runs) \in Names
         /\ me.pc = <<"setup", 1>> /\ me.sent = 0 /\ me.i = 0 /\ me \in MeType
         /\ Plan(Prog) /\ Kind(Prog) /\ Placed(me, Prog) /\ Phase = "setup"
         /\ node = ClosedNode /\ cur = Fresh /\ log = << >> /\ errs = 0 /\ viv = ClosedViv
         /\ meta = [open |-> FALSE, from |-> 0, pos |-> 0]
<1>1. PICK r \in Mains : me = [runs |-> r, pc |-> <<"setup", 1>>, sent |-> 0, i |-> 0,
                               why |-> "none"]
  BY DEF Init
<1>2. /\ me.runs = r /\ me.pc = <<"setup", 1>> /\ me.sent = 0 /\ me.i = 0
      /\ r # << >> /\ Head(r) \in Names
  BY <1>1, MainRuns
<1>3. me \in MeType /\ Inv
  BY InitInv DEF Inv, Types
<1>4. Plan(Prog) /\ Kind(Prog)
  BY <1>2, Kinds, ProgramPlans DEF Prog
<1>5. Placed(me, Prog) /\ Phase = "setup"
  BY <1>2, <1>3 DEF Inv, Place, Phase
<1> QED
  BY <1>2, <1>3, <1>4, <1>5 DEF Init

LEMMA FrameInit == Init => Frame1 /\ Frame2
<1> SUFFICES ASSUME Init PROVE Frame1 /\ Frame2
  OBVIOUS
<1>1. /\ node.capDone = << >> /\ node.outQ = << >> /\ ~meta.open /\ meta.from = 0
      /\ meta.pos = 0 /\ ~cur.read
  BY FirstState DEF ClosedNode, Fresh
<1>2. Counters
  BY FirstState DEF Counters
<1>3. Len(<< >>) = 0 /\ \A k \in 1 .. 0 : FALSE
  OBVIOUS
<1>4. Flight
  <2>1. Done(me, Prog, "dqCap") = 0 /\ Sent(me, Prog) = 0
    BY FirstState, NothingSent
  <2> QED
    BY <1>1, <1>3, <2>1 DEF Flight, Trail
<1>5. Ours /\ NoErr
  BY <1>1, <1>3, OursNone DEF Ours, NoErr
<1>6. MetaOk
  BY <1>1 DEF MetaOk
<1>7. Pace
  BY <1>1 DEF Pace
<1>8. DrainState /\ drain.state \in {"starting", "none"}
  <2>1. /\ drain.state = (IF Scripted(Head(me.runs)) THEN "starting" ELSE "none")
    BY DEF Init
  <2>2. Scripted(Head(me.runs)) => Len(me.runs) = 1
    <3>1. ~Scripted("runOne")
      BY DEF Scripted
    <3>2. Len(me.runs) \in 1 .. 2 /\ (Len(me.runs) > 1 => Head(me.runs) = "runOne")
      BY FirstState, MainRuns
    <3> QED
      BY <3>1, <3>2
  <2> QED
    BY <1>1, <2>1, <2>2, FirstState DEF DrainState
<1>9. DrainFlow
  BY <1>8 DEF DrainFlow, Clean
<1> QED
  BY <1>2, <1>4, <1>5, <1>6, <1>7, <1>8, <1>9 DEF Frame1, Frame2

LEMMA FrameNext == Inv /\ Inv' /\ [Next]_vars /\ Frame1 /\ Frame2 => Frame1' /\ Frame2'
<1> SUFFICES ASSUME Inv, Inv', [Next]_vars, Frame1, Frame2 PROVE Frame1' /\ Frame2'
  OBVIOUS
<1>1. Way
  BY Ways
<1>2. /\ Counters /\ Flight /\ Ours /\ NoErr /\ MetaOk /\ Pace /\ DrainState /\ DrainFlow
  BY DEF Frame1, Frame2
<1>3. Counters' /\ Flight' /\ Ours' /\ NoErr'
  BY <1>1, <1>2, CountersNext, FlightNext, OursNext, NoErrNext
<1>4. MetaOk' /\ Pace' /\ DrainState'
  BY <1>1, <1>2, MetaOkNext, PaceNext, DrainStateNext
<1>5. DrainFlow'
  BY <1>1, <1>2, DrainFlowNext
<1> QED
  BY <1>3, <1>4, <1>5 DEF Frame1, Frame2

LEMMA FrameHolds == Spec => [](Inv /\ Frame1 /\ Frame2)
  BY InitInv, NextInv, FrameInit, FrameNext, PTL DEF Spec

LEMMA RowOfFrameIn == Inv /\ Frame1 /\ Frame2 => RowOfFrame
<1> SUFFICES ASSUME Inv, Frame1, Frame2 PROVE RowOfFrame
  OBVIOUS
<1>1. MetaOk /\ Pace /\ DrainState /\ DrainFlow
  BY DEF Frame1, Frame2
<1>2. ASSUME At("row"), cur.read
      PROVE  /\ cur.row.own => cur.row.id[1] = Len(me.runs)
             /\ Undisturbed(meta.from)
                  => cur.row.id = cur.cap.id /\ ~(Verifies /\ cur.cap.dropped)
  <2>1. Live
    BY <1>2, Where DEF Live, Quits
  <2>2. cur.row.own => cur.row.id[1] = Len(me.runs)
    BY <1>1, <1>2, <2>1 DEF MetaOk, Live
  <2>3. Undisturbed(meta.from) => RowFits(cur.row)
    BY <1>1, <1>2, <2>1 DEF Pace
  <2> QED
    BY <2>2, <2>3 DEF RowFits, Verifies
<1>3. ASSUME drain.state = "done", Undisturbed(drain.from), NEW k \in 1 .. Frames
      PROVE  log[drain.from + k].id = <<1, k - 1>>
  <2>1. RowsInOrder(log, drain.from) /\ drain.got = Frames
    BY <1>1, <1>3 DEF DrainFlow, Clean, DrainState
  <2>2. /\ drain.from \in Nat /\ Len(log) \in Nat /\ drain.from + Frames <= Len(log)
        /\ Frames \in Nat
    BY <2>1, Kept, Constants DEF MetaTypes, DrainType
  <2>3. k \in 1 .. Len(log) - drain.from
    BY <2>2
  <2> QED
    BY <2>1, <2>3 DEF RowsInOrder
<1> QED
  BY <1>2, <1>3 DEF RowOfFrame

(* A row that the runner's read_meta returns describes the buffer it has   *)
(* just dequeued, and --verify-pattern does not look at a frame whose row  *)
(* says it was dropped, as long as no other context publishes and no job   *)
(* fails; whatever happens, no row of the earlier run of --compare is      *)
(* taken for one of the later.                                             *)
(* Under the same proviso the rows vpipe-meta-drain records are those of   *)
(* the first frames of the capture beside it, in order.                    *)
THEOREM RowOfFrameHolds == Spec => []RowOfFrame
  BY FrameHolds, RowOfFrameIn, PTL

-----------------------------------------------------------------------------
(* The actions that touch the camera, the slots, the time stamps, the      *)
(* memories.                                                               *)
LEMMA FieldSteps ==
  ASSUME [Next]_vars
  PROVE  /\ \/ viv' = viv \/ OpenViv \/ RequestViv \/ QueueSlots \/ RequeueViv
            \/ StreamOnViv \/ DequeueViv \/ StopViv \/ CloseViv \/ VividFill \/ VividSkip
         /\ slot' = slot \/ MapSlots \/ QueueSlots \/ RequeueViv \/ Remap
         /\ stamp' = stamp \/ Submit \/ QueueSlots \/ RequeueViv \/ Close \/ CloseViv
         /\ mem' = mem \/ FillHeap \/ StreamOn \/ Submit \/ VividFill
<1> USE DEF progVars, metaVars
<1>1. (\/ Plain \/ Export \/ SubmitNone \/ Verify \/ OpenNode \/ SetFormat \/ OpenMeta)
        => viv' = viv /\ slot' = slot /\ stamp' = stamp /\ mem' = mem
  BY DEF Plain, Export, SubmitNone, Verify, OpenNode, SetFormat, OpenMeta
<1>2. (\/ QueueCaptures \/ SetSequence \/ RequeueCapture \/ DequeueCapture \/ ReadMeta
       \/ DequeueOutput \/ WriteRow \/ RequestBuffers)
        => viv' = viv /\ slot' = slot /\ stamp' = stamp /\ mem' = mem
  BY DEF QueueCaptures, SetSequence, RequeueCapture, DequeueCapture, ReadMeta,
     DequeueOutput, WriteRow, RequestBuffers
<1>3. (\/ StopOutput \/ StopCapture \/ CloseMeta \/ Refused \/ Crashes \/ Fails \/ Killed
       \/ UNCHANGED vars)
        => viv' = viv /\ slot' = slot /\ stamp' = stamp /\ mem' = mem
  BY DEF StopOutput, StopCapture, CloseMeta, Refused, Crashes, Fails, Killed, Dies, vars
<1>4. (\/ RunJob \/ PublishForeign \/ DrainOpen \/ DrainFails \/ DrainRead)
        => viv' = viv /\ slot' = slot /\ stamp' = stamp /\ mem' = mem
  BY DEF RunJob, PublishForeign, DrainOpen, DrainFails, DrainRead
<1>5. /\ FillHeap \/ StreamOn => viv' = viv /\ slot' = slot /\ stamp' = stamp
      /\ Submit => viv' = viv /\ slot' = slot
      /\ Close => viv' = viv /\ slot' = slot /\ mem' = mem
      /\ CloseViv => slot' = slot /\ mem' = mem
  BY DEF FillHeap, StreamOn, Submit, Close, CloseViv
<1>6. /\ OpenViv \/ RequestViv \/ StreamOnViv \/ DequeueViv \/ StopViv \/ VividSkip
           => slot' = slot /\ stamp' = stamp /\ mem' = mem
      /\ VividFill => slot' = slot /\ stamp' = stamp
      /\ MapSlots \/ Remap => viv' = viv /\ stamp' = stamp /\ mem' = mem
      /\ QueueSlots \/ RequeueViv => mem' = mem
  BY DEF OpenViv, RequestViv, StreamOnViv, DequeueViv, StopViv, VividSkip, VividFill,
     MapSlots, Remap, QueueSlots, RequeueViv, QueueViv
<1> QED
  BY <1>1, <1>2, <1>3, <1>4, <1>5, <1>6 DEF Next, Program

LEMMA JobKeepsOpen ==
  ASSUME Inv, RunJob
  PROVE  node'.open = node.open /\ node'.seq = node.seq
<1>1. node \in NodeType
  BY Kept
<1>2. PICK in, b : Jobs(in, b)
  BY RunJobDoes
<1>3. PICK p, q, r, t : /\ p = node'.outQ /\ q = node'.capQ /\ r = node'.outDone
                        /\ t = node'.capDone
  OBVIOUS
<1>4. node' = [node EXCEPT !.outQ = p, !.capQ = q, !.outDone = r, !.capDone = t]
  BY <1>2, <1>3 DEF Jobs
<1> QED
  BY <1>1, <1>4 DEF NodeType

LEMMA OpenSteps ==
  ASSUME Inv, [Next]_vars
  PROVE  /\ node'.open = node.open \/ OpenNode \/ Close
         /\ node'.seq = node.seq \/ OpenNode \/ Close \/ SetSequence
         /\ viv'.open = viv.open \/ OpenViv \/ CloseViv
<1>1. node \in NodeType /\ viv \in VivType
  BY Kept DEF OtherTypes
<1>2. viv'.open = viv.open \/ OpenViv \/ CloseViv
  <2>1. RequestViv => viv'.open = viv.open
    BY <1>1 DEF RequestViv, VivType
  <2>2. QueueSlots \/ RequeueViv => viv'.open = viv.open
    BY <1>1 DEF QueueSlots, RequeueViv, QueueViv, VivType
  <2>3. StreamOnViv \/ DequeueViv \/ StopViv \/ VividFill \/ VividSkip
          => viv'.open = viv.open
    BY <1>1 DEF StreamOnViv, DequeueViv, StopViv, VividFill, VividSkip, VivType
  <2> QED
    BY <2>1, <2>2, <2>3, FieldSteps
<1>3. /\ node'.open = node.open \/ OpenNode \/ Close
      /\ node'.seq = node.seq \/ OpenNode \/ Close \/ SetSequence
  <2>1. (\/ Plain \/ FillHeap \/ OpenMeta \/ Export \/ SubmitNone \/ ReadMeta
         \/ WriteRow \/ Verify \/ OpenViv \/ RequestViv) => node' = node
    BY DEF Plain, FillHeap, OpenMeta, Export, SubmitNone, ReadMeta, WriteRow,
       Verify, OpenViv, RequestViv
  <2>2. (\/ MapSlots \/ QueueSlots \/ RequeueViv \/ StreamOnViv \/ DequeueViv
         \/ Remap \/ StopViv \/ CloseMeta \/ CloseViv) => node' = node
    BY DEF MapSlots, QueueSlots, RequeueViv, QueueViv, StreamOnViv, DequeueViv,
       Remap, StopViv, CloseMeta, CloseViv
  <2>3. (\/ Refused \/ Crashes \/ Fails \/ Killed \/ VividFill \/ VividSkip \/ DrainOpen
         \/ DrainFails \/ DrainRead \/ UNCHANGED vars \/ PublishForeign) => node' = node
    BY DEF Refused, Crashes, Fails, Killed, Dies, VividFill, VividSkip, DrainOpen,
       DrainFails, DrainRead, vars, PublishForeign
  <2>4. /\ SetFormat \/ DequeueOutput \/ StopOutput \/ StopCapture \/ DequeueCapture
             => node'.open = node.open /\ node'.seq = node.seq
        /\ SetSequence => node'.open = node.open
    BY <1>1 DEF SetFormat, SetSequence, DequeueOutput, StopOutput, StopCapture,
       DequeueCapture, NodeType
  <2>5. RequestBuffers => node'.open = node.open /\ node'.seq = node.seq
    <3>1. RequestBuffers =>
            \/ \E x : node' = [node EXCEPT !.n.OUT = x, !.plane.OUT = node.size]
            \/ \E x : node' = [node EXCEPT !.n.CAP = x, !.plane.CAP = node.size]
      BY DEF RequestBuffers
    <3> QED
      BY <1>1, <3>1 DEF NodeType
  <2>6. QueueCaptures \/ RequeueCapture \/ StreamOn
          => node'.open = node.open /\ node'.seq = node.seq
    <3>1. QueueCaptures \/ RequeueCapture \/ StreamOn =>
            \/ \E x : node' = [node EXCEPT !.capQ = x]
            \/ \E x : node' = [node EXCEPT !.on = x]
      BY DEF QueueCaptures, RequeueCapture, StreamOn
    <3> QED
      BY <1>1, <3>1 DEF NodeType
  <2>7. Submit => node'.open = node.open /\ node'.seq = node.seq
    <3>1. Submit => \E b : node' = [node EXCEPT !.outQ = Append(node.outQ, b)]
      BY SubmitDoes DEF Sends
    <3> QED
      BY <1>1, <3>1 DEF NodeType
  <2>8. RunJob => node'.open = node.open /\ node'.seq = node.seq
    BY <1>1, JobKeepsOpen
  <2> QED
    BY <2>1, <2>2, <2>3, <2>4, <2>5, <2>6, <2>7, <2>8 DEF Next, Program
<1> QED
  BY <1>2, <1>3

(* A program that needs a device has opened it, the others have not. *)
Opened ==
  me.runs # << >> =>
    /\ ~HasNode(Prog) => ~node.open
    /\ ~HasViv(Prog) => ~viv.open
    /\ Phase # "cleanup" /\ HasNode(Prog) /\ Ready(me, Prog, "open") => node.open
    /\ Phase # "cleanup" /\ HasViv(Prog) /\ Ready(me, Prog, "openViv") => viv.open

LEMMA OpenCalls ==
  ASSUME NEW g, Kind(g)
  PROVE  /\ "open" \in Calls(g.setup) <=> HasNode(g)
         /\ "openViv" \in Calls(g.setup) <=> HasViv(g)
         /\ "open" \notin Calls(g.loop) /\ "openViv" \notin Calls(g.loop)
  BY DEF Kind, HasNode, HasViv, Runner, Copier, Bench, Feeder, Camera, NodeSetup, VivSetup

(* --compare: the second run is a run with DMABUF memory. *)
LEMMA SecondRun ==
  ASSUME Inv, NewRun
  PROVE  /\ Runner(Prog) /\ Runner(Prog') /\ Kind(Prog') /\ me.runs # << >>
         /\ Phase' = "setup" /\ me'.pc[2] = 1 /\ node' = ClosedNode /\ viv' = viv
         /\ cur' = Fresh /\ mem' = mem /\ me' \in MeType /\ Plan(Prog')
         /\ \A x : ~Past(me', Prog', x) /\ ~Ready(me', Prog', x)
<1>1. /\ me.runs \in Mains /\ Len(me.runs) > 1 /\ Head(me.runs) = "runOne" /\ me.runs # << >>
      /\ me'.runs = Tail(me.runs) /\ me'.pc = <<"setup", 1>> /\ me' \in MeType
  BY ClosedBefore, Planned DEF NewRun, Inv, Types
<1>2. me'.runs = <<"runDmabuf">>
  <2>1. \A z : Len(<<z>>) = 1 /\ ~(1 > 1)
    OBVIOUS
  <2>2. me.runs = <<"runOne", "runDmabuf">>
    BY <1>1, <2>1 DEF Mains
  <2>3. Tail(<<"runOne", "runDmabuf">>) = <<"runDmabuf">>
    OBVIOUS
  <2> QED
    BY <1>1, <2>2, <2>3
<1>3. Head(me'.runs) = "runDmabuf"
  BY <1>2
<1>4. "runOne" \in Names /\ "runDmabuf" \in Names
  BY DEF Names
<1>5. Runner(Prog) /\ Runner(Prog') /\ Kind(Prog') /\ Plan(Prog')
  BY <1>1, <1>3, <1>4, Kinds, ProgramPlans DEF Prog
<1>6. node' = ClosedNode /\ viv' = viv /\ mem' = mem /\ cur' = Fresh
  BY DEF NewRun, Close, NextRun
<1>8. \A x : ~Past(me', Prog', x) /\ ~Ready(me', Prog', x)
  <2>1. \A s, C : ~Called(s, 1, C)
    BY CalledNone
  <2> QED
    BY <1>1, <2>1 DEF Past, Ready
<1> QED
  BY <1>1, <1>5, <1>6, <1>8 DEF Phase

LEMMA OpenedNext ==
  ASSUME Inv, Inv', Opened, Way, [Next]_vars
  PROVE  Opened'
<1> SUFFICES ASSUME me'.runs # << >> PROVE Opened'
  BY DEF Opened
<1>1. CASE NewRun
  <2>1. Runner(Prog) /\ Runner(Prog') /\ Kind(Prog') /\ Kind(Prog) /\ me.runs # << >>
    BY <1>1, SecondRun, Planned, Kinds DEF Inv, Types, Prog
  <2>2. ~HasViv(Prog) /\ ~HasViv(Prog') /\ HasNode(Prog')
    BY <2>1, KindFacts DEF Runner, Copier, Camera, HasViv, HasNode
  <2>3. ~viv.open
    BY <2>1, <2>2 DEF Opened
  <2> QED
    BY <1>1, <2>2, <2>3, SecondRun DEF Opened
<1>2. CASE ~NewRun
  <2>1. me'.runs = me.runs /\ me.runs # << >> /\ Prog' = Prog
    BY <1>2, RunsStep DEF Prog
  <2>2. Kind(Prog)
    BY <2>1, Planned, Kinds DEF Inv, Types, Prog
  <2>3. OpenNode => HasNode(Prog) /\ node'.open /\ At("open")
    <3>1. OpenNode => node'.open /\ At("open")
      BY DEF OpenNode, Call, ClosedNode
    <3>2. At("open") => "open" \in Calls(Prog.setup)
      BY Where DEF Phases, LoopCalls, Quits
    <3> QED
      BY <2>2, <3>1, <3>2, OpenCalls
  <2>4. OpenViv => HasViv(Prog) /\ viv'.open /\ At("openViv")
    <3>1. OpenViv => viv'.open /\ At("openViv")
      BY DEF OpenViv, Call, ClosedViv
    <3>2. At("openViv") => "openViv" \in Calls(Prog.setup)
      BY Where DEF Phases, LoopCalls, Quits
    <3> QED
      BY <2>2, <3>1, <3>2, OpenCalls
  <2>5. (Close => ~node'.open) /\ (CloseViv => ~viv'.open)
    BY DEF Close, ClosedNode, CloseViv, ClosedViv
  <2>6. (~HasNode(Prog) => ~node'.open) /\ (~HasViv(Prog) => ~viv'.open)
    BY <2>1, <2>3, <2>4, <2>5, OpenSteps DEF Opened
  <2>7. CASE me' = me /\ Others
    <3>1. Others => node'.open = node.open /\ viv'.open = viv.open
      <4>1. node \in NodeType /\ viv \in VivType
        BY Kept DEF OtherTypes
      <4>2. VividFill \/ VividSkip => node' = node /\ viv'.open = viv.open
        BY <4>1 DEF VividFill, VividSkip, VivType
      <4>3. PublishForeign \/ DrainOpen \/ DrainRead \/ UNCHANGED vars
              => node' = node /\ viv' = viv
        BY DEF PublishForeign, DrainOpen, DrainRead, vars
      <4>4. RunJob => viv' = viv /\ node'.open = node.open
        BY JobKeepsOpen DEF RunJob
      <4> QED
        BY <4>2, <4>3, <4>4 DEF Others
    <3> QED
      BY <2>1, <2>7, <3>1 DEF Opened, Phase
  <2>8. CASE Ends
    <3>1. Phase' = "cleanup"
      BY <2>8 DEF Ends, Live
    <3> QED
      BY <2>1, <2>6, <3>1 DEF Opened
  <2>9. ASSUME NEW c, NEW s, Makes(c, s), Acts(c, s) PROVE Opened'
    <3>1. At(c) /\ Phase # "cleanup"
      BY <2>9 DEF Makes, Live
    <3>2. ~Close /\ ~CloseViv
      <4>1. c \notin Quits
        BY <3>1, Where DEF Quits, LoopCalls, SetupNames, NodeSetup, VivSetup, Phases
      <4> QED
        BY <3>1, <4>1, SameCall DEF Quits, Close, CloseViv
    <3>3. \A x \in Calls(Prog.setup) : Ready(me', Prog, x) => Ready(me, Prog, x) \/ x = c
      BY <2>9 DEF Makes, Forward
    <3>4. ASSUME HasNode(Prog), Ready(me', Prog, "open") PROVE node'.open
      <4>1. CASE c = "open"
        BY <2>3, <2>9, <4>1 DEF Acts
      <4>2. CASE c # "open"
        <5>1. Ready(me, Prog, "open")
          BY <2>2, <3>3, <3>4, <4>2, OpenCalls
        <5>2. node.open
          BY <2>1, <3>1, <3>4, <5>1 DEF Opened
        <5> QED
          BY <2>3, <3>2, <5>2, OpenSteps
      <4> QED
        BY <4>1, <4>2
    <3>5. ASSUME HasViv(Prog), Ready(me', Prog, "openViv") PROVE viv'.open
      <4>1. CASE c = "openViv"
        BY <2>4, <2>9, <4>1 DEF Acts
      <4>2. CASE c # "openViv"
        <5>1. Ready(me, Prog, "openViv")
          BY <2>2, <3>3, <3>5, <4>2, OpenCalls
        <5>2. viv.open
          BY <2>1, <3>1, <3>5, <5>1 DEF Opened
        <5> QED
          BY <2>4, <3>2, <5>2, OpenSteps
      <4> QED
        BY <4>1, <4>2
    <3> QED
      BY <2>1, <2>6, <3>4, <3>5 DEF Opened
  <2> QED
    BY <1>2, <2>7, <2>8, <2>9 DEF Way
<1> QED
  BY <1>1, <1>2

-----------------------------------------------------------------------------
(* A frame that has been submitted and not yet completed has its time in   *)
(* the ring: fewer than N frames are between it and the newest.            *)
InHand(m, g) == Past(m, g, "dqCap") /\ ~Past(m, g, "row")
Stamps ==
  Live /\ HasNode(Prog) /\ ~HasViv(Prog) =>
    /\ \A no \in Nat : me.i <= no /\ no < Sent(me, Prog) => stamp[StampSlot(no)] = Id(no)
    /\ InHand(me, Prog) => cur.cap.id = Id(me.i)

LEMMA RingSlots ==
  ASSUME NEW a \in Nat, NEW b \in Nat, a < b, b - a < N
  PROVE  a % N # b % N /\ a % N \in Idx /\ b % N \in Idx
<1>1. N \in Nat /\ N >= 2
  BY ToolsAssumption
<1>2. a % N \in 0 .. N - 1 /\ b % N \in 0 .. N - 1
  BY <1>1
<1>3. a = N * (a \div N) + (a % N) /\ b = N * (b \div N) + (b % N)
      /\ a \div N \in Int /\ b \div N \in Int
  BY <1>1
<1>4. ASSUME a % N = b % N PROVE FALSE
  <2>1. PICK x, y, z : x = a \div N /\ y = b \div N /\ z = a % N
    OBVIOUS
  <2>2. x \in Int /\ y \in Int /\ a = N * x + z /\ b = N * y + z /\ z \in Nat
    BY <1>1, <1>2, <1>3, <1>4, <2>1
  <2>3. b - a = N * (y - x)
    BY <1>1, <2>2
  <2>4. y - x >= 1
    <3>1. CASE y - x <= 0
      <4>1. N * (y - x) <= 0
        BY <1>1, <2>2, <3>1
      <4> QED
        BY <1>1, <2>2, <2>3, <4>1
    <3> QED
      BY <2>2, <3>1
  <2>5. N * (y - x) >= N
    BY <1>1, <2>2, <2>4
  <2> QED
    BY <1>1, <2>3, <2>5
<1> QED
  BY <1>2, <1>4 DEF Idx

LEMMA TurnCount ==
  ASSUME Inv, Inv', NEW c, NEW s, Makes(c, s)
  PROVE  /\ me'.i \in Nat /\ me.i \in Nat /\ me.i <= me'.i
         /\ InHand(me', Prog) => /\ me'.i = me.i /\ c # "row"
                                 /\ c = "dqCap" \/ InHand(me, Prog)
<1>1. SameTurn(me, me', Prog, c) \/ NewTurn(me, me', Prog, c)
  BY DEF Makes, Forward
<1>2. me'.i \in Nat /\ me.i \in Nat /\ me.pc[1] = Phase
  BY MadeFacts
<1>3. CASE SameTurn(me, me', Prog, c)
  <2>1. CASE Phase = "loop"
    BY <1>2, <1>3, <2>1 DEF SameTurn, InHand
  <2>2. CASE Phase # "loop"
    BY <1>2, <1>3, <2>2, NeverPast DEF SameTurn, InHand
  <2> QED
    BY <2>1, <2>2
<1>4. CASE NewTurn(me, me', Prog, c)
  <2>1. ~InHand(me', Prog)
    BY <1>4 DEF NewTurn, InHand
  <2>2. me'.i = me.i + 1 \/ me'.i = me.i
    BY <1>4 DEF NewTurn
  <2>3. me.i <= me'.i
    BY <1>2, <2>2
  <2> QED
    BY <1>2, <2>1, <2>3
<1> QED
  BY <1>1, <1>3, <1>4

(* Which of the ring's entries a QBUF overwrites. *)
LEMMA StampMade ==
  ASSUME Inv, Inv', Counters, NEW c, NEW s, Makes(c, s), Submit, s = 1, HasNode(Prog),
         NEW no \in Nat, me'.i <= no, no < Sent(me, Prog), me.i <= no
  PROVE  Prog.depth > 0 /\ StampSlot(no) # StampSlot(FrameNo)
<1>1. /\ Sent(me, Prog) = FrameNo /\ c = "submit" /\ Kind(Prog) /\ me.pc[1] = Phase
      /\ Phase \in Phases /\ me.i \in Nat /\ me.sent \in Nat /\ me \in MeType
      /\ me' \in MeType /\ Plan(Prog) /\ Placed(me', Prog) /\ Prog.depth \in Nat
  BY SentNext, MadeFacts DEF FrameNo, Makes
<1>2. Prog.depth > 0
  BY <1>1 DEF FrameNo
<1>3. FrameNo = me.sent /\ Runner(Prog) /\ Prog.depth \in 1 .. N
  BY <1>1, <1>2, KindFacts DEF FrameNo
<1>4. me.sent < no + N
  <2>1. N \in Nat
    BY Constants
  <2>2. CASE Phase = "loop"
    <3>1. me.sent <= me.i + Prog.depth
      BY <1>2, <2>2 DEF Counters, Makes
    <3>2. ~Past(me', Prog, "submit")
      BY <1>1, <1>2, LastCalls
    <3>3. NewTurn(me, me', Prog, c)
      BY <1>1, <2>2, <3>2 DEF Makes, Forward, SameTurn
    <3>4. me'.i = me.i + 1
      BY <1>1, <2>2, <3>3 DEF NewTurn
    <3> QED
      BY <1>1, <1>3, <2>1, <3>1, <3>4
  <2>3. CASE Phase = "fill"
    <3>1. me.sent < Prog.depth
      BY <2>3 DEF Counters, Makes
    <3> QED
      BY <1>1, <1>3, <2>1, <3>1
  <2>4. CASE Phase = "setup"
    <3>1. me.sent = 0
      BY <1>2, <2>4 DEF Counters, Makes
    <3> QED
      BY <1>1, <1>3, <2>1, <3>1
  <2>5. Phase # "after" /\ Phase # "cleanup"
    BY <1>1, Where DEF Makes, Live
  <2> QED
    BY <1>1, <2>2, <2>3, <2>4, <2>5 DEF Phases
<1>5. no < me.sent /\ me.sent - no < N
  BY <1>1, <1>3, <1>4, Constants
<1>6. no % N # me.sent % N
  BY <1>1, <1>5, RingSlots
<1> QED
  BY <1>2, <1>3, <1>6 DEF StampSlot, RingSlot

LEMMA StampKept ==
  ASSUME Inv, NEW c, NEW s, Makes(c, s), Acts(c, s), ~HasViv(Prog), [Next]_vars
  PROVE  stamp' = stamp \/ (Submit /\ s = 1 /\ c = "submit")
<1>1. At(c) /\ Kind(Prog) /\ Phase # "cleanup"
  BY Where DEF Makes, Live
<1>2. c \notin Quits
  BY <1>1, Where DEF Quits, LoopCalls, SetupNames, NodeSetup, VivSetup, Phases
<1>3. ~Close /\ ~CloseViv
  BY <1>1, <1>2, SameCall DEF Quits, Close, CloseViv
<1>4. c \notin {"qVivs", "qViv"}
  <2>1. "qVivs" \notin Calls(Prog.setup) /\ "qViv" \notin Calls(Prog.loop)
    BY <1>1 DEF HasViv, Kind, Runner, Bench, Feeder, Copier, Camera, NodeSetup
  <2> QED
    BY <1>1, <2>1, Where DEF Phases, LoopCalls, SetupNames, NodeSetup, VivSetup
<1>5. ~QueueSlots /\ ~RequeueViv
  BY <1>1, <1>4, SameCall DEF QueueSlots, RequeueViv, Call
<1>6. Submit => s = 1 /\ c = "submit"
  <2>1. Submit => At("submit") /\ Submits
    BY DEF Submit, Call
  <2>2. s \in {0, 1} /\ (s = 0 /\ c = "submit" => ~Submits)
    BY DEF Makes
  <2> QED
    BY <1>1, <2>1, <2>2, SameCall
<1> QED
  BY <1>3, <1>5, <1>6, FieldSteps

LEMMA StampsNext ==
  ASSUME Inv, Inv', Counters, Flight, Opened, Stamps, Way, [Next]_vars
  PROVE  Stamps'
<1>1. CASE Ends
  BY <1>1 DEF Ends, Stamps
<1>2. CASE NewRun
  <2>1. /\ Runner(Prog') /\ Kind(Prog') /\ \A x : ~Past(me', Prog', x)
    BY <1>2, SecondRun
  <2>2. Sent(me', Prog') = 0 /\ me'.i = 0
    <3>1. Prog'.depth > 0
      BY <2>1, KindFacts
    <3> QED
      BY <1>2, <3>1 DEF Sent, NewRun
  <2>3. \A no \in Nat : ~(no < 0)
    OBVIOUS
  <2> QED
    BY <2>1, <2>2, <2>3 DEF Stamps, InHand
<1>3. CASE me' = me /\ Others
  <2>1. cur' = cur /\ stamp' = stamp
    BY <1>3 DEF Others, RunJob, VividFill, VividSkip, PublishForeign, DrainOpen, DrainRead,
       progVars, vars
  <2>2. (Live' <=> Live) /\ Prog' = Prog
    BY <1>3 DEF Live, Phase, Prog
  <2> QED
    BY <1>3, <2>1, <2>2 DEF Stamps, StampSlot, Id
<1>4. ASSUME ~Others, NEW c, NEW s, Makes(c, s), Acts(c, s), HasNode(Prog), ~HasViv(Prog)
      PROVE  Stamps'
  <2>1. /\ Live /\ Prog' = Prog /\ me'.runs = me.runs /\ At(c) /\ me.runs # << >>
        /\ s \in {0, 1}
    BY <1>4 DEF Makes, Live
  <2>2. /\ \A no \in Nat : me.i <= no /\ no < Sent(me, Prog) => stamp[StampSlot(no)] = Id(no)
        /\ InHand(me, Prog) => cur.cap.id = Id(me.i)
    BY <1>4, <2>1 DEF Stamps
  <2>3. /\ Sent(me', Prog) = Sent(me, Prog) + s /\ Sent(me, Prog) \in Nat
        /\ s = 1 => Sent(me, Prog) = FrameNo
    BY <1>4, SentNext DEF FrameNo
  <2>4. me'.i \in Nat /\ me.i \in Nat /\ me.i <= me'.i
    BY <1>4, TurnCount
  <2>5. \A no : StampSlot(no)' = StampSlot(no) /\ Id(no)' = Id(no)
    BY <2>1 DEF StampSlot, Id
  <2>6. ASSUME NEW no \in Nat, me'.i <= no, no < Sent(me', Prog)
        PROVE  stamp'[StampSlot(no)] = Id(no)
    <3>1. me.i <= no
      BY <2>4, <2>6
    <3>2. CASE stamp' = stamp /\ s = 0
      BY <2>2, <2>3, <2>6, <3>1, <3>2
    <3>3. CASE Submit /\ s = 1
      <4>1. stamp' = [stamp EXCEPT ![StampSlot(FrameNo)] = Id(FrameNo)]
        <5>1. ~BothDevices
          BY <1>4, <2>1 DEF Opened, BothDevices
        <5> QED
          BY <3>3, <5>1, SubmitDoes
      <4>2. StampSlot(FrameNo) \in Idx /\ DOMAIN stamp = Idx /\ FrameNo \in Nat
        <5>1. FrameNo \in 0 .. Frames - 1 /\ Frames \in Nat /\ N \in Nat /\ N >= 2 /\ 0 \in Idx
          BY <3>3, SubmitDoes, Constants
        <5>2. FrameNo \in Nat
          BY <5>1
        <5>3. FrameNo % N \in Idx
          BY <5>1, <5>2 DEF Idx
        <5> QED
          BY <5>1, <5>2, <5>3, Kept DEF StampSlot, RingSlot, ProgTypes
      <4>3. CASE no = Sent(me, Prog)
        BY <2>3, <3>3, <4>1, <4>2, <4>3
      <4>4. CASE no # Sent(me, Prog)
        <5>1. no < Sent(me, Prog)
          BY <2>3, <2>6, <3>3, <4>4
        <5>2. StampSlot(no) # StampSlot(FrameNo)
          BY <1>4, <2>6, <3>1, <3>3, <5>1, StampMade
        <5>3. stamp'[StampSlot(no)] = stamp[StampSlot(no)]
          BY <4>1, <4>2, <5>2
        <5> QED
          BY <2>2, <3>1, <5>1, <5>3
      <4> QED
        BY <4>3, <4>4
    <3>4. s = 1 => Submit
      BY <1>4 DEF Makes, Acts
    <3> QED
      BY <1>4, <2>1, <3>2, <3>3, <3>4, StampKept
  <2>7. ASSUME InHand(me', Prog) PROVE cur'.cap.id = Id(me'.i)
    <3>1. me'.i = me.i /\ c # "row" /\ (c = "dqCap" \/ InHand(me, Prog))
      BY <1>4, <2>7, TurnCount
    <3>2. CASE c # "dqCap"
      BY <1>4, <2>2, <3>1, <3>2, MakesSide
    <3>3. CASE c = "dqCap"
      <4>1. DequeueCapture /\ Phase = "loop"
        BY <1>4, <3>3, InLoop DEF Acts, LoopCalls
      <4>2. ~Past(me, Prog, "dqCap")
        BY <1>4, <2>1, <3>3, <4>1, RunnerPast, OtherPast DEF HasNode
      <4>3. Trail(me.i, Sent(me, Prog), node.capDone, node.outQ, Len(me.runs))
        BY <1>4, <2>1, <4>2 DEF Flight, Done
      <4>4. node.capDone \in Seq(DoneType) /\ node.capDone # << >> /\ Len(node.outQ) \in Nat
        BY <4>1, Kept DEF NodeType, DequeueCapture
      <4>5. node.capDone[1].id = <<Len(me.runs), me.i>>
        BY <2>4, <4>3, <4>4, Takes, TrailShrinks
      <4>6. cur'.cap = node.capDone[1]
        BY <4>1, RowSteps
      <4> QED
        BY <3>1, <4>5, <4>6 DEF Id
    <3> QED
      BY <3>2, <3>3
  <2> QED
    BY <2>1, <2>5, <2>6, <2>7 DEF Stamps
<1>5. ASSUME NEW c, NEW s, Makes(c, s), ~(HasNode(Prog) /\ ~HasViv(Prog)) PROVE Stamps'
  BY <1>5 DEF Makes, Stamps
<1> QED
  BY <1>1, <1>2, <1>3, <1>4, <1>5 DEF Way

-----------------------------------------------------------------------------
(* The camera's queues: which buffer holds which QBUF. *)
Has(q, i, d) == \E k \in 1 .. Len(q) : q[k].idx = i /\ q[k].id = d
InCam(v, i, d) == Has(v.q, i, d) \/ Has(v.done, i, d)

LEMMA Joins ==
  ASSUME NEW S, NEW p \in Seq(S), NEW r \in Seq(S)
  PROVE  /\ Len(p \o r) = Len(p) + Len(r)
         /\ \A k \in 1 .. Len(p) + Len(r) :
              (p \o r)[k] = IF k <= Len(p) THEN p[k] ELSE r[k - Len(p)]
  OBVIOUS

(* What QBUFs on the camera do. *)
QueuesViv(is, warm) ==
  /\ viv'.qbufs = viv.qbufs + Len(is) /\ viv'.done = viv.done
  /\ viv'.n = viv.n /\ viv'.on = viv.on /\ viv'.seq = viv.seq
  /\ \A k \in 1 .. Len(viv'.q) :
       \/ k \in 1 .. Len(viv.q) /\ viv'.q[k] = viv.q[k]
       \/ \E j \in 1 .. Len(is) :
            viv'.q[k] = [idx |-> is[j], id |-> <<0, viv.qbufs + j - 1>>,
                         addr |-> slot.addr[is[j]], seq |-> Blank]
  /\ Len(viv'.q) = Len(viv.q) + Len(is)
  /\ \A k \in 1 .. Len(viv'.q) :
       IF k <= Len(viv.q) THEN viv'.q[k] = viv.q[k]
       ELSE k - Len(viv.q) \in 1 .. Len(is) /\ viv'.q[k].idx = is[k - Len(viv.q)]
  /\ \A s \in Idx :
       /\ stamp'[s] = IF CameraOnly /\ \E k \in 1 .. Len(is) : is[k] = s
                      THEN <<0, viv.qbufs + (CHOOSE k \in 1 .. Len(is) : is[k] = s) - 1>>
                      ELSE stamp[s]
       /\ slot'.pin[s] = IF \E k \in 1 .. Len(is) : is[k] = s
                         THEN slot.addr[s] ELSE slot.pin[s]
       /\ slot'.faults[s] <=> IF \E k \in 1 .. Len(is) : is[k] = s
                              THEN ~warm /\ slot.pin[s] # slot.addr[s]
                              ELSE slot.faults[s]
  /\ slot'.addr = slot.addr /\ cur' = cur /\ node' = node

LEMMA QueueVivDoes ==
  ASSUME Inv, NEW is \in Seq(Idx), NEW warm \in BOOLEAN, QueueViv(is, warm)
  PROVE  QueuesViv(is, warm)
<1>1. viv \in VivType /\ slot \in SlotType /\ Len(is) \in Nat /\ DOMAIN is = 1 .. Len(is)
  BY Kept DEF OtherTypes, ProgTypes
<1>2. viv.q \in Seq(FillType) /\ Len(viv.q) \in Nat /\ viv.qbufs \in Nat
  BY <1>1 DEF VivType
<1>3. PICK r : r = [k \in DOMAIN is |->
                       [idx |-> is[k], id |-> <<0, viv.qbufs + k - 1>>,
                        addr |-> slot.addr[is[k]], seq |-> Blank]]
  OBVIOUS
<1>4. /\ r \in Seq(FillType) /\ Len(r) = Len(is)
      /\ \A j \in 1 .. Len(is) :
           r[j] = [idx |-> is[j], id |-> <<0, viv.qbufs + j - 1>>,
                   addr |-> slot.addr[is[j]], seq |-> Blank]
  <2>1. \A k \in DOMAIN is : is[k] \in Idx /\ <<0, viv.qbufs + k - 1>> \in Ids
    BY <1>1, <1>2 DEF Ids
  <2>2. \A k \in DOMAIN is : r[k] \in FillType
    BY <1>1, <1>3, <2>1, Constants DEF FillType, SlotType
  <2> QED
    BY <1>1, <1>3, <2>2
<1>5. PICK q : q = viv.q \o r
  OBVIOUS
<1>6. viv' = [viv EXCEPT !.qbufs = viv.qbufs + Len(is), !.q = q]
  BY <1>3, <1>5 DEF QueueViv
<1>7. /\ viv'.qbufs = viv.qbufs + Len(is) /\ viv'.done = viv.done /\ viv'.q = q
      /\ viv'.n = viv.n /\ viv'.on = viv.on /\ viv'.seq = viv.seq
  BY <1>1, <1>6 DEF VivType
<1>8. ASSUME NEW k \in 1 .. Len(q)
      PROVE  \/ k \in 1 .. Len(viv.q) /\ q[k] = viv.q[k]
             \/ \E j \in 1 .. Len(is) : q[k] = r[j]
  <2>1. Len(q) = Len(viv.q) + Len(is) /\ k \in Int
    <3>1. Len(q) = Len(viv.q) + Len(r)
      BY <1>2, <1>4, <1>5, Joins
    <3>2. k \in Int
      OBVIOUS
    <3> QED
      BY <1>4, <3>1, <3>2
  <2>2. CASE k <= Len(viv.q)
    BY <1>2, <1>4, <1>5, <2>1, <2>2, Joins
  <2>3. CASE k > Len(viv.q)
    <3>1. k - Len(viv.q) \in 1 .. Len(is)
      BY <1>1, <1>2, <2>1, <2>3
    <3>2. q[k] = r[k - Len(viv.q)]
      BY <1>2, <1>4, <1>5, <2>1, <2>3, Joins
    <3> QED
      BY <3>1, <3>2
  <2> QED
    BY <1>2, <2>1, <2>2, <2>3
<1>9. ASSUME NEW s \in Idx
      PROVE  stamp'[s] = IF CameraOnly /\ \E k \in 1 .. Len(is) : is[k] = s
                         THEN <<0, viv.qbufs + (CHOOSE k \in 1 .. Len(is) : is[k] = s) - 1>>
                         ELSE stamp[s]
  BY <1>1 DEF QueueViv
<1>10. /\ slot'.addr = slot.addr
       /\ \A s \in Idx :
            /\ slot'.pin[s] = IF \E k \in 1 .. Len(is) : is[k] = s
                              THEN slot.addr[s] ELSE slot.pin[s]
            /\ slot'.faults[s] <=> IF \E k \in 1 .. Len(is) : is[k] = s
                                   THEN ~warm /\ slot.pin[s] # slot.addr[s]
                                   ELSE slot.faults[s]
  <2>1. PICK p, f :
          /\ slot' = [slot EXCEPT !.pin = p, !.faults = f]
          /\ p = [s \in Idx |-> IF \E k \in DOMAIN is : is[k] = s
                                THEN slot.addr[s] ELSE slot.pin[s]]
          /\ f = [s \in Idx |-> IF \E k \in DOMAIN is : is[k] = s
                                THEN ~warm /\ slot.pin[s] # slot.addr[s]
                                ELSE slot.faults[s]]
    BY DEF QueueViv
  <2>2. slot'.addr = slot.addr /\ slot'.pin = p /\ slot'.faults = f
    BY <1>1, <2>1 DEF SlotType
  <2>3. ASSUME NEW s \in Idx
        PROVE  f[s] <=> IF \E k \in 1 .. Len(is) : is[k] = s
                        THEN ~warm /\ slot.pin[s] # slot.addr[s] ELSE slot.faults[s]
    BY <1>1, <2>1, Zenon
  <2>4. ASSUME NEW s \in Idx
        PROVE  p[s] = IF \E k \in 1 .. Len(is) : is[k] = s
                      THEN slot.addr[s] ELSE slot.pin[s]
    BY <1>1, <2>1
  <2> QED
    BY <2>2, <2>3, <2>4
<1>11. cur' = cur /\ node' = node
  BY DEF QueueViv
<1>12. \A k \in 1 .. Len(viv'.q) :
         \/ k \in 1 .. Len(viv.q) /\ viv'.q[k] = viv.q[k]
         \/ \E j \in 1 .. Len(is) :
              viv'.q[k] = [idx |-> is[j], id |-> <<0, viv.qbufs + j - 1>>,
                           addr |-> slot.addr[is[j]], seq |-> Blank]
  BY <1>4, <1>7, <1>8
<1>13. /\ Len(viv'.q) = Len(viv.q) + Len(is)
       /\ \A k \in 1 .. Len(viv'.q) :
            IF k <= Len(viv.q) THEN viv'.q[k] = viv.q[k]
            ELSE k - Len(viv.q) \in 1 .. Len(is) /\ viv'.q[k].idx = is[k - Len(viv.q)]
  <2>1. Len(q) = Len(viv.q) + Len(is)
    <3>1. Len(q) = Len(viv.q) + Len(r)
      BY <1>2, <1>4, <1>5, Joins
    <3> QED
      BY <1>4, <3>1
  <2>2. ASSUME NEW k \in 1 .. Len(q), k <= Len(viv.q) PROVE q[k] = viv.q[k]
    BY <1>2, <1>4, <1>5, <2>1, <2>2, Joins
  <2>3. ASSUME NEW k \in 1 .. Len(q), ~(k <= Len(viv.q))
        PROVE  k - Len(viv.q) \in 1 .. Len(is) /\ q[k].idx = is[k - Len(viv.q)]
    <3>1. k - Len(viv.q) \in 1 .. Len(is)
      BY <1>1, <1>2, <2>1, <2>3
    <3>2. q[k] = r[k - Len(viv.q)]
      BY <1>2, <1>4, <1>5, <2>1, <2>3, Joins
    <3>3. PICK j : j = k - Len(viv.q)
      OBVIOUS
    <3>4. r[j].idx = is[j]
      <4>1. j \in 1 .. Len(is)
        BY <3>1, <3>3
      <4>2. \E a, b : r[j] = [idx |-> is[j], id |-> a, addr |-> b, seq |-> Blank]
        BY <1>4, <4>1, Zenon
      <4> QED
        BY <4>2
    <3> QED
      BY <3>1, <3>2, <3>3, <3>4
  <2> QED
    BY <1>7, <2>1, <2>2, <2>3
<1> QED
  BY <1>7, <1>9, <1>10, <1>11, <1>12, <1>13, Zenon DEF QueuesViv

(* A buffer that the tool has dequeued goes back. *)
LEMMA RequeueDoes ==
  ASSUME Inv, RequeueViv
  PROVE  LET i == cur.viv.idx IN
         /\ i \in Idx /\ MineViv(i) /\ viv'.qbufs = viv.qbufs + 1 /\ viv'.done = viv.done
         /\ Len(viv'.q) = Len(viv.q) + 1
         /\ \A k \in 1 .. Len(viv'.q) :
              IF k <= Len(viv.q) THEN viv'.q[k] = viv.q[k]
              ELSE k = Len(viv.q) + 1 /\ viv'.q[k].idx = i
         /\ \A k \in 1 .. Len(viv'.q) :
              \/ k \in 1 .. Len(viv.q) /\ viv'.q[k] = viv.q[k]
              \/ viv'.q[k] = [idx |-> i, id |-> <<0, viv.qbufs>>,
                              addr |-> slot.addr[i], seq |-> Blank]
         /\ CameraOnly => stamp'[i] = <<0, viv.qbufs>>
         /\ slot'.pin[i] = slot.addr[i]
         /\ slot'.faults[i] <=> slot.pin[i] # slot.addr[i]
         /\ \A s \in Idx : s # i =>
              /\ stamp'[s] = stamp[s] /\ slot'.pin[s] = slot.pin[s]
              /\ slot'.faults[s] <=> slot.faults[s]
         /\ slot'.addr = slot.addr /\ cur' = cur /\ node' = node
<1>1. PICK i, y : i = cur.viv.idx /\ y = <<i>>
  OBVIOUS
<1>2. i \in Idx
  BY <1>1, Kept DEF ProgTypes, CurType, FillType
<1>3. y \in Seq(Idx) /\ Len(y) = 1 /\ y[1] = i
  BY <1>1, <1>2
<1>4. QueueViv(y, FALSE) /\ MineViv(i)
  BY <1>1, Zenon DEF RequeueViv, Call, Accepts
<1>5. FALSE \in BOOLEAN
  OBVIOUS
<1>6. viv \in VivType /\ viv.qbufs \in Nat
  BY Kept DEF OtherTypes, VivType
<1>7. /\ \A j \in 1 .. Len(y) : y[j] = i /\ j = 1
      /\ \A s : (\E j \in 1 .. Len(y) : y[j] = s) <=> s = i
      /\ (CHOOSE k \in 1 .. Len(y) : y[k] = i) = 1
      /\ viv.qbufs + 1 - 1 = viv.qbufs
  BY <1>3, <1>6
<1>8. QueuesViv(y, FALSE)
  BY <1>3, <1>4, <1>5, QueueVivDoes
<1>9. /\ viv'.qbufs = viv.qbufs + 1 /\ viv'.done = viv.done
      /\ slot'.addr = slot.addr /\ cur' = cur /\ node' = node
  BY <1>3, <1>8 DEF QueuesViv
<1>10. \A k \in 1 .. Len(viv'.q) :
         \/ k \in 1 .. Len(viv.q) /\ viv'.q[k] = viv.q[k]
         \/ viv'.q[k] = [idx |-> i, id |-> <<0, viv.qbufs>>,
                         addr |-> slot.addr[i], seq |-> Blank]
  <2>1. \A j \in 1 .. Len(y) : y[j] = i /\ viv.qbufs + j - 1 = viv.qbufs
    BY <1>7
  <2>2. ASSUME NEW k \in 1 .. Len(viv'.q), ~(k \in 1 .. Len(viv.q) /\ viv'.q[k] = viv.q[k])
        PROVE  viv'.q[k] = [idx |-> i, id |-> <<0, viv.qbufs>>,
                            addr |-> slot.addr[i], seq |-> Blank]
    <3>1. PICK j \in 1 .. Len(y) :
            viv'.q[k] = [idx |-> y[j], id |-> <<0, viv.qbufs + j - 1>>,
                         addr |-> slot.addr[y[j]], seq |-> Blank]
      BY <1>8, <2>2 DEF QueuesViv
    <3> QED
      BY <2>1, <3>1
  <2> QED
    BY <2>2
<1>11. CameraOnly => stamp'[i] = <<0, viv.qbufs>>
  <2>1. CameraOnly =>
          stamp'[i] = <<0, viv.qbufs + (CHOOSE k \in 1 .. Len(y) : y[k] = i) - 1>>
    <3>1. stamp'[i] = IF CameraOnly /\ \E k \in 1 .. Len(y) : y[k] = i
                      THEN <<0, viv.qbufs + (CHOOSE k \in 1 .. Len(y) : y[k] = i) - 1>>
                      ELSE stamp[i]
      BY <1>2, <1>8, Zenon DEF QueuesViv
    <3>2. \E k \in 1 .. Len(y) : y[k] = i
      BY <1>7
    <3> QED
      BY ONLY <3>1, <3>2, Zenon
  <2> QED
    BY <1>7, <2>1
<1>12. \A s \in Idx : s # i => stamp'[s] = stamp[s]
  BY <1>7, <1>8 DEF QueuesViv
<1>13. \A s \in Idx :
         /\ slot'.pin[s] = IF s = i THEN slot.addr[s] ELSE slot.pin[s]
         /\ slot'.faults[s] <=> IF s = i THEN slot.pin[s] # slot.addr[s] ELSE slot.faults[s]
  BY <1>7, <1>8, Zenon DEF QueuesViv
<1>14. /\ Len(viv'.q) = Len(viv.q) + 1
       /\ \A k \in 1 .. Len(viv'.q) :
            IF k <= Len(viv.q) THEN viv'.q[k] = viv.q[k]
            ELSE k = Len(viv.q) + 1 /\ viv'.q[k].idx = i
  <2>1. Len(viv.q) \in Nat
    BY <1>6 DEF VivType
  <2>2. Len(viv'.q) = Len(viv.q) + 1
    BY <1>3, <1>8 DEF QueuesViv
  <2>3. ASSUME NEW k \in 1 .. Len(viv'.q)
        PROVE  IF k <= Len(viv.q) THEN viv'.q[k] = viv.q[k]
               ELSE k = Len(viv.q) + 1 /\ viv'.q[k].idx = i
    <3>1. IF k <= Len(viv.q) THEN viv'.q[k] = viv.q[k]
          ELSE k - Len(viv.q) \in 1 .. Len(y) /\ viv'.q[k].idx = y[k - Len(viv.q)]
      BY <1>8, Zenon DEF QueuesViv
    <3>2. ~(k <= Len(viv.q)) => k = Len(viv.q) + 1
      BY <2>1, <2>2
    <3> QED
      BY <1>7, <3>1, <3>2
  <2> QED
    BY <2>2, <2>3
<1> QED
  BY <1>1, <1>2, <1>4, <1>9, <1>10, <1>11, <1>12, <1>13, <1>14, Zenon

(* All of the tool's buffers are queued at the start. *)
LEMMA QueueSlotsDoes ==
  ASSUME Inv, QueueSlots
  PROVE  /\ viv'.qbufs = viv.qbufs + N /\ viv'.done = viv.done
         /\ \A i \in Idx : MineViv(i)
         /\ \A k \in 1 .. Len(viv'.q) :
              IF k <= Len(viv.q) THEN viv'.q[k] = viv.q[k]
              ELSE viv'.q[k].idx = k - Len(viv.q) - 1
         /\ \A k \in 1 .. Len(viv'.q) :
              \/ k \in 1 .. Len(viv.q) /\ viv'.q[k] = viv.q[k]
              \/ \E i \in Idx :
                   viv'.q[k] = [idx |-> i, id |-> <<0, viv.qbufs + i>>,
                                addr |-> slot.addr[i], seq |-> Blank]
         /\ \A s \in Idx : /\ CameraOnly => stamp'[s] = <<0, viv.qbufs + s>>
                           /\ slot'.pin[s] = slot.addr[s]
         /\ slot'.addr = slot.addr /\ cur' = cur /\ node' = node
<1>1. PICK z : z = [k \in 1 .. N |-> k - 1]
  OBVIOUS
<1>2. N \in Nat /\ viv.qbufs \in Nat
  BY Constants, Kept DEF OtherTypes, VivType
<1>3. z \in Seq(Idx) /\ Len(z) = N /\ \A k \in 1 .. N : z[k] = k - 1
  <2>1. \A k \in 1 .. N : k - 1 \in Idx
    BY <1>2 DEF Idx
  <2> QED
    BY <1>1, <1>2, <2>1
<1>4. QueueViv(z, TRUE) /\ \A i \in Idx : MineViv(i)
  BY <1>1, Zenon DEF QueueSlots, Call, Accepts
<1>5. TRUE \in BOOLEAN
  OBVIOUS
<1>6. QueuesViv(z, TRUE)
  BY <1>3, <1>4, <1>5, QueueVivDoes
<1>7. /\ viv'.qbufs = viv.qbufs + N /\ viv'.done = viv.done
      /\ slot'.addr = slot.addr /\ cur' = cur /\ node' = node
  BY <1>3, <1>6 DEF QueuesViv
<1>8. ASSUME NEW k \in 1 .. Len(viv'.q), ~(k \in 1 .. Len(viv.q) /\ viv'.q[k] = viv.q[k])
      PROVE  \E i \in Idx :
               viv'.q[k] = [idx |-> i, id |-> <<0, viv.qbufs + i>>,
                            addr |-> slot.addr[i], seq |-> Blank]
  <2>1. PICK j \in 1 .. Len(z) :
          viv'.q[k] = [idx |-> z[j], id |-> <<0, viv.qbufs + j - 1>>,
                       addr |-> slot.addr[z[j]], seq |-> Blank]
    BY <1>6, <1>8 DEF QueuesViv
  <2>2. z[j] \in Idx /\ viv.qbufs + j - 1 = viv.qbufs + z[j]
    BY <1>2, <1>3, <2>1 DEF Idx
  <2> QED
    BY <2>1, <2>2
<1>9. ASSUME NEW s \in Idx
      PROVE  (CameraOnly => stamp'[s] = <<0, viv.qbufs + s>>) /\ slot'.pin[s] = slot.addr[s]
  <2>1. s + 1 \in 1 .. Len(z) /\ z[s + 1] = s /\ s \in Int
    BY <1>2, <1>3 DEF Idx
  <2>2. \E k \in 1 .. Len(z) : z[k] = s
    BY <2>1
  <2>3. PICK x : x = (CHOOSE k \in 1 .. Len(z) : z[k] = s)
    OBVIOUS
  <2>4. x \in 1 .. Len(z) /\ z[x] = s
    BY <2>2, <2>3
  <2>5. viv.qbufs + x - 1 = viv.qbufs + s
    BY <1>2, <1>3, <2>1, <2>4
  <2>6. stamp'[s] = IF CameraOnly /\ \E k \in 1 .. Len(z) : z[k] = s
                    THEN <<0, viv.qbufs + (CHOOSE k \in 1 .. Len(z) : z[k] = s) - 1>>
                    ELSE stamp[s]
    BY <1>6, Zenon DEF QueuesViv
  <2>7. CameraOnly => stamp'[s] = <<0, viv.qbufs + x - 1>>
    BY ONLY <2>2, <2>3, <2>6, Zenon
  <2>8. slot'.pin[s] = slot.addr[s]
    BY <1>6, <2>2, Zenon DEF QueuesViv
  <2> QED
    BY <2>5, <2>7, <2>8
<1>10. ASSUME NEW k \in 1 .. Len(viv'.q)
       PROVE  IF k <= Len(viv.q) THEN viv'.q[k] = viv.q[k]
              ELSE viv'.q[k].idx = k - Len(viv.q) - 1
  <2>1. IF k <= Len(viv.q) THEN viv'.q[k] = viv.q[k]
        ELSE k - Len(viv.q) \in 1 .. Len(z) /\ viv'.q[k].idx = z[k - Len(viv.q)]
    BY <1>6, Zenon DEF QueuesViv
  <2> QED
    BY <1>3, <2>1
<1> QED
  BY <1>4, <1>7, <1>8, <1>9, <1>10

(* The camera fills the buffer at the head of its queue. *)
LEMMA FillDoes ==
  ASSUME Inv, VividFill
  PROVE  /\ Took(viv.q, viv'.q) /\ viv'.qbufs = viv.qbufs /\ 1 \in 1 .. Len(viv.q)
         /\ \E x : /\ Put(viv.done, x, viv'.done) /\ x.idx = viv.q[1].idx
                   /\ x.id = viv.q[1].id /\ x.addr = viv.q[1].addr
                   /\ x.seq = <<"camera", 0, viv.seq>>
                   /\ mem' = [mem EXCEPT ![<<"viv", viv.q[1].idx>>] = x.seq]
<1>1. viv \in VivType /\ viv.q \in Seq(FillType) /\ viv.done \in Seq(FillType) /\ viv.q # << >>
      /\ viv.seq \in Nat
  BY Kept DEF OtherTypes, VivType, VividFill
<1>2. Took(viv.q, Tail(viv.q)) /\ Head(viv.q) = viv.q[1] /\ 1 \in 1 .. Len(viv.q)
  BY <1>1, Takes
<1>3. viv.q[1] \in FillType
  BY <1>1, <1>2
<1>4. PICK u, x : u = <<"camera", 0, viv.seq>> /\ x = [viv.q[1] EXCEPT !.seq = u]
  OBVIOUS
<1>5. /\ x.idx = viv.q[1].idx /\ x.id = viv.q[1].id /\ x.addr = viv.q[1].addr /\ x.seq = u
      /\ x \in FillType
  <2>1. u \in Pixels
    BY <1>1, <1>4 DEF Pixels
  <2> QED
    BY <1>3, <1>4, <2>1 DEF FillType
<1>6. PICK q, d : q = Tail(viv.q) /\ d = Append(viv.done, x)
  OBVIOUS
<1>7. viv' = [viv EXCEPT !.seq = viv.seq + 1, !.q = q, !.done = d]
  BY <1>2, <1>4, <1>6 DEF VividFill
<1>8. viv'.q = q /\ viv'.done = d /\ viv'.qbufs = viv.qbufs
  BY <1>1, <1>7 DEF VivType
<1>9. Put(viv.done, x, d)
  BY <1>1, <1>5, <1>6, Puts
<1>10. mem' = [mem EXCEPT ![<<"viv", viv.q[1].idx>>] = u]
  BY <1>2, <1>4 DEF VividFill
<1> QED
  BY <1>2, <1>4, <1>5, <1>6, <1>8, <1>9, <1>10

LEMMA DequeueVivDoes ==
  ASSUME Inv, DequeueViv
  PROVE  /\ Took(viv.done, viv'.done) /\ viv'.q = viv.q /\ viv'.qbufs = viv.qbufs
         /\ cur'.viv = viv.done[1] /\ cur'.cap = cur.cap /\ 1 \in 1 .. Len(viv.done)
<1>1. viv \in VivType /\ viv.done \in Seq(FillType) /\ viv.done # << >> /\ cur \in CurType
  BY Kept DEF OtherTypes, VivType, DequeueViv, ProgTypes
<1>2. /\ Took(viv.done, Tail(viv.done)) /\ Head(viv.done) = viv.done[1]
      /\ 1 \in 1 .. Len(viv.done)
  BY <1>1, Takes
<1>3. PICK d : d = Tail(viv.done)
  OBVIOUS
<1>4. viv' = [viv EXCEPT !.done = d] /\ cur' = [cur EXCEPT !.viv = viv.done[1]]
  BY <1>2, <1>3 DEF DequeueViv
<1> QED
  BY <1>1, <1>2, <1>3, <1>4 DEF VivType, CurType

LEMMA HasTook ==
  ASSUME NEW p, NEW q, Took(p, q), NEW i, NEW d, Has(q, i, d)
  PROVE  Has(p, i, d)
<1>1. PICK k \in 1 .. Len(q) : q[k].idx = i /\ q[k].id = d
  BY DEF Has
<1>2. k + 1 \in 1 .. Len(p) /\ q[k] = p[k + 1]
  BY DEF Took
<1> QED
  BY <1>1, <1>2 DEF Has

LEMMA HasPut ==
  ASSUME NEW p, NEW x, NEW q, Put(p, x, q), NEW i, NEW d, Has(q, i, d)
  PROVE  Has(p, i, d) \/ (x.idx = i /\ x.id = d)
<1>1. PICK k \in 1 .. Len(q) : q[k].idx = i /\ q[k].id = d
  BY DEF Has
<1>2. k \in 1 .. Len(p) \/ k = Len(p) + 1
  BY DEF Put
<1> QED
  BY <1>1, <1>2 DEF Has, Put

(* Only a QBUF puts a buffer into the camera's queues. *)
LEMMA InCamSteps ==
  ASSUME Inv, [Next]_vars, ~QueueSlots, ~RequeueViv, NEW i, NEW d, InCam(viv', i, d)
  PROVE  InCam(viv, i, d)
<1>1. viv \in VivType
  BY Kept DEF OtherTypes
<1>2. ~Has(<< >>, i, d)
  <2>1. Len(<< >>) = 0
    OBVIOUS
  <2> QED
    BY <2>1 DEF Has
<1>3. CASE RequestViv \/ StreamOnViv \/ VividSkip
  <2>1. viv'.q = viv.q /\ viv'.done = viv.done
    <3>1. RequestViv => viv'.q = viv.q /\ viv'.done = viv.done
      BY <1>1 DEF RequestViv, VivType
    <3>2. StreamOnViv \/ VividSkip => viv'.q = viv.q /\ viv'.done = viv.done
      BY <1>1 DEF StreamOnViv, VividSkip, VivType
    <3> QED
      BY <1>3, <3>1, <3>2
  <2> QED
    BY <2>1 DEF InCam
<1>4. CASE OpenViv \/ StopViv \/ CloseViv
  <2>1. viv'.q = << >> /\ viv'.done = << >>
    <3>1. OpenViv \/ CloseViv => viv'.q = << >> /\ viv'.done = << >>
      BY DEF OpenViv, CloseViv, ClosedViv
    <3>2. StopViv => viv'.q = << >> /\ viv'.done = << >>
      BY <1>1 DEF StopViv, VivType
    <3> QED
      BY <1>4, <3>1, <3>2
  <2> QED
    BY <1>2, <2>1 DEF InCam
<1>5. CASE DequeueViv
  BY <1>5, DequeueVivDoes, HasTook DEF InCam
<1>6. CASE VividFill
  <2>1. PICK x : Put(viv.done, x, viv'.done) /\ x.idx = viv.q[1].idx /\ x.id = viv.q[1].id
    BY <1>6, FillDoes
  <2>2. Took(viv.q, viv'.q) /\ 1 \in 1 .. Len(viv.q)
    BY <1>6, FillDoes
  <2>3. Has(viv'.q, i, d) => Has(viv.q, i, d)
    BY <2>2, HasTook
  <2>4. Has(viv'.done, i, d) => Has(viv.done, i, d) \/ (x.idx = i /\ x.id = d)
    BY <2>1, HasPut
  <2>5. x.idx = i /\ x.id = d => Has(viv.q, i, d)
    BY <2>1, <2>2 DEF Has
  <2> QED
    BY <2>3, <2>4, <2>5 DEF InCam
<1> QED
  BY <1>3, <1>4, <1>5, <1>6, FieldSteps

LEMMA PastCall ==
  ASSUME NEW m \in MeType, NEW g, Plan(g), Placed(m, g), NEW x, Past(m, g, x)
  PROVE  x \in Calls(g.loop)
<1>1. Part(g, "loop") = g.loop /\ m.pc[2] \in 1 .. Len(g.loop)
  BY PartOf DEF Placed, Phases, Past
<1> QED
  BY <1>1 DEF Past, Called, Calls

(* The turn of a tool that uses the camera. *)
LEMMA VivTurn ==
  ASSUME Inv, Inv', NEW c, NEW s, Makes(c, s), HasViv(Prog)
  PROVE  /\ c = "qViv" => \A x : ~Past(me', Prog, x)
         /\ c # "qViv" => \A x : Past(me', Prog, x) <=>
                                   Past(me, Prog, x) \/ (Phase = "loop" /\ x = c)
         /\ c = "dqViv" => \A x : ~Past(me, Prog, x)
         /\ c = "qViv" => /\ Past(me, Prog, "row")
                          /\ Past(me, Prog, "remap") <=> Remaps(Prog)
         /\ c = "remap" => Past(me, Prog, "row") /\ ~Past(me, Prog, "remap")
         /\ c = "qVivs" => ~Ready(me, Prog, "qVivs") /\ Ready(me', Prog, "qVivs")
         /\ c # "qVivs" => (Ready(me', Prog, "qVivs") <=> Ready(me, Prog, "qVivs"))
         /\ c \in {"openViv", "mapSlots"} => ~Ready(me, Prog, "qVivs")
         /\ c \in {"dqViv", "seqCtrl", "row", "remap", "qViv"} => Phase = "loop"
         /\ c = "qVivs" => Phase = "setup"
<1>1. /\ me \in MeType /\ me' \in MeType /\ Plan(Prog) /\ Kind(Prog) /\ Placed(me, Prog)
      /\ Placed(me', Prog) /\ At(c) /\ me.pc[1] = Phase /\ Phase # "cleanup"
      /\ Forward(me, me', Prog, c, s)
  BY MadeFacts DEF Makes
<1>2. ~Runner(Prog) /\ "qViv" \in Calls(Prog.loop) /\ "row" \in Calls(Prog.loop)
      /\ "qVivs" \in Calls(Prog.setup)
  BY <1>1, KindFacts DEF Runner, Copier, Camera, VivSetup
<1>3. SameTurn(me, me', Prog, c) \/ NewTurn(me, me', Prog, c)
  BY <1>1 DEF Forward
<1>4. ~Past(me, Prog, "qViv") /\ ~Past(me', Prog, "qViv")
  BY <1>1, LastCalls
<1>5. c \in {"dqViv", "seqCtrl", "row", "remap", "qViv"} => Phase = "loop"
  BY InLoop DEF LoopCalls
<1>6. c = "qViv" => \A x : ~Past(me', Prog, x)
  BY <1>1, <1>3, <1>4, <1>5 DEF SameTurn, NewTurn
<1>7. ASSUME c # "qViv", NEW x
      PROVE  Past(me', Prog, x) <=> Past(me, Prog, x) \/ (Phase = "loop" /\ x = c)
  <2>1. CASE Phase = "loop"
    BY <1>1, <1>2, <1>3, <1>4, <1>7, <2>1 DEF SameTurn, NewTurn
  <2>2. CASE Phase # "loop"
    BY <2>2, NeverPast
  <2> QED
    BY <2>1, <2>2
<1>8. c = "dqViv" => \A x : ~Past(me, Prog, x)
  BY <1>1, <1>2, <1>5, OtherPast, PastCall
<1>9. c = "qViv" => Past(me, Prog, "row") /\ (Past(me, Prog, "remap") <=> Remaps(Prog))
  <2>1. c = "qViv" => Past(me, Prog, "row")
    BY <1>1, <1>2, <1>5, OtherPast
  <2>2. c = "qViv" => (Past(me, Prog, "remap") <=> Remaps(Prog))
    BY <1>1, <1>2, <1>5, OtherPast, PastCall DEF Remaps
  <2> QED
    BY <2>1, <2>2
<1>10. c = "remap" => Past(me, Prog, "row") /\ ~Past(me, Prog, "remap")
  <2>1. c = "remap" => Past(me, Prog, "row")
    BY <1>1, <1>2, <1>5, OtherPast
  <2>2. c = "remap" => ~Past(me, Prog, "remap")
    BY <1>1, <1>2, <1>5, OtherPast, PastCall
  <2> QED
    BY <2>1, <2>2
<1>11. c \in {"qVivs", "openViv", "mapSlots"} => Phase = "setup"
  BY <1>1, Where DEF LoopCalls, Phases
<1>12. Ready(me', Prog, "qVivs") <=> Ready(me, Prog, "qVivs") \/ (Phase = "setup" /\ c = "qVivs")
  BY <1>1, <1>2 DEF Forward
<1>13. c \in {"qVivs", "openViv", "mapSlots"} => ~Ready(me, Prog, "qVivs")
  <2> SUFFICES ASSUME c \in {"qVivs", "openViv", "mapSlots"} PROVE ~Ready(me, Prog, "qVivs")
    OBVIOUS
  <2>1. Phase = "setup"
    BY <1>11
  <2>2. Part(Prog, "setup") = Prog.setup /\ List(Prog.setup)
    BY <1>1, PartOf DEF Phases
  <2>3. me.pc[2] \in 1 .. Len(Prog.setup) /\ c = Prog.setup[me.pc[2]]
    BY <1>1, <2>1, <2>2, Where DEF Phase
  <2>4. Staged(Prog.setup) /\ Calls(Prog.setup) \subseteq SetupNames
    BY <1>1, KindCalls DEF Kind
  <2>5. Called(Prog.setup, me.pc[2], {"qVivs"}) => Stage("qVivs") <= Stage(c) /\ "qVivs" # c
    BY <1>2, <2>2, <2>3, <2>4, InStages
  <2>6. Stage("qVivs") = 7 /\ (c # "qVivs" => Stage(c) \in 1 .. 5)
    BY DEF Stage
  <2>7. ~(7 <= 1) /\ \A y \in 1 .. 5 : ~(7 <= y)
    OBVIOUS
  <2> QED
    BY <1>1, <2>1, <2>5, <2>6, <2>7 DEF Ready
<1> QED
  BY <1>5, <1>6, <1>7, <1>8, <1>9, <1>10, <1>11, <1>12, <1>13

(* The steps that touch what a tool of the camera keeps about its buffer. *)
LEMMA CurVivSteps ==
  ASSUME Inv, Inv', NEW c, NEW s, Makes(c, s), Acts(c, s), ~Others, [Next]_vars
  PROVE  /\ c # "dqViv" => cur'.viv.idx = cur.viv.idx
         /\ c \notin {"dqViv", "row"} => cur'.viv = cur.viv
<1>1. At(c) /\ Phase # "cleanup" /\ cur \in CurType /\ node.capDone \in Seq(DoneType)
  BY Kept DEF Makes, Live, ProgTypes, NodeType
<1>2. c \notin Quits
  BY <1>1, Where DEF Quits, LoopCalls, SetupNames, NodeSetup, VivSetup, Phases
<1>3. ~StopCapture /\ ~CloseMeta /\ ~Close /\ ~CloseViv
  BY <1>1, <1>2, SameCall DEF Quits, StopCapture, CloseMeta, Close, CloseViv
<1>4. ~RunJob /\ ~PublishForeign /\ ~DrainOpen /\ ~DrainRead
  BY DEF Others
<1>5. ~DrainFails
  <2>1. me \in MeType /\ me'.runs # << >>
    BY DEF Inv, Types, Makes
  <2> QED
    BY <2>1 DEF DrainFails, MeType
<1>6. \/ Silent \/ OpenMeta \/ DequeueCapture \/ DequeueOutput \/ ReadMeta \/ WriteRow
      \/ DequeueViv
  BY <1>3, <1>4, <1>5, SideSteps
<1>7. Silent \/ OpenMeta => cur' = cur
  BY DEF Silent, OpenMeta, progVars
<1>8. ReadMeta => cur'.viv = cur.viv
  BY <1>1 DEF ReadMeta, CurType
<1>9. DequeueCapture \/ DequeueOutput => cur'.viv = cur.viv
  BY <1>1 DEF DequeueCapture, DequeueOutput, CurType
<1>10. WriteRow => cur'.viv.idx = cur.viv.idx
  BY DEF WriteRow, Fresh, NoFill
<1>11. (WriteRow => c = "row") /\ (DequeueViv => c = "dqViv")
  BY <1>1, SameCall DEF WriteRow, DequeueViv, Call
<1> QED
  BY <1>6, <1>7, <1>8, <1>9, <1>10, <1>11

-----------------------------------------------------------------------------
(* The tools of the camera keep a record per index: it is that of the QBUF *)
(* of the buffer, in the camera's queues and in the tool's hands.          *)
CurViv(m, g) == Past(m, g, "dqViv") /\ ~Past(m, g, "row")
StampIs(i, d) ==
  /\ stamp[i] = d
  /\ d[2] >= N => (slot.faults[i] <=> Head(me.runs) = "userptrReset")
Pinned ==
  \A s \in Idx : slot.pin[s] # slot.addr[s] <=> Past(me, Prog, "remap") /\ s = cur.viv.idx
VivRecords ==
  Live /\ ~HasNode(Prog) =>
    /\ \A i \in Idx : \A d : InCam(viv, i, d) => StampIs(i, d)
    /\ CurViv(me, Prog) => StampIs(cur.viv.idx, cur.viv.id)
    /\ ~Ready(me, Prog, "qVivs") => viv.qbufs = 0
    /\ Ready(me, Prog, "qVivs") => viv.qbufs >= N /\ Pinned

LEMMA CameraFacts ==
  ASSUME Inv, Opened, NEW c, NEW s, Makes(c, s), ~HasNode(Prog)
  PROVE  /\ HasViv(Prog) /\ CameraOnly /\ c # "submit" /\ s = 0
         /\ Remaps(Prog) <=> Head(me.runs) = "userptrReset"
<1>1. /\ At(c) /\ Kind(Prog) /\ Plan(Prog) /\ Placed(me, Prog) /\ me.runs # << >>
      /\ Phase \in Phases /\ me \in MeType
  BY Where DEF Makes
<1>2. HasViv(Prog) /\ ~Feeder(Prog) /\ Prog.depth = 0 /\ "submit" \notin Calls(Prog.loop)
      /\ "submit" \notin Calls(Prog.setup)
  BY <1>1, KindFacts
<1>3. c # "submit"
  BY <1>1, <1>2, Where DEF Placed, Phase, Phases, Quits
<1>4. s = 0
  BY <1>3 DEF Makes
<1>5. CameraOnly
  BY <1>1 DEF Opened, CameraOnly
<1>6. Remaps(Prog) <=> Head(me.runs) = "userptrReset"
  BY <1>1, Planned, Kinds DEF Prog
<1> QED
  BY <1>2, <1>3, <1>4, <1>5, <1>6

LEMMA HasIdle ==
  ASSUME Inv, NEW i, MineViv(i), NEW d
  PROVE  ~InCam(viv, i, d)
<1>1. viv.q \in Seq(FillType) /\ viv.done \in Seq(FillType)
  BY Kept DEF OtherTypes, VivType
<1>2. DOMAIN viv.q = 1 .. Len(viv.q) /\ DOMAIN viv.done = 1 .. Len(viv.done)
  BY <1>1
<1> QED
  BY <1>2 DEF MineViv, Held, InCam, Has

(* Queueing all buffers for the first time. *)
LEMMA VivRecordsStart ==
  ASSUME Inv, Inv', Opened, VivRecords, NEW c, NEW s, Makes(c, s), Acts(c, s), ~Others,
         [Next]_vars, ~HasNode(Prog), c = "qVivs"
  PROVE  VivRecords'
<1>1. /\ HasViv(Prog) /\ CameraOnly /\ Prog' = Prog /\ me'.runs = me.runs /\ Live
      /\ QueueSlots
  BY CameraFacts DEF Makes, Acts
<1>2. ~Ready(me, Prog, "qVivs") /\ Ready(me', Prog, "qVivs") /\ Phase = "setup"
  BY <1>1, VivTurn
<1>3. viv.qbufs = 0 /\ N \in Nat /\ Idx = 0 .. N - 1
  BY <1>1, <1>2, Constants DEF VivRecords, Idx
<1>4. ASSUME NEW i \in Idx, NEW d, InCam(viv', i, d) PROVE StampIs(i, d)'
  <2>1. d = <<0, i>>
    <3>1. CASE Has(viv'.done, i, d)
      <4>1. InCam(viv, i, d) /\ MineViv(i)
        BY <1>1, <3>1, QueueSlotsDoes DEF InCam
      <4> QED
        BY <4>1, HasIdle
    <3>2. CASE Has(viv'.q, i, d)
      <4>1. PICK k \in 1 .. Len(viv'.q) : viv'.q[k].idx = i /\ viv'.q[k].id = d
        BY <3>2 DEF Has
      <4>2. CASE k \in 1 .. Len(viv.q) /\ viv'.q[k] = viv.q[k]
        <5>1. InCam(viv, i, d) /\ MineViv(i)
          BY <1>1, <4>1, <4>2, QueueSlotsDoes DEF InCam, Has
        <5> QED
          BY <5>1, HasIdle
      <4>3. CASE ~(k \in 1 .. Len(viv.q) /\ viv'.q[k] = viv.q[k])
        <5>1. PICK j \in Idx : viv'.q[k] = [idx |-> j, id |-> <<0, viv.qbufs + j>>,
                                            addr |-> slot.addr[j], seq |-> Blank]
          BY <1>1, <4>3, QueueSlotsDoes
        <5>2. j = i /\ d = <<0, viv.qbufs + j>>
          BY <4>1, <5>1
        <5>3. viv.qbufs + i = i
          BY <1>3
        <5> QED
          BY <5>2, <5>3
      <4> QED
        BY <4>2, <4>3
    <3> QED
      BY <1>4, <3>1, <3>2 DEF InCam
  <2>2. stamp'[i] = <<0, i>>
    <3>1. stamp'[i] = <<0, viv.qbufs + i>> /\ viv.qbufs + i = i
      BY <1>1, <1>3, QueueSlotsDoes
    <3> QED
      BY <3>1
  <2>3. ~(i >= N)
    BY <1>3
  <2> QED
    BY <2>1, <2>2, <2>3 DEF StampIs
<1>5. \A x : ~Past(me', Prog, x)
  BY <1>2, NeverPast
<1>6. viv'.qbufs >= N
  BY <1>1, <1>3, QueueSlotsDoes
<1>7. Pinned'
  BY <1>1, <1>5, QueueSlotsDoes DEF Pinned
<1> QED
  BY <1>1, <1>2, <1>4, <1>5, <1>6, <1>7 DEF VivRecords, CurViv

(* Queueing a buffer again. *)
LEMMA VivRecordsAgain ==
  ASSUME Inv, Inv', Opened, VivRecords, NEW c, NEW s, Makes(c, s), Acts(c, s), ~Others,
         [Next]_vars, ~HasNode(Prog), c = "qViv"
  PROVE  VivRecords'
<1>1. /\ HasViv(Prog) /\ CameraOnly /\ Prog' = Prog /\ me'.runs = me.runs /\ Live
      /\ RequeueViv /\ (Remaps(Prog) <=> Head(me.runs) = "userptrReset")
  BY CameraFacts DEF Makes, Acts
<1>2. /\ \A x : ~Past(me', Prog, x)
      /\ Past(me, Prog, "remap") <=> Remaps(Prog)
      /\ Phase = "loop" /\ (Ready(me', Prog, "qVivs") <=> Ready(me, Prog, "qVivs"))
  BY <1>1, VivTurn
<1>3. Ready(me, Prog, "qVivs") /\ Ready(me', Prog, "qVivs")
  BY <1>2 DEF Ready, Phase
<1>4. /\ \A i \in Idx : \A d : InCam(viv, i, d) => StampIs(i, d)
      /\ viv.qbufs >= N /\ Pinned
  BY <1>1, <1>3 DEF VivRecords
<1>5. viv.qbufs \in Nat /\ N \in Nat
  BY Kept, Constants DEF OtherTypes, VivType
<1>6. PICK h : h = cur.viv.idx
  OBVIOUS
<1>7. /\ h \in Idx /\ MineViv(h) /\ viv'.qbufs = viv.qbufs + 1 /\ viv'.done = viv.done
      /\ stamp'[h] = <<0, viv.qbufs>> /\ slot'.pin[h] = slot.addr[h]
      /\ slot'.faults[h] <=> slot.pin[h] # slot.addr[h]
      /\ slot'.addr = slot.addr /\ cur' = cur
      /\ \A z \in Idx : z # h =>
           /\ stamp'[z] = stamp[z] /\ slot'.pin[z] = slot.pin[z]
           /\ slot'.faults[z] <=> slot.faults[z]
      /\ \A k \in 1 .. Len(viv'.q) :
           \/ k \in 1 .. Len(viv.q) /\ viv'.q[k] = viv.q[k]
           \/ viv'.q[k] = [idx |-> h, id |-> <<0, viv.qbufs>>,
                           addr |-> slot.addr[h], seq |-> Blank]
  BY <1>1, <1>6, RequeueDoes
<1>8. ASSUME NEW i \in Idx, NEW d, InCam(viv', i, d) PROVE StampIs(i, d)'
  <2>1. InCam(viv, i, d) \/ (i = h /\ d = <<0, viv.qbufs>>)
    <3>1. CASE Has(viv'.done, i, d)
      BY <1>7, <3>1 DEF InCam
    <3>2. CASE Has(viv'.q, i, d)
      <4>1. PICK k \in 1 .. Len(viv'.q) : viv'.q[k].idx = i /\ viv'.q[k].id = d
        BY <3>2 DEF Has
      <4>2. CASE k \in 1 .. Len(viv.q) /\ viv'.q[k] = viv.q[k]
        BY <4>1, <4>2 DEF InCam, Has
      <4>3. CASE ~(k \in 1 .. Len(viv.q) /\ viv'.q[k] = viv.q[k])
        <5>1. viv'.q[k] = [idx |-> h, id |-> <<0, viv.qbufs>>,
                           addr |-> slot.addr[h], seq |-> Blank]
          BY <1>7, <4>3
        <5> QED
          BY <4>1, <5>1
      <4> QED
        BY <4>2, <4>3
    <3> QED
      BY <1>8, <3>1, <3>2 DEF InCam
  <2>2. CASE InCam(viv, i, d)
    <3>1. i # h
      BY <1>7, <2>2, HasIdle
    <3>2. StampIs(i, d)
      BY <1>4, <2>2
    <3> QED
      BY <1>1, <1>7, <3>1, <3>2 DEF StampIs
  <2>3. CASE i = h /\ d = <<0, viv.qbufs>>
    <3>1. slot.pin[h] # slot.addr[h] <=> Head(me.runs) = "userptrReset"
      BY <1>1, <1>2, <1>4, <1>6, <1>7 DEF Pinned
    <3>2. slot'.faults[h] <=> Head(me'.runs) = "userptrReset"
      BY <1>1, <1>7, <3>1
    <3> QED
      BY <1>7, <2>3, <3>2 DEF StampIs
  <2> QED
    BY <2>1, <2>2, <2>3
<1>9. Pinned'
  BY <1>1, <1>2, <1>4, <1>6, <1>7 DEF Pinned
<1>10. viv'.qbufs >= N
  BY <1>4, <1>5, <1>7
<1> QED
  BY <1>1, <1>2, <1>3, <1>8, <1>9, <1>10 DEF VivRecords, CurViv

LEMMA RemapDoes ==
  ASSUME Inv, Remap
  PROVE  /\ slot'.pin = slot.pin /\ slot'.faults = slot.faults /\ cur.viv.idx \in Idx
         /\ slot'.addr[cur.viv.idx] # slot.addr[cur.viv.idx]
         /\ \A z \in Idx : z # cur.viv.idx => slot'.addr[z] = slot.addr[z]
<1>1. slot \in SlotType /\ cur.viv.idx \in Idx /\ slot.addr \in [Idx -> Addrs \cup {0}]
  BY Kept DEF ProgTypes, CurType, FillType, SlotType
<1>2. PICK a \in FreeAddrs(cur.viv.idx) :
        IF a = slot.addr[cur.viv.idx]
        THEN GiveUp("refused") /\ UNCHANGED slot
        ELSE Advance(0) /\ slot' = [slot EXCEPT !.addr[cur.viv.idx] = a]
  BY DEF Remap
<1>3. a # slot.addr[cur.viv.idx]
  BY <1>1 DEF FreeAddrs
<1>4. PICK f : f = [slot.addr EXCEPT ![cur.viv.idx] = a]
  OBVIOUS
<1>5. slot' = [slot EXCEPT !.addr = f]
  BY <1>2, <1>3, <1>4
<1>6. slot'.pin = slot.pin /\ slot'.faults = slot.faults /\ slot'.addr = f
  BY <1>1, <1>5 DEF SlotType
<1> QED
  BY <1>1, <1>3, <1>4, <1>6

(* Any other call. *)
LEMMA VivRecordsKept ==
  ASSUME Inv, Inv', Opened, VivRecords, NEW c, NEW s, Makes(c, s), Acts(c, s), ~Others,
         [Next]_vars, ~HasNode(Prog), c \notin {"qVivs", "qViv"}
  PROVE  VivRecords'
<1>1. /\ HasViv(Prog) /\ CameraOnly /\ Prog' = Prog /\ me'.runs = me.runs /\ Live
      /\ At(c) /\ c # "submit" /\ Phase # "cleanup"
  BY CameraFacts DEF Makes, Live
<1>2. ~QueueSlots /\ ~RequeueViv /\ ~Submit
  BY <1>1, SameCall DEF QueueSlots, RequeueViv, Submit, Call
<1>3. ~Close /\ ~CloseViv /\ ~StopViv
  <2>1. c \notin Quits
    BY <1>1, Where DEF Quits, LoopCalls, SetupNames, NodeSetup, VivSetup, Phases
  <2> QED
    BY <1>1, <2>1, SameCall DEF Quits, Close, CloseViv, StopViv
<1>4. stamp' = stamp
  BY <1>2, <1>3, FieldSteps
<1>5. (MapSlots => c = "mapSlots") /\ (Remap => c = "remap") /\ (OpenViv => c = "openViv")
  BY <1>1, SameCall DEF MapSlots, Remap, OpenViv, Call
<1>6. /\ slot'.faults = slot.faults /\ slot'.pin = slot.pin
      /\ c \notin {"mapSlots", "remap"} => slot' = slot
  <2>1. slot \in SlotType
    BY Kept DEF ProgTypes
  <2>2. MapSlots => slot'.faults = slot.faults /\ slot'.pin = slot.pin
    BY <2>1 DEF MapSlots, SlotType
  <2> QED
    BY <1>2, <1>5, <2>2, RemapDoes, FieldSteps
<1>7. \A i, d : StampIs(i, d) => StampIs(i, d)'
  BY <1>1, <1>4, <1>6 DEF StampIs
<1>8. /\ \A i \in Idx : \A d : InCam(viv, i, d) => StampIs(i, d)
      /\ CurViv(me, Prog) => StampIs(cur.viv.idx, cur.viv.id)
      /\ ~Ready(me, Prog, "qVivs") => viv.qbufs = 0
      /\ Ready(me, Prog, "qVivs") => viv.qbufs >= N /\ Pinned
  BY <1>1 DEF VivRecords
<1>9. \A i \in Idx : \A d : InCam(viv', i, d) => StampIs(i, d)'
  BY <1>2, <1>7, <1>8, InCamSteps
<1>10. /\ \A x : Past(me', Prog, x) <=> Past(me, Prog, x) \/ (Phase = "loop" /\ x = c)
       /\ c = "dqViv" => \A x : ~Past(me, Prog, x)
       /\ c = "remap" => ~Past(me, Prog, "remap")
       /\ Ready(me', Prog, "qVivs") <=> Ready(me, Prog, "qVivs")
       /\ c \in {"openViv", "mapSlots"} => ~Ready(me, Prog, "qVivs")
       /\ c \in {"dqViv", "seqCtrl", "row", "remap", "qViv"} => Phase = "loop"
  BY <1>1, VivTurn
<1>11. ASSUME CurViv(me', Prog) PROVE StampIs(cur.viv.idx, cur.viv.id)'
  <2>1. c # "row"
    BY <1>10, <1>11 DEF CurViv
  <2>2. CASE c = "dqViv"
    <3>1. cur'.viv = viv.done[1] /\ 1 \in 1 .. Len(viv.done) /\ viv.done \in Seq(FillType)
      BY <2>2, DequeueVivDoes, Kept DEF Acts, OtherTypes, VivType
    <3>2. viv.done[1] \in FillType
      BY <3>1
    <3>3. viv.done[1].idx \in Idx /\ InCam(viv, viv.done[1].idx, viv.done[1].id)
      BY <3>1, <3>2 DEF FillType, InCam, Has
    <3>4. StampIs(viv.done[1].idx, viv.done[1].id)
      BY <1>8, <3>3
    <3> QED
      BY <1>1, <1>4, <1>6, <3>1, <3>4 DEF StampIs
  <2>3. CASE c # "dqViv"
    <3>1. CurViv(me, Prog) /\ cur'.viv = cur.viv
      BY <1>10, <1>11, <2>1, <2>3, CurVivSteps DEF CurViv
    <3>2. StampIs(cur.viv.idx, cur.viv.id)
      BY <1>8, <3>1
    <3> QED
      BY <1>1, <1>4, <1>6, <3>1, <3>2 DEF StampIs
  <2> QED
    BY <2>2, <2>3
<1>12. viv'.qbufs = viv.qbufs \/ (c = "openViv" /\ viv'.qbufs = 0)
  <2>1. viv \in VivType
    BY Kept DEF OtherTypes
  <2>2. RequestViv => viv'.qbufs = viv.qbufs
    BY <2>1 DEF RequestViv, VivType
  <2>3. StreamOnViv \/ VividSkip => viv'.qbufs = viv.qbufs
    BY <2>1 DEF StreamOnViv, VividSkip, VivType
  <2>4. OpenViv => viv'.qbufs = 0
    BY DEF OpenViv, ClosedViv
  <2> QED
    BY <1>2, <1>3, <1>5, <2>2, <2>3, <2>4, FillDoes, DequeueVivDoes, FieldSteps
<1>13. ASSUME Ready(me, Prog, "qVivs") PROVE Pinned'
  <2>1. Pinned /\ c # "mapSlots"
    BY <1>8, <1>10, <1>13
  <2>2. CASE c = "remap"
    <3>1. Remap /\ cur'.viv = cur.viv
      BY <2>2, CurVivSteps DEF Acts
    <3>2. Past(me', Prog, "remap") /\ \A z \in Idx : slot.pin[z] = slot.addr[z]
      BY <1>10, <2>1, <2>2 DEF Pinned
    <3>3. \A z \in Idx : slot'.pin[z] # slot'.addr[z] <=> z = cur.viv.idx
      BY <3>1, <3>2, RemapDoes
    <3> QED
      BY <1>1, <3>1, <3>2, <3>3 DEF Pinned
  <2>3. CASE c = "dqViv"
    BY <1>1, <1>6, <1>10, <2>1, <2>3 DEF Pinned
  <2>4. CASE c \notin {"remap", "dqViv"}
    <3>1. cur'.viv.idx = cur.viv.idx /\ slot' = slot
      BY <1>6, <2>1, <2>4, CurVivSteps
    <3>2. Past(me', Prog, "remap") <=> Past(me, Prog, "remap")
      BY <1>10, <2>4
    <3> QED
      BY <1>1, <2>1, <3>1, <3>2 DEF Pinned
  <2> QED
    BY <2>2, <2>3, <2>4
<1> QED
  BY <1>1, <1>8, <1>9, <1>10, <1>11, <1>12, <1>13 DEF VivRecords

LEMMA VivRecordsNext ==
  ASSUME Inv, Inv', Opened, VivRecords, Way, [Next]_vars
  PROVE  VivRecords'
<1>1. CASE Ends
  BY <1>1 DEF Ends, VivRecords
<1>2. CASE NewRun
  <2>1. HasNode(Prog')
    BY <1>2, SecondRun, KindFacts
  <2> QED
    BY <2>1 DEF VivRecords
<1>3. CASE me' = me /\ Others
  <2>1. cur' = cur /\ stamp' = stamp /\ slot' = slot
    BY <1>3 DEF Others, RunJob, VividFill, VividSkip, PublishForeign, DrainOpen, DrainRead,
       progVars, vars
  <2>2. (Live' <=> Live) /\ Prog' = Prog
    BY <1>3 DEF Live, Phase, Prog
  <2>3. viv'.qbufs = viv.qbufs
    <3>1. VividSkip => viv'.qbufs = viv.qbufs
      BY Kept DEF VividSkip, VivType, OtherTypes
    <3>2. (\/ RunJob \/ PublishForeign \/ DrainOpen \/ DrainRead \/ UNCHANGED vars)
            => viv' = viv
      BY DEF RunJob, PublishForeign, DrainOpen, DrainRead, vars
    <3> QED
      BY <1>3, <3>1, <3>2, FillDoes DEF Others
  <2>4. \A i, d : InCam(viv', i, d) => InCam(viv, i, d)
    <3>1. ~QueueSlots /\ ~RequeueViv
      <4>1. viv.qbufs \in Nat /\ N \in Nat /\ N >= 2
        BY Kept, Constants DEF OtherTypes, VivType
      <4>2. QueueSlots \/ RequeueViv => viv'.qbufs # viv.qbufs
        BY <4>1, QueueSlotsDoes, RequeueDoes
      <4> QED
        BY <2>3, <4>2
    <3> QED
      BY <3>1, InCamSteps
  <2>5. \A i, d : StampIs(i, d) => StampIs(i, d)'
    BY <1>3, <2>1 DEF StampIs
  <2>6. Pinned => Pinned'
    BY <1>3, <2>1, <2>2 DEF Pinned
  <2>7. StampIs(cur.viv.idx, cur.viv.id) => StampIs(cur.viv.idx, cur.viv.id)'
    BY <1>3, <2>1 DEF StampIs
  <2> QED
    BY <1>3, <2>1, <2>2, <2>3, <2>4, <2>5, <2>6, <2>7 DEF VivRecords
<1>4. ASSUME ~Others, NEW c, NEW s, Makes(c, s), Acts(c, s) PROVE VivRecords'
  <2>1. CASE HasNode(Prog)
    BY <1>4, <2>1 DEF Makes, VivRecords
  <2>2. CASE ~HasNode(Prog)
    BY <1>4, <2>2, VivRecordsStart, VivRecordsAgain, VivRecordsKept
  <2> QED
    BY <2>1, <2>2
<1> QED
  BY <1>1, <1>2, <1>3, <1>4 DEF Way

-----------------------------------------------------------------------------
Frame3 == Opened /\ Stamps /\ VivRecords

LEMMA Frame3Init == Init => Frame3
<1> SUFFICES ASSUME Init PROVE Frame3
  OBVIOUS
<1>1. /\ ~node.open /\ ~viv.open /\ viv.qbufs = 0 /\ viv.q = << >> /\ viv.done = << >>
      /\ Live /\ me.pc = <<"setup", 1>> /\ me.i = 0 /\ Phase = "setup"
  BY FirstState DEF ClosedNode, ClosedViv, Live
<1>2. \A x : ~Past(me, Prog, x) /\ ~Ready(me, Prog, x)
  <2>1. \A z, C : ~Called(z, 1, C)
    BY CalledNone
  <2> QED
    BY <1>1, <2>1 DEF Past, Ready
<1>3. Opened
  BY <1>1, <1>2 DEF Opened
<1>4. Stamps
  <2>1. Sent(me, Prog) = 0
    BY FirstState, NothingSent
  <2>2. \A no \in Nat : ~(no < 0)
    OBVIOUS
  <2> QED
    BY <1>2, <2>1, <2>2 DEF Stamps, InHand
<1>5. VivRecords
  <2>1. \A i, d : ~InCam(viv, i, d)
    <3>1. Len(<< >>) = 0 /\ \A k \in 1 .. 0 : FALSE
      OBVIOUS
    <3> QED
      BY <1>1, <3>1 DEF InCam, Has
  <2> QED
    BY <1>1, <1>2, <2>1 DEF VivRecords, CurViv
<1> QED
  BY <1>3, <1>4, <1>5 DEF Frame3

LEMMA Frame3Next == Inv /\ Inv' /\ [Next]_vars /\ Frame1 /\ Frame3 => Frame3'
<1> SUFFICES ASSUME Inv, Inv', [Next]_vars, Frame1, Frame3 PROVE Frame3'
  OBVIOUS
<1>1. Way /\ Counters /\ Flight /\ Opened /\ Stamps /\ VivRecords
  BY Ways DEF Frame1, Frame3
<1> QED
  BY <1>1, OpenedNext, StampsNext, VivRecordsNext DEF Frame3

LEMMA Frame3Holds == Spec => []Frame3
  BY FrameHolds, Frame3Init, Frame3Next, PTL DEF Spec

(* A line is written in the loop, about the buffer that was dequeued last. *)
LEMMA AtRow ==
  ASSUME Inv, At("row")
  PROVE  /\ Live /\ Phase = "loop" /\ Kind(Prog) /\ \A x : Ready(me, Prog, x)
         /\ HasNode(Prog) => InHand(me, Prog)
         /\ HasViv(Prog) => CurViv(me, Prog)
<1>1. /\ Phase = "loop" /\ Kind(Prog) /\ me.runs # << >> /\ "row" \in Calls(Prog.loop)
  BY Where DEF Phases, SetupNames, NodeSetup, VivSetup, Quits
<1>2. ~Past(me, Prog, "row")
  BY <1>1, RunnerPast, OtherPast
<1>3. HasNode(Prog) => Past(me, Prog, "dqCap")
  BY <1>1, RunnerPast, OtherPast DEF HasNode
<1>4. HasViv(Prog) => Past(me, Prog, "dqViv")
  BY <1>1, KindFacts, OtherPast DEF HasViv, Runner
<1> QED
  BY <1>1, <1>2, <1>3, <1>4 DEF InHand, CurViv, Live, Ready, Phase

LEMMA RecordsIn == Inv /\ Frame1 /\ Frame3 => RecordsOfTransit
<1> SUFFICES ASSUME Inv, Frame1, Frame3, At("row") PROVE RecordsOfTransit
  BY DEF RecordsOfTransit
<1>1. Flight /\ Opened /\ Stamps /\ VivRecords
  BY DEF Frame1, Frame3
<1>2. /\ Live /\ Kind(Prog) /\ me.runs # << >> /\ Phase # "cleanup"
      /\ \A x : Ready(me, Prog, x)
  BY AtRow DEF Live
<1>3. CASE HasNode(Prog) /\ HasViv(Prog)
  <2>1. node.open /\ viv.open
    BY <1>1, <1>2, <1>3 DEF Opened
  <2> QED
    BY <2>1 DEF RecordsOfTransit, BothDevices, CameraOnly
<1>4. CASE HasNode(Prog) /\ ~HasViv(Prog)
  <2>1. node.open
    BY <1>1, <1>2, <1>4 DEF Opened
  <2>2. InHand(me, Prog)
    BY <1>4, AtRow
  <2>3. me.i \in Nat
    <3>1. me \in MeType
      BY DEF Inv, Types
    <3> QED
      BY <3>1, MeFields
  <2>4. Trail(me.i + 1, Sent(me, Prog), node.capDone, node.outQ, Len(me.runs))
    BY <1>1, <1>2, <1>4, <2>2 DEF Flight, Done, InHand
  <2>5. Len(node.capDone) \in Nat /\ Len(node.outQ) \in Nat
    BY Kept DEF NodeType
  <2>6. me.i < Sent(me, Prog)
    BY <2>3, <2>4, <2>5 DEF Trail
  <2>7. stamp[StampSlot(me.i)] = Id(me.i) /\ cur.cap.id = Id(me.i)
    <3>1. me.i <= me.i
      BY <2>3
    <3> QED
      BY <1>1, <1>2, <1>4, <2>2, <2>3, <2>6, <3>1 DEF Stamps
  <2> QED
    BY <2>1, <2>7 DEF RecordsOfTransit, LineStamp, CameraOnly
<1>5. CASE ~HasNode(Prog)
  <2>1. CameraOnly /\ CurViv(me, Prog)
    BY <1>1, <1>2, <1>5, AtRow, KindFacts DEF Opened, CameraOnly
  <2>2. StampIs(cur.viv.idx, cur.viv.id)
    BY <1>1, <1>2, <1>5, <2>1 DEF VivRecords
  <2>3. slot.faults[cur.viv.idx] \in BOOLEAN
    BY Kept DEF ProgTypes, CurType, FillType, SlotType
  <2>4. cur.viv.id[2] >= N => slot.faults[cur.viv.idx] = (Head(me.runs) = "userptrReset")
    BY <2>2, <2>3, Zenon DEF StampIs
  <2>5. LineStamp = cur.viv.id
    BY <2>1, <2>2 DEF StampIs, LineStamp
  <2> QED
    BY <2>1, <2>4, <2>5 DEF RecordsOfTransit
<1> QED
  BY <1>3, <1>4, <1>5

(* Every line of a tool's CSV file takes its latency from the QBUF that    *)
(* submitted the buffer it describes: qbuf_ring, reused modulo the queue   *)
(* depth, still holds that QBUF's time when the buffer comes back, and the *)
(* records per index of the camera's tools have not been overwritten; the  *)
(* fault count of vpipe-capture-userptr is that of the same QBUF.          *)
THEOREM RecordsOfTransitHolds == Spec => []RecordsOfTransit
  BY FrameHolds, Frame3Holds, RecordsIn, PTL

-----------------------------------------------------------------------------
(* Pixels.  The camera's buffers are apart: none is queued twice, none is  *)
(* queued that the tool holds or that the node is still to read.           *)
NotIn(q, i) == \A j \in 1 .. Len(q) : q[j].idx # i
Sole(v) ==
  /\ \A j, k \in 1 .. Len(v.q) : v.q[j].idx = v.q[k].idx => j = k
  /\ \A k \in 1 .. Len(v.done) : NotIn(v.q, v.done[k].idx)
Apart ==
  /\ Sole(viv)
  /\ \A k \in 1 .. Len(node.outQ) :
       node.outQ[k].cell[1] = "viv" => NotIn(viv.q, node.outQ[k].cell[2])
  /\ Live /\ Past(me, Prog, "dqViv") => NotIn(viv.q, cur.viv.idx)
  /\ me.runs # << >> /\ ~HasNode(Prog) => Len(node.outQ) = 0

(* Until it is queued again, a buffer of the camera shows the frame whose  *)
(* number came with it.                                                    *)
Filled ==
  /\ \A k \in 1 .. Len(viv.done) : mem[<<"viv", viv.done[k].idx>>] = viv.done[k].seq
  /\ Live /\ CurViv(me, Prog) => mem[<<"viv", cur.viv.idx>>] = cur.viv.seq
  /\ Live /\ CurViv(me, Prog) /\ Past(me, Prog, "seqCtrl") => node.seq = cur.viv.seq

(* src_v4l2_sequence, for whichever run the buffers are of. *)
Numbered ==
  /\ \A k \in 1 .. Len(node.outQ) :
       node.outQ[k].seq # Blank => mem[node.outQ[k].cell] = node.outQ[k].seq
  /\ \A k \in 1 .. Len(node.capDone) :
       node.capDone[k].seq # Blank
         => node.capDone[k].err \/ node.capDone[k].pixels = node.capDone[k].seq
  /\ me.runs # << >> /\ ~HasViv(Prog) =>
       node.seq = Blank /\ \A k \in 1 .. Len(node.outQ) : node.outQ[k].seq = Blank

(* The pixels of the frames in flight, and of the one in hand. *)
Good(b) == b.err \/ b.dropped \/ b.pixels = Wanted(b.id[2])
Shows ==
  Live /\ HasNode(Prog) =>
    /\ Prog.mem = "heap" /\ Ready(me, Prog, "heap") =>
         \A i \in Idx : mem[<<"heap", i>>] = <<"fixture", 0, 0>>
    /\ \A k \in 1 .. Len(node.outQ) :
         /\ node.outQ[k].cell = <<Prog.mem, node.outQ[k].idx>>
         /\ node.outQ[k].dropped \/ mem[node.outQ[k].cell] = Wanted(node.outQ[k].id[2])
    /\ \A k \in 1 .. Len(node.capDone) : Good(node.capDone[k])
    /\ InHand(me, Prog) => Good(cur.cap)

LEMMA KindMem ==
  ASSUME NEW g, Kind(g), HasNode(g)
  PROVE  /\ g.mem \in {"own", "viv", "heap", "surface"} /\ g.backend \in {"VCAM", "FIXTURE"}
         /\ g.mem = "viv" <=> HasViv(g) /\ g.mem # "own"
         /\ g.mem \in {"viv", "heap"} => g.backend = "FIXTURE"
         /\ g.mem = "heap" <=> "heap" \in Calls(g.setup)
         /\ g.mem = "surface" => ~Feeder(g) /\ (Runner(g) => g.depth = 1)
         /\ Runner(g) => g.mem \in {"own", "surface"}
         /\ Feeder(g) => g.mem = "heap"
         /\ g.backend = "FIXTURE" => g.mem # "surface"
<1>1. ~Camera(g)
  BY KindFacts DEF HasNode, Camera
<1>2. HasViv(g) <=> Copier(g)
  BY <1>1, KindFacts
<1>3. CASE Runner(g)
  BY <1>2, <1>3 DEF Runner, Copier, Feeder, NodeSetup
<1>4. CASE Copier(g)
  BY <1>2, <1>4 DEF Runner, Copier, Feeder, NodeSetup, VivSetup
<1>5. CASE Bench(g)
  <2>1. ~Copier(g) /\ ~Runner(g) /\ ~Feeder(g)
    BY <1>5 DEF Runner, Copier, Feeder, Bench
  <2> QED
    BY <1>2, <1>5, <2>1 DEF Bench, NodeSetup
<1>6. CASE Feeder(g)
  BY <1>2, <1>6 DEF Runner, Copier, Feeder, NodeSetup
<1> QED
  BY <1>1, <1>3, <1>4, <1>5, <1>6 DEF Kind

(* The calls that touch the node's queues, and those that write memory. *)
LEMMA MakesQueues ==
  ASSUME Inv, NEW c, NEW s, Makes(c, s), ~Others, [Next]_vars
  PROVE  /\ \/ QueuesKept \/ (c = "submit" /\ s = 1 /\ Submit)
            \/ (c = "dqCap" /\ DequeueCapture) \/ (c = "open" /\ OpenNode)
         /\ \/ mem' = mem \/ (c = "submit" /\ s = 1 /\ Submit) \/ (c = "heap" /\ FillHeap)
            \/ (c \in {"onCap", "onOut"} /\ StreamOn)
         /\ QueueSlots => c = "qVivs"
         /\ RequeueViv => c = "qViv"
<1>1. At(c) /\ Phase # "cleanup" /\ s \in {0, 1}
  BY DEF Makes, Live
<1>2. Submit => c = "submit" /\ s = 1
  <2>1. Submit => At("submit") /\ Submits
    BY DEF Submit, Call
  <2> QED
    BY <1>1, <2>1, SameCall DEF Makes
<1>3. /\ (DequeueCapture => c = "dqCap") /\ (OpenNode => c = "open")
      /\ (FillHeap => c = "heap") /\ (StreamOn => c \in {"onCap", "onOut"})
      /\ (QueueSlots => c = "qVivs") /\ (RequeueViv => c = "qViv")
  BY <1>1, SameCall DEF DequeueCapture, OpenNode, FillHeap, StreamOn, QueueSlots,
     RequeueViv, Call
<1>4. ~RunJob /\ ~VividFill
  BY DEF Others
<1>5. ~StopOutput /\ ~StopCapture /\ ~Close
  <2>1. c \notin Quits
    BY <1>1, Where DEF Quits, LoopCalls, SetupNames, NodeSetup, VivSetup, Phases
  <2> QED
    BY <1>1, <2>1, SameCall DEF Quits, StopOutput, StopCapture, Close
<1> QED
  BY <1>2, <1>3, <1>4, <1>5, QueueSteps, FieldSteps

LEMMA SubmitNode ==
  ASSUME Inv, At("submit")
  PROVE  HasNode(Prog) /\ Kind(Prog)
<1>1. Kind(Prog) /\ Placed(me, Prog) /\ Phase \in Phases
  BY Where
<1>2. "submit" \in Calls(Prog.loop) \/ "submit" \in Calls(Prog.setup) \/ Phase = "fill"
  BY <1>1, Where DEF Phases, Quits
<1>3. Phase = "fill" => Prog.depth # 0
  BY <1>1 DEF Placed, Phase
<1> QED
  BY <1>1, <1>2, <1>3, KindFacts

(* What a submission writes. *)
LEMMA SubmitDraws ==
  ASSUME Inv, Submit, HasNode(Prog)
  PROVE  LET cell == <<Prog.mem, OutIndex>> IN
         /\ \A p \in Cells : p # cell /\ p # <<"surface", 0>> => mem'[p] = mem[p]
         /\ Prog.mem \in {"viv", "heap"} => mem' = mem
         /\ Prog.backend = "VCAM" /\ ~Drops(FrameNo) => mem'[cell] = Wanted(FrameNo)
         /\ Prog.backend = "FIXTURE" /\ Prog.mem = "own" =>
              mem'[cell] = IF Prog.index = "camera" THEN mem[<<"viv", cur.viv.idx>>]
                           ELSE Wanted(FrameNo)
<1>1. /\ At("submit") /\ OutIndex \in Idx
      /\ mem' = Drawn(<<Prog.mem, OutIndex>>, FrameNo, Drops(FrameNo))
  BY SubmitDoes
<1>2. Kind(Prog)
  BY <1>1, Where
<1>3. PICK cell, w, d : cell = <<Prog.mem, OutIndex>> /\ w = Wanted(FrameNo)
                        /\ d = Drops(FrameNo)
  OBVIOUS
<1>4. /\ Prog.mem \in {"own", "viv", "heap", "surface"}
      /\ Prog.backend \in {"VCAM", "FIXTURE"}
      /\ Prog.mem \in {"viv", "heap"} => Prog.backend = "FIXTURE"
  BY <1>2, KindMem
<1>5. cell \in Cells /\ DOMAIN mem = Cells /\ <<"surface", 0>> \in Cells
  <2>1. DOMAIN mem = Cells
    BY Kept DEF OtherTypes
  <2> QED
    BY <1>1, <1>3, <1>4, <2>1, Constants DEF Cells
<1>6. CASE Prog.backend = "VCAM" /\ ~d
  <2>1. mem' = [mem EXCEPT ![cell] = w, ![<<"surface", 0>>] = w]
    BY <1>1, <1>3, <1>6 DEF Drawn
  <2>2. mem'[cell] = w /\ \A p \in Cells : p # cell /\ p # <<"surface", 0>> => mem'[p] = mem[p]
    BY <1>5, <2>1
  <2> QED
    BY <1>3, <1>4, <1>6, <2>2
<1>7. CASE Prog.backend = "FIXTURE" /\ Prog.mem = "own"
  <2>1. PICK v : v = IF Prog.index = "camera" THEN mem[<<"viv", cur.viv.idx>>] ELSE w
    OBVIOUS
  <2>2. mem' = [mem EXCEPT ![cell] = v]
    BY <1>1, <1>3, <1>7, <2>1 DEF Drawn
  <2>3. mem'[cell] = v /\ \A p \in Cells : p # cell => mem'[p] = mem[p]
    BY <1>5, <2>2
  <2> QED
    BY <1>3, <1>7, <2>1, <2>3
<1>8. CASE ~(Prog.backend = "VCAM" /\ ~d) /\ ~(Prog.backend = "FIXTURE" /\ Prog.mem = "own")
  <2>1. mem' = mem
    BY <1>1, <1>3, <1>8 DEF Drawn
  <2> QED
    BY <1>3, <1>8, <2>1
<1> QED
  BY <1>6, <1>7, <1>8

(* Only the camera writes the camera's memory. *)
LEMMA CameraWrites ==
  ASSUME Inv, [Next]_vars, ~VividFill, NEW i \in Idx
  PROVE  mem'[<<"viv", i>>] = mem[<<"viv", i>>]
<1>1. <<"viv", i>> \in Cells /\ DOMAIN mem = Cells
  <2>1. DOMAIN mem = Cells
    BY Kept DEF OtherTypes
  <2> QED
    BY <2>1 DEF Cells
<1>2. CASE FillHeap
  <2>1. mem' = [p \in Cells |-> IF p[1] = "heap" THEN <<"fixture", 0, 0>> ELSE mem[p]]
    BY <1>1, <1>2 DEF FillHeap
  <2> QED
    BY <1>1, <2>1
<1>3. CASE StreamOn
  <2>1. mem' = mem \/ mem' = [mem EXCEPT ![<<"surface", 0>>] = Blank]
    BY <1>3 DEF StreamOn
  <2> QED
    BY <1>1, <2>1
<1>4. CASE Submit
  <2>2. HasNode(Prog)
    BY <1>4, SubmitDoes, SubmitNode
  <2>3. Prog.mem = "viv" => mem' = mem
    BY <1>4, <2>2, SubmitDraws
  <2>4. Prog.mem # "viv" => mem'[<<"viv", i>>] = mem[<<"viv", i>>]
    BY <1>1, <1>4, <2>2, SubmitDraws
  <2> QED
    BY <2>3, <2>4
<1> QED
  BY <1>2, <1>3, <1>4, FieldSteps

(* Nothing is in flight where memory is handed over: at every call of a    *)
(* capture tool but the one that waits for the node, at a submission by a  *)
(* program that waits for each frame, and in the set-up.                   *)
LEMMA Handover ==
  ASSUME Inv, Counters, Flight, NEW c, At(c), Live, HasNode(Prog),
         \/ HasViv(Prog) /\ c # "dqCap"
         \/ c = "submit" /\ (~Runner(Prog) \/ Prog.mem = "surface")
         \/ Phase = "setup" /\ ~Feeder(Prog)
         \/ c = "heap"
  PROVE  Len(node.outQ) = 0 /\ Len(node.capDone) = 0
<1>1. /\ At(c) /\ Live /\ Kind(Prog) /\ Plan(Prog) /\ Placed(me, Prog) /\ me \in MeType
      /\ Phase \in Phases /\ Phase # "cleanup" /\ me.i \in Nat /\ me.sent \in Nat
  BY Where, MeFields DEF Live
<1>2. PICK d, q, t, u : /\ d = Len(node.capDone) /\ q = Len(node.outQ)
                        /\ t = Done(me, Prog, "dqCap") /\ u = Sent(me, Prog)
  OBVIOUS
<1>3. d \in Nat /\ q \in Nat /\ t \in Nat
  BY <1>1, <1>2, Kept, DoneType1 DEF NodeType
<1>4. t + d + q = u
  BY <1>1, <1>2 DEF Flight, Trail
<1>5. u \in Nat /\ u <= t => q = 0 /\ d = 0
  BY <1>3, <1>4
<1>6. Phase # "loop" => t = me.i
  BY <1>2 DEF Done, Past, Phase
<1>7. ASSUME ~Runner(Prog), ~Feeder(Prog), Phase # "loop" PROVE u <= t /\ u \in Nat
  <2>1. ~(Prog.depth > 0) /\ "submit" \in Calls(Prog.loop)
    BY <1>1, <1>7, KindFacts
  <2>2. u = me.i
    BY <1>2, <1>7, <2>1 DEF Sent, Done, Past, Phase
  <2> QED
    BY <1>1, <1>6, <1>7, <2>2
<1>8. ASSUME ~Runner(Prog), ~Feeder(Prog), Phase = "loop",
             Past(me, Prog, "submit") <=> Past(me, Prog, "dqCap")
      PROVE  u <= t /\ u \in Nat
  <2>1. ~(Prog.depth > 0) /\ "submit" \in Calls(Prog.loop)
    BY <1>1, <1>8, KindFacts
  <2>2. u = t
    BY <1>2, <1>8, <2>1 DEF Sent, Done
  <2> QED
    BY <1>3, <2>2
<1>9. CASE HasViv(Prog) /\ c # "dqCap"
  <2>1. Copier(Prog) /\ ~Runner(Prog) /\ ~Feeder(Prog)
    BY <1>1, <1>9, KindFacts DEF Copier, Runner, Feeder, HasViv, Camera
  <2>2. ASSUME Phase = "loop" PROVE Past(me, Prog, "submit") <=> Past(me, Prog, "dqCap")
    <3>1. "submit" \in Calls(Prog.loop) /\ "dqCap" \in Calls(Prog.loop)
      BY <2>1 DEF Copier
    <3>2. c \in {"dqViv", "seqCtrl", "submit", "dqOut", "row", "qCap", "qViv"}
      BY <1>1, <1>9, <2>1, <2>2, Where DEF Copier
    <3> QED
      BY <1>1, <2>1, <2>2, <3>1, <3>2, OtherPast
  <2> QED
    BY <1>2, <1>5, <1>7, <1>8, <2>1, <2>2
<1>10. CASE c = "submit" /\ ~Runner(Prog) /\ ~Feeder(Prog)
  <2>1. ASSUME Phase = "loop" PROVE Past(me, Prog, "submit") <=> Past(me, Prog, "dqCap")
    BY <1>1, <1>10, <2>1, KindFacts, OtherPast DEF HasNode
  <2> QED
    BY <1>2, <1>5, <1>7, <1>8, <1>10, <2>1
<1>11. CASE Runner(Prog) /\ Prog.mem = "surface" /\ c = "submit"
  <2>1. Prog.depth = 1 /\ u = me.sent
    BY <1>1, <1>2, <1>11, KindMem, KindFacts DEF Sent
  <2>2. CASE Phase = "loop"
    <3>1. Past(me, Prog, "dqCap")
      BY <1>1, <1>11, <2>2, RunnerPast DEF HasNode
    <3>2. t = me.i + 1 /\ me.sent <= me.i + 1
      BY <1>1, <1>2, <2>1, <2>2, <3>1 DEF Done, Counters
    <3> QED
      BY <1>1, <1>2, <1>5, <2>1, <3>2
  <2>3. CASE Phase # "loop"
    <3>1. me.sent = 0
      <4>1. Phase = "fill" \/ Phase = "setup"
        BY <1>1, <1>11, <2>3, SubmitCall
      <4>2. Phase = "fill" => me.sent < 1
        BY <1>1, <2>1 DEF Counters
      <4>3. Phase = "setup" => me.sent = 0
        BY <1>1, <2>1 DEF Counters
      <4> QED
        BY <1>1, <4>1, <4>2, <4>3
    <3> QED
      BY <1>1, <1>2, <1>3, <1>5, <2>1, <3>1
  <2> QED
    BY <2>2, <2>3
<1>12. CASE Phase = "setup" /\ Runner(Prog)
  <2>1. u = 0
    BY <1>1, <1>2, <1>12, KindFacts DEF Sent, Counters
  <2> QED
    BY <1>2, <1>3, <1>5, <2>1
<1>13. CASE Phase = "setup" /\ ~Runner(Prog) /\ ~Feeder(Prog)
  BY <1>2, <1>5, <1>7, <1>13
<1>14. CASE Feeder(Prog) /\ c \in {"heap", "submit"}
  <2>1. /\ Phase = "setup" /\ ~(Prog.depth > 0) /\ "submit" \notin Calls(Prog.loop)
        /\ "submit" \in Calls(Prog.setup)
    <3>1. ~(Prog.depth > 0) /\ "submit" \notin Calls(Prog.loop) /\ Prog.depth = 0
          /\ "submit" \in Calls(Prog.setup) /\ ~Runner(Prog)
      BY <1>1, <1>14, KindFacts DEF Feeder, Runner
    <3>2. Phase # "fill"
      BY <1>1, <3>1 DEF Placed, Phase
    <3> QED
      BY <1>1, <1>14, <3>1, <3>2, Where DEF Phases, LoopCalls, Quits
  <2>2. ~Ready(me, Prog, "submit")
    <3>1. Part(Prog, "setup") = Prog.setup /\ List(Prog.setup)
      BY <1>1, PartOf DEF Phases
    <3>2. me.pc[2] \in 1 .. Len(Prog.setup) /\ c = Prog.setup[me.pc[2]]
      BY <1>1, <2>1, <3>1, Where DEF Phase
    <3>3. Staged(Prog.setup) /\ Calls(Prog.setup) \subseteq SetupNames
      BY <1>1, KindCalls DEF Kind
    <3>4. Called(Prog.setup, me.pc[2], {"submit"})
            => Stage("submit") <= Stage(c) /\ "submit" # c
      BY <2>1, <3>1, <3>2, <3>3, InStages
    <3>5. Stage("submit") = 8 /\ Stage("heap") = 6 /\ ~(8 <= 6)
      BY DEF Stage
    <3> QED
      BY <1>14, <2>1, <3>4, <3>5 DEF Ready, Phase
  <2>3. u = 0
    BY <1>2, <2>1, <2>2 DEF Sent
  <2> QED
    BY <1>2, <1>3, <1>5, <2>3
<1>15. c = "heap" => Phase = "setup"
  BY <1>1, Where DEF Phases, LoopCalls
<1> QED
  BY <1>9, <1>10, <1>11, <1>12, <1>13, <1>14, <1>15

(* Steps of the queues, the node's and the camera's. *)
LEMMA NodeQueues ==
  ASSUME Inv, [Next]_vars
  PROVE  /\ \/ node'.outQ = node.outQ \/ Len(node'.outQ) = 0 \/ RunJob \/ Submit
         /\ \/ node'.capDone = node.capDone \/ Len(node'.capDone) = 0 \/ RunJob
            \/ DequeueCapture /\ Took(node.capDone, node'.capDone)
<1>1. node \in NodeType /\ node.capDone \in Seq(DoneType) /\ Len(<< >>) = 0
  BY Kept DEF NodeType
<1>2. OpenNode \/ Close => node'.outQ = << >> /\ node'.capDone = << >>
  BY DEF OpenNode, Close, ClosedNode
<1>3. StopOutput => node'.outQ = << >> /\ node'.capDone = node.capDone
  BY <1>1 DEF StopOutput, NodeType
<1>4. StopCapture => node'.outQ = node.outQ /\ node'.capDone = << >>
  BY <1>1 DEF StopCapture, NodeType
<1>5. DequeueCapture => node'.outQ = node.outQ /\ Took(node.capDone, node'.capDone)
  <2> SUFFICES ASSUME DequeueCapture
               PROVE  node'.outQ = node.outQ /\ Took(node.capDone, node'.capDone)
    OBVIOUS
  <2>1. node' = [node EXCEPT !.capDone = Tail(@)] /\ node.capDone # << >>
    BY DEF DequeueCapture
  <2>2. node'.outQ = node.outQ /\ node'.capDone = Tail(node.capDone)
    BY <1>1, <2>1 DEF NodeType
  <2> QED
    BY <1>1, <2>1, <2>2, Takes
<1>6. Submit => node'.capDone = node.capDone
  BY SubmitDoes DEF Sends
<1> QED
  BY <1>1, <1>2, <1>3, <1>4, <1>5, <1>6, QueueSteps DEF QueuesKept

LEMMA VivQueues ==
  ASSUME Inv, [Next]_vars
  PROVE  \/ viv'.q = viv.q /\ viv'.done = viv.done
         \/ Len(viv'.q) = 0 /\ Len(viv'.done) = 0
         \/ DequeueViv \/ VividFill \/ QueueSlots \/ RequeueViv
<1>1. viv \in VivType /\ Len(<< >>) = 0
  BY Kept DEF OtherTypes
<1>2. RequestViv => viv'.q = viv.q /\ viv'.done = viv.done
  BY <1>1 DEF RequestViv, VivType
<1>3. StreamOnViv \/ VividSkip => viv'.q = viv.q /\ viv'.done = viv.done
  BY <1>1 DEF StreamOnViv, VividSkip, VivType
<1>4. OpenViv \/ CloseViv => viv'.q = << >> /\ viv'.done = << >>
  BY DEF OpenViv, CloseViv, ClosedViv
<1>5. StopViv => viv'.q = << >> /\ viv'.done = << >>
  BY <1>1 DEF StopViv, VivType
<1> QED
  BY <1>1, <1>2, <1>3, <1>4, <1>5, FieldSteps

LEMMA OthersQueueNone ==
  ASSUME Inv, Others
  PROVE  ~QueueSlots /\ ~RequeueViv
<1>1. viv.qbufs \in Nat /\ N \in Nat /\ N >= 2 /\ viv \in VivType
  BY Kept, Constants DEF OtherTypes, VivType
<1>2. QueueSlots \/ RequeueViv => viv'.qbufs # viv.qbufs
  BY <1>1, QueueSlotsDoes, RequeueDoes
<1>3. VividSkip => viv'.qbufs = viv.qbufs
  BY <1>1 DEF VividSkip, VivType
<1>4. (\/ RunJob \/ PublishForeign \/ DrainOpen \/ DrainRead \/ UNCHANGED vars)
        => viv' = viv
  BY DEF RunJob, PublishForeign, DrainOpen, DrainRead, vars
<1> QED
  BY <1>2, <1>3, <1>4, FillDoes DEF Others

LEMMA MineNotIn ==
  ASSUME Inv, NEW i, MineViv(i)
  PROVE  NotIn(viv.q, i) /\ NotIn(viv.done, i)
<1>1. viv.q \in Seq(FillType) /\ viv.done \in Seq(FillType)
  BY Kept DEF OtherTypes, VivType
<1>2. DOMAIN viv.q = 1 .. Len(viv.q) /\ DOMAIN viv.done = 1 .. Len(viv.done)
  BY <1>1
<1> QED
  BY <1>2 DEF MineViv, Held, NotIn

LEMMA NotInTook ==
  ASSUME NEW p, NEW q, Took(p, q), NEW i, NotIn(p, i)
  PROVE  NotIn(q, i)
<1>1. ASSUME NEW k \in 1 .. Len(q) PROVE q[k].idx # i
  <2>1. k + 1 \in 1 .. Len(p) /\ q[k] = p[k + 1]
    BY DEF Took
  <2> QED
    BY <2>1 DEF NotIn
<1> QED
  BY <1>1 DEF NotIn

LEMMA NotInNone ==
  ASSUME NEW q, Len(q) = 0
  PROVE  \A i : NotIn(q, i)
<1>1. \A k \in 1 .. 0 : FALSE
  OBVIOUS
<1> QED
  BY <1>1 DEF NotIn

LEMMA NotInSteps ==
  ASSUME Inv, [Next]_vars, NEW i, NotIn(viv.q, i)
  PROVE  NotIn(viv'.q, i) \/ QueueSlots \/ (RequeueViv /\ i = cur.viv.idx)
<1>1. CASE RequeueViv /\ i # cur.viv.idx
  <2>1. /\ \A k \in 1 .. Len(viv'.q) :
             IF k <= Len(viv.q) THEN viv'.q[k] = viv.q[k]
             ELSE k = Len(viv.q) + 1 /\ viv'.q[k].idx = cur.viv.idx
        /\ Len(viv'.q) = Len(viv.q) + 1
    BY <1>1, RequeueDoes
  <2>2. Len(viv.q) \in Nat
    BY Kept DEF OtherTypes, VivType
  <2>3. ASSUME NEW k \in 1 .. Len(viv'.q) PROVE viv'.q[k].idx # i
    <3>1. CASE k <= Len(viv.q)
      <4>1. k \in 1 .. Len(viv.q)
        BY <2>2, <3>1
      <4> QED
        BY <2>1, <3>1, <4>1 DEF NotIn
    <3>2. CASE ~(k <= Len(viv.q))
      BY <1>1, <2>1, <3>2
    <3> QED
      BY <3>1, <3>2
  <2> QED
    BY <2>3 DEF NotIn
<1>2. DequeueViv => viv'.q = viv.q
  BY DequeueVivDoes
<1>3. VividFill => NotIn(viv'.q, i)
  BY FillDoes, NotInTook
<1> QED
  BY <1>1, <1>2, <1>3, NotInNone, VivQueues

LEMMA SoleNext ==
  ASSUME Inv, [Next]_vars, Sole(viv)
  PROVE  Sole(viv')
<1>1. /\ viv.q \in Seq(FillType) /\ viv.done \in Seq(FillType)
      /\ Len(viv.q) \in Nat /\ Len(viv.done) \in Nat
  BY Kept DEF OtherTypes, VivType
<1>2. \A k \in 1 .. 0 : FALSE
  OBVIOUS
<1>3. CASE Len(viv'.q) = 0 /\ Len(viv'.done) = 0
  BY <1>2, <1>3 DEF Sole
<1>4. CASE DequeueViv
  <2>1. Took(viv.done, viv'.done) /\ viv'.q = viv.q
    BY <1>4, DequeueVivDoes
  <2>2. ASSUME NEW k \in 1 .. Len(viv'.done) PROVE NotIn(viv'.q, viv'.done[k].idx)
    <3>1. k + 1 \in 1 .. Len(viv.done) /\ viv'.done[k] = viv.done[k + 1]
      BY <2>1 DEF Took
    <3> QED
      BY <2>1, <3>1 DEF Sole
  <2> QED
    BY <2>1, <2>2 DEF Sole
<1>5. CASE VividFill
  <2>1. Took(viv.q, viv'.q) /\ 1 \in 1 .. Len(viv.q)
    BY <1>5, FillDoes
  <2>2. PICK x : Put(viv.done, x, viv'.done) /\ x.idx = viv.q[1].idx
    BY <1>5, FillDoes
  <2>3. \A k \in 1 .. Len(viv'.q) : k + 1 \in 1 .. Len(viv.q) /\ viv'.q[k] = viv.q[k + 1]
    BY <2>1 DEF Took
  <2>4. ASSUME NEW j \in 1 .. Len(viv'.q), NEW k \in 1 .. Len(viv'.q),
               viv'.q[j].idx = viv'.q[k].idx
        PROVE  j = k
    <3>1. /\ j + 1 \in 1 .. Len(viv.q) /\ k + 1 \in 1 .. Len(viv.q)
          /\ viv.q[j + 1].idx = viv.q[k + 1].idx
      BY <2>3, <2>4
    <3>2. \A a, b \in 1 .. Len(viv.q) : viv.q[a].idx = viv.q[b].idx => a = b
      BY DEF Sole
    <3>3. j + 1 = k + 1
      BY ONLY <3>1, <3>2
    <3> QED
      BY <3>3
  <2>5. NotIn(viv'.q, x.idx)
    <3>1. ASSUME NEW k \in 1 .. Len(viv'.q) PROVE viv'.q[k].idx # viv.q[1].idx
      <4>1. k + 1 # 1
        OBVIOUS
      <4> QED
        BY <2>1, <2>3, <4>1 DEF Sole
    <3> QED
      BY <2>2, <3>1 DEF NotIn
  <2>6. ASSUME NEW k \in 1 .. Len(viv'.done) PROVE NotIn(viv'.q, viv'.done[k].idx)
    <3>1. k \in 1 .. Len(viv.done) \/ k = Len(viv.done) + 1
      BY <2>2 DEF Put
    <3>2. CASE k \in 1 .. Len(viv.done)
      BY <2>1, <2>2, <3>2, NotInTook DEF Put, Sole
    <3>3. CASE k = Len(viv.done) + 1
      BY <2>2, <2>5, <3>3 DEF Put
    <3> QED
      BY <3>1, <3>2, <3>3
  <2> QED
    BY <2>4, <2>6 DEF Sole
<1>6. CASE QueueSlots
  <2>1. /\ \A i \in Idx : MineViv(i)
        /\ viv'.done = viv.done
    BY <1>6, QueueSlotsDoes
  <2>2. ASSUME NEW q \in Seq(FillType), \A i \in Idx : NotIn(q, i) PROVE Len(q) = 0
    <3>1. \A k \in 1 .. Len(q) : q[k] \in FillType
      OBVIOUS
    <3>2. \A k \in 1 .. Len(q) : q[k].idx \in Idx
      BY <3>1 DEF FillType
    <3>3. \A k \in 1 .. Len(q) : FALSE
      BY <2>2, <3>2 DEF NotIn
    <3>4. Len(q) \in Nat
      OBVIOUS
    <3> QED
      BY <3>3, <3>4
  <2>3. Len(viv.q) = 0 /\ Len(viv.done) = 0
    BY <1>1, <2>1, <2>2, MineNotIn
  <2>4. \A k \in 1 .. Len(viv'.q) : viv'.q[k].idx = k - 1
    <3>1. ASSUME NEW k \in 1 .. Len(viv'.q) PROVE viv'.q[k].idx = k - 1
      <4>1. ~(k <= 0)
        OBVIOUS
      <4>2. IF k <= Len(viv.q) THEN viv'.q[k] = viv.q[k]
            ELSE viv'.q[k].idx = k - Len(viv.q) - 1
        BY <1>6, QueueSlotsDoes, Zenon
      <4>3. k - 0 - 1 = k - 1
        OBVIOUS
      <4> QED
        BY <2>3, <4>1, <4>2, <4>3
    <3> QED
      BY <3>1
  <2>5. ASSUME NEW j \in 1 .. Len(viv'.q), NEW k \in 1 .. Len(viv'.q),
               viv'.q[j].idx = viv'.q[k].idx
        PROVE  j = k
    BY <2>4, <2>5
  <2> QED
    BY <1>2, <2>1, <2>3, <2>5 DEF Sole
<1>7. CASE RequeueViv
  <2>1. PICK i : i = cur.viv.idx
    OBVIOUS
  <2>2. MineViv(i) /\ viv'.done = viv.done /\ Len(viv'.q) = Len(viv.q) + 1
    BY <1>7, <2>1, RequeueDoes
  <2>3. NotIn(viv.q, i) /\ NotIn(viv.done, i)
    BY <2>2, MineNotIn
  <2>4. ASSUME NEW k \in 1 .. Len(viv'.q)
        PROVE  \/ k \in 1 .. Len(viv.q) /\ viv'.q[k] = viv.q[k]
               \/ k = Len(viv.q) + 1 /\ viv'.q[k].idx = i
    <3>1. IF k <= Len(viv.q) THEN viv'.q[k] = viv.q[k]
          ELSE k = Len(viv.q) + 1 /\ viv'.q[k].idx = i
      BY <1>7, <2>1, RequeueDoes, Zenon
    <3>2. k <= Len(viv.q) => k \in 1 .. Len(viv.q)
      BY <1>1
    <3> QED
      BY ONLY <3>1, <3>2
  <2>5. ASSUME NEW j \in 1 .. Len(viv'.q), NEW k \in 1 .. Len(viv'.q),
               viv'.q[j].idx = viv'.q[k].idx
        PROVE  j = k
    BY <2>3, <2>4, <2>5 DEF Sole, NotIn
  <2>6. ASSUME NEW k \in 1 .. Len(viv'.done) PROVE NotIn(viv'.q, viv'.done[k].idx)
    BY <2>2, <2>3, <2>4 DEF Sole, NotIn
  <2> QED
    BY <2>5, <2>6 DEF Sole
<1> QED
  BY <1>3, <1>4, <1>5, <1>6, <1>7, VivQueues DEF Sole

(* A capture tool submits the buffer it holds, in the middle of its turn. *)
LEMMA CopierSubmits ==
  ASSUME Inv, At("submit"), HasViv(Prog)
  PROVE  /\ Live /\ Phase = "loop" /\ Past(me, Prog, "dqViv") /\ Past(me, Prog, "seqCtrl")
         /\ CurViv(me, Prog) /\ OutIndex = cur.viv.idx /\ Prog.index = "camera"
<1>1. /\ Kind(Prog) /\ HasNode(Prog) /\ Placed(me, Prog) /\ me.runs # << >>
      /\ Phase \in {"setup", "fill", "loop"}
  BY Where, SubmitNode, SubmitCall
<1>2. Copier(Prog) /\ ~Runner(Prog) /\ ~Feeder(Prog) /\ Prog.index = "camera" /\ Prog.depth = 0
  BY <1>1, KindFacts DEF Copier, Runner, Feeder, HasNode, Camera
<1>3. Phase = "loop"
  <2>1. Phase # "fill"
    BY <1>1, <1>2 DEF Placed, Phase
  <2>2. Phase # "setup"
    BY <1>1, <1>2, Where, KindFacts
  <2> QED
    BY <1>1, <2>1, <2>2
<1>4. {"dqViv", "seqCtrl", "row"} \subseteq Calls(Prog.loop)
  BY <1>2 DEF Copier
<1>5. Past(me, Prog, "dqViv") /\ Past(me, Prog, "seqCtrl") /\ ~Past(me, Prog, "row")
  BY <1>2, <1>3, <1>4, OtherPast
<1> QED
  BY <1>1, <1>2, <1>3, <1>5 DEF Live, CurViv, OutIndex

(* The camera is given buffers while the node has nothing to read. *)
LEMMA CameraGets ==
  ASSUME Inv, Counters, Flight, Apart, QueueSlots \/ RequeueViv
  PROVE  Len(node'.outQ) = 0
<1>1. PICK c \in {"qVivs", "qViv"} : At(c)
  BY DEF QueueSlots, RequeueViv, Call
<1>2. /\ Kind(Prog) /\ me.runs # << >> /\ Phase # "cleanup"
      /\ c \in Calls(Prog.loop) \/ c \in Calls(Prog.setup)
  BY <1>1, Where DEF Quits, Phases
<1>3. HasViv(Prog)
  BY <1>2 DEF Kind, HasViv, Runner, Copier, Bench, Feeder, Camera, NodeSetup
<1>4. Live
  BY <1>2 DEF Live
<1>5. Len(node.outQ) = 0
  <2>1. CASE HasNode(Prog)
    BY <1>1, <1>3, <1>4, <2>1, Handover
  <2>2. CASE ~HasNode(Prog)
    BY <1>2, <2>2 DEF Apart
  <2> QED
    BY <2>1, <2>2
<1> QED
  BY <1>5, QueueSlotsDoes, RequeueDoes

LEMMA ApartNext ==
  ASSUME Inv, Inv', Counters, Flight, Apart, Way, [Next]_vars
  PROVE  Apart'
<1>1. Sole(viv')
  BY SoleNext DEF Apart
<1>2. \A k \in 1 .. 0 : FALSE
  OBVIOUS
<1>3. ASSUME NEW k \in 1 .. Len(node'.outQ), node'.outQ[k].cell[1] = "viv"
      PROVE  NotIn(viv'.q, node'.outQ[k].cell[2])
  <2>1. ~QueueSlots /\ ~RequeueViv
    BY <1>2, <1>3, CameraGets
  <2>2. NotIn(viv.q, node'.outQ[k].cell[2])
    <3>1. CASE node'.outQ = node.outQ
      BY <1>3, <3>1 DEF Apart
    <3>2. CASE RunJob
      <4>1. Took(node.outQ, node'.outQ)
        BY <3>2, RunJobDoes DEF Jobs
      <4>2. k + 1 \in 1 .. Len(node.outQ) /\ node'.outQ[k] = node.outQ[k + 1]
        BY <4>1 DEF Took
      <4> QED
        BY <1>3, <4>2 DEF Apart
    <3>3. CASE Submit
      <4>1. PICK b : Sends(b)
        BY <3>3, SubmitDoes
      <4>2. k \in 1 .. Len(node.outQ) \/ k = Len(node.outQ) + 1
        BY <4>1 DEF Sends, Put
      <4>3. CASE k \in 1 .. Len(node.outQ)
        BY <1>3, <4>1, <4>3 DEF Apart, Sends, Put
      <4>4. CASE k = Len(node.outQ) + 1
        <5>1. node'.outQ[k].cell = <<Prog.mem, OutIndex>>
          BY <4>1, <4>4 DEF Sends, Put
        <5>2. Prog.mem = "viv"
          BY <1>3, <5>1
        <5>3. At("submit") /\ HasViv(Prog)
          BY <3>3, <5>2, SubmitDoes, SubmitNode, KindMem
        <5> QED
          BY <5>1, <5>3, CopierSubmits DEF Apart
      <4> QED
        BY <4>2, <4>3, <4>4
    <3> QED
      BY <1>2, <1>3, <3>1, <3>2, <3>3, NodeQueues
  <2> QED
    BY <2>1, <2>2, NotInSteps
<1>4. ASSUME Live', Past(me', Prog', "dqViv") PROVE NotIn(viv'.q, cur'.viv.idx)
  <2>1. CASE me' = me /\ Others
    <3>1. cur' = cur /\ Live /\ Prog' = Prog
      BY <1>4, <2>1 DEF Others, RunJob, VividFill, VividSkip, PublishForeign, DrainOpen,
         DrainRead, progVars, vars, Live, Phase, Prog
    <3>2. NotIn(viv.q, cur.viv.idx)
      BY <1>4, <2>1, <3>1 DEF Apart
    <3> QED
      BY <2>1, <3>1, <3>2, OthersQueueNone, NotInSteps
  <2>2. CASE Ends
    BY <1>4, <2>2 DEF Ends
  <2>3. CASE NewRun
    BY <1>4, <2>3, SecondRun
  <2>4. ASSUME NEW c, NEW s, Makes(c, s), Acts(c, s), ~Others
        PROVE  NotIn(viv'.q, cur'.viv.idx)
    <3>1. /\ Prog' = Prog /\ me' \in MeType /\ Plan(Prog) /\ Placed(me', Prog) /\ Live
      BY <2>4, MadeFacts DEF Makes
    <3>2. HasViv(Prog)
      BY <1>4, <3>1, PastCall DEF HasViv
    <3>3. c # "qViv" /\ c # "qVivs"
      <4>1. c = "qVivs" => Phase # "loop"
        BY <2>4, <3>2, VivTurn
      <4> QED
        BY <1>4, <2>4, <3>1, <3>2, <4>1, VivTurn, NeverPast
    <3>4. ~QueueSlots /\ ~RequeueViv
      BY <2>4, <3>3, MakesQueues
    <3>5. CASE c = "dqViv"
      <4>1. cur'.viv = viv.done[1] /\ 1 \in 1 .. Len(viv.done) /\ viv'.q = viv.q
        BY <2>4, <3>5, DequeueVivDoes DEF Acts
      <4> QED
        BY <4>1 DEF Apart, Sole
    <3>6. CASE c # "dqViv"
      <4>1. Past(me, Prog, "dqViv") /\ cur'.viv.idx = cur.viv.idx
        BY <1>4, <2>4, <3>1, <3>2, <3>3, <3>6, VivTurn, CurVivSteps
      <4>2. NotIn(viv.q, cur.viv.idx)
        BY <3>1, <4>1 DEF Apart
      <4> QED
        BY <3>4, <4>1, <4>2, NotInSteps
    <3> QED
      BY <3>5, <3>6
  <2> QED
    BY <2>1, <2>2, <2>3, <2>4 DEF Way
<1>5. ASSUME me'.runs # << >>, ~HasNode(Prog') PROVE Len(node'.outQ) = 0
  <2>1. CASE NewRun
    BY <1>5, <2>1, SecondRun, KindFacts
  <2>2. CASE ~NewRun
    <3>1. me'.runs = me.runs /\ Prog' = Prog
      BY <1>5, <2>2, RunsStep DEF Prog
    <3>2. Len(node.outQ) = 0
      BY <1>5, <3>1 DEF Apart
    <3>3. ~RunJob
      BY <1>2, <3>2, RunJobDoes DEF Jobs
    <3>4. ~Submit
      BY <1>5, <3>1, SubmitDoes, SubmitNode
    <3> QED
      BY <3>2, <3>3, <3>4, NodeQueues
  <2> QED
    BY <2>1, <2>2
<1> QED
  BY <1>1, <1>3, <1>4, <1>5 DEF Apart

LEMMA CellOf ==
  ASSUME Inv, NEW i \in Idx, NEW j, j # i, NEW v,
         NEW new, new = [mem EXCEPT ![<<"viv", j>>] = v]
  PROVE  new[<<"viv", i>>] = mem[<<"viv", i>>]
<1>1. DOMAIN mem = Cells /\ <<"viv", i>> \in Cells
  <2>1. DOMAIN mem = Cells
    BY Kept DEF OtherTypes
  <2> QED
    BY <2>1 DEF Cells
<1>2. <<"viv", i>> # <<"viv", j>>
  OBVIOUS
<1> QED
  BY <1>1, <1>2

LEMMA FilledNext ==
  ASSUME Inv, Inv', Apart, Filled, Way, [Next]_vars
  PROVE  Filled'
<1>1. /\ viv.done \in Seq(FillType) /\ cur.viv.idx \in Idx /\ viv.q \in Seq(FillType)
      /\ DOMAIN mem = Cells
  BY Kept DEF OtherTypes, VivType, ProgTypes, CurType, FillType
<1>2. \A k \in 1 .. Len(viv.done) : viv.done[k].idx \in Idx
  <2>1. \A k \in 1 .. Len(viv.done) : viv.done[k] \in FillType
    BY <1>1
  <2> QED
    BY <2>1 DEF FillType
<1>3. \A k \in 1 .. 0 : FALSE
  OBVIOUS
<1>4. ASSUME NEW k \in 1 .. Len(viv'.done)
      PROVE  mem'[<<"viv", viv'.done[k].idx>>] = viv'.done[k].seq
  <2>1. CASE VividFill
    <3>1. PICK x : /\ Put(viv.done, x, viv'.done) /\ x.idx = viv.q[1].idx
                   /\ mem' = [mem EXCEPT ![<<"viv", viv.q[1].idx>>] = x.seq]
      BY <2>1, FillDoes
    <3>2. 1 \in 1 .. Len(viv.q)
      BY <2>1, FillDoes
    <3>3. k \in 1 .. Len(viv.done) \/ k = Len(viv.done) + 1
      BY <3>1 DEF Put
    <3>4. CASE k \in 1 .. Len(viv.done)
      <4>1. viv'.done[k] = viv.done[k]
        BY <3>1, <3>4 DEF Put
      <4>2. viv.q[1].idx # viv.done[k].idx
        BY <3>2, <3>4 DEF Apart, Sole, NotIn
      <4>3. mem'[<<"viv", viv.done[k].idx>>] = mem[<<"viv", viv.done[k].idx>>]
        BY <1>2, <3>1, <3>4, <4>2, CellOf
      <4> QED
        BY <3>4, <4>1, <4>3 DEF Filled
    <3>5. CASE k = Len(viv.done) + 1
      <4>1. viv'.done[k] = x
        BY <3>1, <3>5 DEF Put
      <4>2. <<"viv", viv.q[1].idx>> \in Cells
        <5>1. viv.q[1] \in FillType
          BY <1>1, <3>2
        <5> QED
          BY <5>1 DEF FillType, Cells
      <4> QED
        BY <1>1, <3>1, <4>1, <4>2
    <3> QED
      BY <3>3, <3>4, <3>5
  <2>2. CASE ~VividFill
    <3>1. PICK j \in 1 .. Len(viv.done) : viv'.done[k] = viv.done[j]
      <4>1. CASE viv'.done = viv.done
        BY <4>1
      <4>2. CASE DequeueViv
        <5>1. Took(viv.done, viv'.done)
          BY <4>2, DequeueVivDoes
        <5>2. k + 1 \in 1 .. Len(viv.done) /\ viv'.done[k] = viv.done[k + 1]
          BY <5>1 DEF Took
        <5> QED
          BY <5>2
      <4> QED
        BY <1>3, <2>2, <4>1, <4>2, QueueSlotsDoes, RequeueDoes, VivQueues
    <3>2. viv.done[j].idx \in Idx
      BY <1>2
    <3> QED
      BY <2>2, <3>1, <3>2, CameraWrites DEF Filled
  <2> QED
    BY <2>1, <2>2
<1>5. ASSUME Live', CurViv(me', Prog')
      PROVE  /\ mem'[<<"viv", cur'.viv.idx>>] = cur'.viv.seq
             /\ Past(me', Prog', "seqCtrl") => node'.seq = cur'.viv.seq
  <2>1. CASE me' = me /\ Others
    <3>1. cur' = cur /\ Live /\ Prog' = Prog
      BY <1>5, <2>1 DEF Others, RunJob, VividFill, VividSkip, PublishForeign, DrainOpen,
         DrainRead, progVars, vars, Live, Phase, Prog
    <3>2. CurViv(me, Prog) /\ Past(me, Prog, "dqViv")
      BY <1>5, <2>1, <3>1 DEF CurViv
    <3>3. node'.seq = node.seq
      <4>1. (\/ VividFill \/ VividSkip \/ PublishForeign \/ DrainOpen \/ DrainRead
             \/ UNCHANGED vars) => node' = node
        BY DEF VividFill, VividSkip, PublishForeign, DrainOpen, DrainRead, vars
      <4> QED
        BY <2>1, <4>1, JobKeepsOpen DEF Others
    <3>4. mem'[<<"viv", cur.viv.idx>>] = mem[<<"viv", cur.viv.idx>>]
      <4>1. CASE VividFill
        <5>1. PICK x : mem' = [mem EXCEPT ![<<"viv", viv.q[1].idx>>] = x.seq]
          BY <4>1, FillDoes
        <5>2. 1 \in 1 .. Len(viv.q)
          BY <4>1, FillDoes
        <5>3. viv.q[1].idx # cur.viv.idx
          BY <3>1, <3>2, <5>2 DEF Apart, NotIn
        <5> QED
          BY <1>1, <5>1, <5>3, CellOf
      <4>2. CASE ~VividFill
        BY <1>1, <4>2, CameraWrites
      <4> QED
        BY <4>1, <4>2
    <3> QED
      BY <2>1, <3>1, <3>2, <3>3, <3>4 DEF Filled
  <2>2. CASE Ends
    BY <1>5, <2>2 DEF Ends
  <2>3. CASE NewRun
    BY <1>5, <2>3, SecondRun DEF CurViv
  <2>4. ASSUME NEW c, NEW s, Makes(c, s), Acts(c, s), ~Others
        PROVE  /\ mem'[<<"viv", cur'.viv.idx>>] = cur'.viv.seq
               /\ Past(me', Prog', "seqCtrl") => node'.seq = cur'.viv.seq
    <3>1. /\ Prog' = Prog /\ me' \in MeType /\ Plan(Prog) /\ Placed(me', Prog) /\ Live
          /\ ~VividFill /\ At(c) /\ Phase # "cleanup" /\ Kind(Prog)
      BY <2>4, MadeFacts DEF Makes, Others
    <3>2. HasViv(Prog)
      BY <1>5, <3>1, PastCall DEF HasViv, CurViv
    <3>3. /\ c # "qViv"
          /\ \A x : Past(me', Prog, x) <=> Past(me, Prog, x) \/ (Phase = "loop" /\ x = c)
      BY <1>5, <2>4, <3>1, <3>2, VivTurn DEF CurViv
    <3>4. Phase = "loop" /\ c # "row"
      <4>1. Phase = "loop"
        BY <1>5, <2>4, <3>1, NeverPast DEF CurViv
      <4> QED
        BY <1>5, <3>1, <3>3, <4>1 DEF CurViv
    <3>5. CASE c = "dqViv"
      <4>1. cur'.viv = viv.done[1] /\ 1 \in 1 .. Len(viv.done)
        BY <2>4, <3>5, DequeueVivDoes DEF Acts
      <4>2. mem'[<<"viv", viv.done[1].idx>>] = viv.done[1].seq
        BY <1>2, <3>1, <4>1, CameraWrites DEF Filled
      <4>3. ~Past(me', Prog, "seqCtrl")
        BY <2>4, <3>2, <3>3, <3>5, VivTurn
      <4> QED
        BY <3>1, <4>1, <4>2, <4>3
    <3>6. CASE c # "dqViv"
      <4>1. CurViv(me, Prog) /\ cur'.viv = cur.viv
        BY <1>5, <2>4, <3>1, <3>3, <3>4, <3>6, CurVivSteps DEF CurViv
      <4>2. mem'[<<"viv", cur.viv.idx>>] = cur.viv.seq
        BY <1>1, <3>1, <4>1, CameraWrites DEF Filled
      <4>3. CASE c = "seqCtrl"
        <5>1. node' = [node EXCEPT !.seq = cur.viv.seq] /\ node \in NodeType
          BY <2>4, <4>3, Kept DEF Acts, SetSequence
        <5>2. node'.seq = cur.viv.seq
          BY <5>1 DEF NodeType
        <5> QED
          BY <4>1, <4>2, <5>2
      <4>4. CASE c # "seqCtrl"
        <5>1. c # "open" /\ c # "close"
          BY <3>1, <3>4, Where DEF LoopCalls
        <5>2. ~OpenNode /\ ~Close /\ ~SetSequence
          BY <3>1, <4>4, <5>1, SameCall DEF OpenNode, Close, SetSequence, Call
        <5>3. node'.seq = node.seq
          BY <5>2, OpenSteps
        <5> QED
          BY <3>1, <3>3, <4>1, <4>2, <4>4, <5>3 DEF Filled
      <4> QED
        BY <4>3, <4>4
    <3> QED
      BY <3>5, <3>6
  <2> QED
    BY <2>1, <2>2, <2>3, <2>4 DEF Way
<1> QED
  BY <1>4, <1>5 DEF Filled

(* What a capture tool submits shows the camera's frame, copied or not. *)
LEMMA CopierDraws ==
  ASSUME Inv, Filled, Submit, HasViv(Prog)
  PROVE  mem'[<<Prog.mem, OutIndex>>] = cur.viv.seq /\ node.seq = cur.viv.seq
<1>1. At("submit")
  BY SubmitDoes
<1>2. /\ HasNode(Prog) /\ Kind(Prog) /\ Live /\ CurViv(me, Prog) /\ Past(me, Prog, "seqCtrl")
      /\ OutIndex = cur.viv.idx /\ Prog.index = "camera"
  BY <1>1, SubmitNode, CopierSubmits
<1>3. Prog.mem \in {"own", "viv"} /\ Prog.backend = "FIXTURE"
  BY <1>2, KindFacts DEF Copier, Camera
<1>4. mem[<<"viv", cur.viv.idx>>] = cur.viv.seq /\ node.seq = cur.viv.seq
  BY <1>2 DEF Filled
<1>5. Prog.mem = "viv" => mem' = mem
  BY <1>2, SubmitDraws
<1>6. Prog.mem = "own" => mem'[<<Prog.mem, OutIndex>>] = mem[<<"viv", cur.viv.idx>>]
  BY <1>2, <1>3, SubmitDraws
<1> QED
  BY <1>2, <1>3, <1>4, <1>5, <1>6

(* Where a buffer of the node's queue came from. *)
LEMMA OutBefore ==
  ASSUME Inv, [Next]_vars, ~Submit, NEW k \in 1 .. Len(node'.outQ)
  PROVE  \E j \in 1 .. Len(node.outQ) : node'.outQ[k] = node.outQ[j]
<1>1. \A z \in 1 .. 0 : FALSE
  OBVIOUS
<1>2. CASE RunJob
  <2>1. Took(node.outQ, node'.outQ)
    BY <1>2, RunJobDoes DEF Jobs
  <2>2. k + 1 \in 1 .. Len(node.outQ) /\ node'.outQ[k] = node.outQ[k + 1]
    BY <2>1 DEF Took
  <2> QED
    BY <2>2
<1>3. CASE node'.outQ = node.outQ
  BY <1>3
<1> QED
  BY <1>1, <1>2, <1>3, NodeQueues

LEMMA CapBefore ==
  ASSUME Inv, [Next]_vars, ~RunJob, NEW k \in 1 .. Len(node'.capDone)
  PROVE  \E j \in 1 .. Len(node.capDone) : node'.capDone[k] = node.capDone[j]
<1>1. \A z \in 1 .. 0 : FALSE
  OBVIOUS
<1>2. CASE Took(node.capDone, node'.capDone)
  <2>1. k + 1 \in 1 .. Len(node.capDone) /\ node'.capDone[k] = node.capDone[k + 1]
    BY <1>2 DEF Took
  <2> QED
    BY <2>1
<1>3. CASE node'.capDone = node.capDone
  BY <1>3
<1> QED
  BY <1>1, <1>2, <1>3, NodeQueues

(* The camera does not write what the node is still to read. *)
LEMMA FillSpares ==
  ASSUME Inv, Apart, VividFill, NEW k \in 1 .. Len(node.outQ)
  PROVE  mem'[node.outQ[k].cell] = mem[node.outQ[k].cell]
<1>1. node.outQ \in Seq(InType) /\ DOMAIN mem = Cells
  BY Kept DEF NodeType, OtherTypes
<1>2. node.outQ[k] \in InType
  BY <1>1
<1>3. PICK p : p = node.outQ[k].cell
  OBVIOUS
<1>4. p \in Cells
  BY <1>2, <1>3 DEF InType
<1>5. PICK i, v : i = viv.q[1].idx /\ mem' = [mem EXCEPT ![<<"viv", i>>] = v]
  BY FillDoes
<1>6. 1 \in 1 .. Len(viv.q)
  BY FillDoes
<1>7. p[1] = "viv" => p[2] # i
  BY <1>3, <1>5, <1>6 DEF Apart, NotIn
<1>8. p # <<"viv", i>>
  BY <1>7
<1> QED
  BY <1>1, <1>3, <1>4, <1>5, <1>8

LEMMA NumberedNext ==
  ASSUME Inv, Inv', Counters, Flight, Apart, Filled, Numbered, Way, [Next]_vars
  PROVE  Numbered'
<1>1. \A z \in 1 .. 0 : FALSE
  OBVIOUS
<1>2. ASSUME Submit
      PROVE  \E b : /\ b.seq = node.seq /\ b.cell = <<Prog.mem, OutIndex>>
                    /\ \A k \in 1 .. Len(node'.outQ) :
                         \/ k \in 1 .. Len(node.outQ) /\ node'.outQ[k] = node.outQ[k]
                         \/ node'.outQ[k] = b
  <2>1. PICK b : Sends(b)
    BY <1>2, SubmitDoes
  <2>2. ASSUME NEW k \in 1 .. Len(node'.outQ)
        PROVE  \/ k \in 1 .. Len(node.outQ) /\ node'.outQ[k] = node.outQ[k]
               \/ node'.outQ[k] = b
    <3>1. k \in 1 .. Len(node.outQ) \/ k = Len(node.outQ) + 1
      BY <2>1 DEF Sends, Put
    <3> QED
      BY <2>1, <3>1 DEF Sends, Put
  <2> QED
    BY <2>1, <2>2 DEF Sends
<1>3. ASSUME me'.runs # << >>, ~HasViv(Prog')
      PROVE  node'.seq = Blank /\ \A k \in 1 .. Len(node'.outQ) : node'.outQ[k].seq = Blank
  <2>1. CASE NewRun
    <3>1. node' = ClosedNode
      BY <2>1, SecondRun
    <3>2. node'.seq = Blank /\ Len(node'.outQ) = 0
      BY <3>1 DEF ClosedNode
    <3> QED
      BY <1>1, <3>2
  <2>2. CASE ~NewRun
    <3>1. me'.runs = me.runs /\ Prog' = Prog
      BY <1>3, <2>2, RunsStep DEF Prog
    <3>2. node.seq = Blank /\ \A k \in 1 .. Len(node.outQ) : node.outQ[k].seq = Blank
      BY <1>3, <3>1 DEF Numbered
    <3>3. node'.seq = Blank
      <4>1. ~SetSequence
        <5>1. SetSequence => At("seqCtrl")
          BY DEF SetSequence, Call
        <5>2. At("seqCtrl") => "seqCtrl" \in Calls(Prog.loop) /\ Kind(Prog)
          BY Where DEF Phases, SetupNames, NodeSetup, VivSetup, Quits
        <5>3. "seqCtrl" \in Calls(Prog.loop) /\ Kind(Prog) => HasViv(Prog)
          BY DEF Kind, HasViv, Runner, Copier, Bench, Feeder, Camera
        <5> QED
          BY <1>3, <3>1, <5>1, <5>2, <5>3
      <4>2. OpenNode \/ Close => node'.seq = Blank
        BY DEF OpenNode, Close, ClosedNode
      <4> QED
        BY <3>2, <4>1, <4>2, OpenSteps
    <3>4. ASSUME NEW k \in 1 .. Len(node'.outQ) PROVE node'.outQ[k].seq = Blank
      <4>1. CASE Submit
        BY <1>2, <3>2, <4>1
      <4>2. CASE ~Submit
        BY <3>2, <4>2, OutBefore
      <4> QED
        BY <4>1, <4>2
    <3> QED
      BY <3>3, <3>4
  <2> QED
    BY <2>1, <2>2
<1>4. ASSUME NEW k \in 1 .. Len(node'.capDone), node'.capDone[k].seq # Blank
      PROVE  node'.capDone[k].err \/ node'.capDone[k].pixels = node'.capDone[k].seq
  <2>1. CASE RunJob
    <3>1. PICK in, b : Jobs(in, b)
      BY <2>1, RunJobDoes
    <3>2. k \in 1 .. Len(node.capDone) \/ k = Len(node.capDone) + 1
      BY <3>1 DEF Jobs, Put
    <3>3. CASE k \in 1 .. Len(node.capDone)
      BY <1>4, <3>1, <3>3 DEF Jobs, Put, Numbered
    <3>4. CASE k = Len(node.capDone) + 1
      <4>1. node'.capDone[k] = b
        BY <3>1, <3>4 DEF Jobs, Put
      <4>2. in.seq # Blank => mem[in.cell] = in.seq
        BY <3>1 DEF Jobs, Numbered
      <4>3. b.seq = in.seq /\ (~b.err => b.pixels = mem[in.cell])
        BY <3>1 DEF Jobs
      <4> QED
        BY <1>4, <4>1, <4>2, <4>3
    <3> QED
      BY <3>2, <3>3, <3>4
  <2>2. CASE ~RunJob
    BY <1>4, <2>2, CapBefore DEF Numbered
  <2> QED
    BY <2>1, <2>2
<1>5. ASSUME NEW c, At(c), c \in {"heap", "onOut", "onCap", "submit"}, NEW k \in 1 .. Len(node.outQ)
      PROVE  node.outQ[k].seq = Blank
  <2>1. Kind(Prog) /\ me.runs # << >> /\ Phase # "cleanup"
    BY <1>5, Where DEF Quits
  <2>2. CASE ~HasViv(Prog)
    BY <2>1, <2>2 DEF Numbered
  <2>3. CASE HasViv(Prog)
    <3>1. HasNode(Prog)
      BY <1>1, <2>1 DEF Apart
    <3>2. Len(node.outQ) = 0
      BY <1>5, <2>1, <2>3, <3>1, Handover DEF Live
    <3> QED
      BY <1>1, <3>2
  <2> QED
    BY <2>2, <2>3
<1>6. ASSUME NEW k \in 1 .. Len(node'.outQ), node'.outQ[k].seq # Blank
      PROVE  mem'[node'.outQ[k].cell] = node'.outQ[k].seq
  <2>1. CASE Submit
    <3>1. At("submit") /\ me.runs # << >>
      BY <2>1, SubmitDoes
    <3>2. /\ node'.outQ[k].seq = node.seq /\ node'.outQ[k].cell = <<Prog.mem, OutIndex>>
      BY <1>2, <1>5, <1>6, <2>1, <3>1
    <3>3. HasViv(Prog)
      BY <1>6, <3>1, <3>2 DEF Numbered
    <3> QED
      BY <2>1, <3>2, <3>3, CopierDraws
  <2>2. CASE ~Submit
    <3>1. PICK j \in 1 .. Len(node.outQ) : node'.outQ[k] = node.outQ[j]
      BY <2>2, OutBefore
    <3>2. mem[node.outQ[j].cell] = node.outQ[j].seq
      BY <1>6, <3>1 DEF Numbered
    <3>3. ~FillHeap
      BY <1>5, <1>6, <3>1 DEF FillHeap, Call
    <3>4. ~StreamOn
      BY <1>5, <1>6, <3>1 DEF StreamOn, Call
    <3> QED
      BY <2>2, <3>1, <3>2, <3>3, <3>4, FillSpares, FieldSteps
  <2> QED
    BY <2>1, <2>2
<1> QED
  BY <1>3, <1>4, <1>6 DEF Numbered

LEMMA HeapReady ==
  ASSUME Inv, At("submit"), Prog.mem = "heap"
  PROVE  Ready(me, Prog, "heap") /\ ~HasViv(Prog)
<1>1. /\ Kind(Prog) /\ Plan(Prog) /\ HasNode(Prog) /\ me \in MeType
      /\ Phase \in {"setup", "fill", "loop"}
  BY Where, SubmitNode, SubmitCall
<1>2. "heap" \in Calls(Prog.setup) /\ ~HasViv(Prog)
  BY <1>1, KindMem
<1>3. CASE Phase = "setup"
  <2>1. Part(Prog, "setup") = Prog.setup /\ List(Prog.setup)
    BY <1>1, PartOf DEF Phases
  <2>2. me.pc[2] \in 1 .. Len(Prog.setup) /\ "submit" = Prog.setup[me.pc[2]]
    BY <1>3, <2>1, Where DEF Phase
  <2>3. Staged(Prog.setup) /\ Calls(Prog.setup) \subseteq SetupNames
    BY <1>1, KindCalls DEF Kind
  <2>4. Stage("heap") < Stage(Prog.setup[me.pc[2]])
          => Called(Prog.setup, me.pc[2], {"heap"})
    BY <1>2, <2>1, <2>2, <2>3, InStages
  <2>5. Stage("submit") = 8 /\ Stage("heap") = 6 /\ 6 < 8
    BY DEF Stage
  <2> QED
    BY <1>2, <2>2, <2>4, <2>5 DEF Ready
<1>4. CASE Phase # "setup"
  BY <1>2, <1>4 DEF Ready, Phase
<1> QED
  BY <1>3, <1>4

(* A submission leaves the frame in the memory that it names, and the      *)
(* frames still in flight in theirs.                                       *)
LEMMA SubmitShows ==
  ASSUME Inv, Counters, Flight, Filled, Shows, Submit, Live, HasNode(Prog),
         NEW k \in 1 .. Len(node'.outQ)
  PROVE  /\ node'.outQ[k].cell = <<Prog.mem, node'.outQ[k].idx>>
         /\ node'.outQ[k].dropped \/ mem'[node'.outQ[k].cell] = Wanted(node'.outQ[k].id[2])
<1>1. /\ At("submit") /\ Call("submit") /\ Submits /\ OutIndex \in Idx /\ Kind(Prog)
  BY SubmitDoes, Where
<1>2. PICK b : Sends(b)
  BY SubmitDoes
<1>3. k \in 1 .. Len(node.outQ) \/ k = Len(node.outQ) + 1
  BY <1>2 DEF Sends, Put
<1>4. CASE k = Len(node.outQ) + 1
  <2>1. /\ node'.outQ[k] = b /\ b.cell = <<Prog.mem, OutIndex>> /\ b.idx = OutIndex
        /\ b.dropped = Drops(FrameNo) /\ b.id[2] = FrameNo
    BY <1>2, <1>4 DEF Sends, Put, Id
  <2>2. /\ Prog.mem \in {"own", "viv", "heap", "surface"}
        /\ Prog.backend \in {"VCAM", "FIXTURE"}
        /\ Prog.mem = "viv" => HasViv(Prog)
        /\ Prog.backend = "FIXTURE" => Prog.mem # "surface"
        /\ HasViv(Prog) <=> Prog.index = "camera"
        /\ HasViv(Prog) => Prog.mem # "heap"
    BY <1>1, KindMem, KindFacts
  <2>3. CASE HasViv(Prog)
    <3>1. mem'[<<Prog.mem, OutIndex>>] = cur.viv.seq
      BY <2>3, CopierDraws
    <3>2. Prog.index = "camera" /\ Prog.mem # "heap"
      BY <2>2, <2>3
    <3>3. Wanted(FrameNo) = cur.viv.seq
      BY ONLY <3>2 DEF Wanted
    <3> QED
      BY <2>1, <3>1, <3>3
  <2>4. CASE Prog.backend = "VCAM"
    <3>1. ~Drops(FrameNo) => mem'[<<Prog.mem, OutIndex>>] = Wanted(FrameNo)
      BY <2>4, SubmitDraws
    <3>2. b.dropped \/ ~Drops(FrameNo)
      BY <2>1
    <3> QED
      BY <2>1, <3>1, <3>2
  <2>5. CASE Prog.backend = "FIXTURE" /\ Prog.mem = "own" /\ ~HasViv(Prog)
    <3>1. mem'[<<Prog.mem, OutIndex>>] = Wanted(FrameNo)
      BY <2>2, <2>5, SubmitDraws
    <3> QED
      BY <2>1, <3>1
  <2>6. CASE Prog.mem = "heap"
    <3>1. Ready(me, Prog, "heap") /\ ~HasViv(Prog)
      BY <1>1, <2>6, HeapReady
    <3>2. mem' = mem
      BY <2>6, SubmitDraws
    <3>3. mem[<<"heap", OutIndex>>] = <<"fixture", 0, 0>>
      BY <1>1, <2>6, <3>1 DEF Shows
    <3>4. Wanted(FrameNo) = <<"fixture", 0, 0>>
      BY <2>2, <2>6, <3>1 DEF Wanted
    <3> QED
      BY <2>1, <2>6, <3>2, <3>3, <3>4
  <2> QED
    BY <2>2, <2>3, <2>4, <2>5, <2>6
<1>5. CASE k \in 1 .. Len(node.outQ)
  <2>1. node'.outQ[k] = node.outQ[k]
    BY <1>2, <1>5 DEF Sends, Put
  <2>2. /\ node.outQ[k].cell = <<Prog.mem, node.outQ[k].idx>>
        /\ node.outQ[k].dropped \/ mem[node.outQ[k].cell] = Wanted(node.outQ[k].id[2])
    BY <1>5 DEF Shows
  <2>3. Runner(Prog) /\ Prog.mem # "surface"
    <3>1. Len(node.outQ) # 0
      BY <1>5
    <3> QED
      BY <1>1, <3>1, Handover
  <2>4. Prog.mem = "own"
    BY <1>1, <2>3, KindMem
  <2>5. node.outQ \in Seq(InType) /\ DOMAIN node.outQ = 1 .. Len(node.outQ)
    BY Kept DEF NodeType
  <2>6. node.outQ[k].idx # OutIndex
    BY <1>1, <1>5, <2>5, OutIndexOk DEF MineOut, Held
  <2>7. node.outQ[k].cell \in Cells
    <3>1. node.outQ[k] \in InType
      BY <1>5, <2>5
    <3> QED
      BY <3>1 DEF InType
  <2>8. /\ node.outQ[k].cell # <<Prog.mem, OutIndex>>
        /\ node.outQ[k].cell # <<"surface", 0>>
    BY <2>2, <2>4, <2>6
  <2>9. mem'[node.outQ[k].cell] = mem[node.outQ[k].cell]
    BY <2>7, <2>8, SubmitDraws
  <2> QED
    BY <2>1, <2>2, <2>9
<1> QED
  BY <1>3, <1>4, <1>5

LEMMA ShowsOthers ==
  ASSUME Inv, Apart, Shows, me' = me, Others, [Next]_vars
  PROVE  Shows'
<1> SUFFICES ASSUME Live', HasNode(Prog') PROVE Shows'
  BY DEF Shows
<1>1. cur' = cur /\ Live /\ Prog' = Prog /\ HasNode(Prog)
  BY DEF Others, RunJob, VividFill, VividSkip, PublishForeign, DrainOpen, DrainRead,
     progVars, vars, Live, Phase, Prog
<1>2. \A no : Wanted(no)' = Wanted(no)
  BY <1>1 DEF Wanted
<1>3. \A b : Good(b) => Good(b)'
  BY <1>2 DEF Good
<1>4. DOMAIN mem = Cells
  BY Kept DEF OtherTypes
<1>5. mem' = mem \/ VividFill
  BY DEF Others, RunJob, VividSkip, PublishForeign, DrainOpen, DrainRead, vars
<1>6. \A i \in Idx : mem'[<<"heap", i>>] = mem[<<"heap", i>>]
  <2>1. VividFill => \E i, v : mem' = [mem EXCEPT ![<<"viv", i>>] = v]
    BY DEF VividFill
  <2>2. \A i \in Idx : <<"heap", i>> \in Cells
    BY DEF Cells
  <2>3. \A i, j : <<"heap", i>> # <<"viv", j>>
    OBVIOUS
  <2> QED
    BY <1>4, <1>5, <2>1, <2>2, <2>3
<1>7. \A k \in 1 .. Len(node.outQ) : mem'[node.outQ[k].cell] = mem[node.outQ[k].cell]
  BY <1>5, FillSpares
<1>8. /\ \A k \in 1 .. Len(node.outQ) :
           /\ node.outQ[k].cell = <<Prog.mem, node.outQ[k].idx>>
           /\ node.outQ[k].dropped \/ mem[node.outQ[k].cell] = Wanted(node.outQ[k].id[2])
      /\ \A k \in 1 .. Len(node.capDone) : Good(node.capDone[k])
      /\ InHand(me, Prog) => Good(cur.cap)
  BY <1>1 DEF Shows
<1>9. (Good(cur.cap) => Good(cur.cap)')
  BY <1>1, <1>2 DEF Good
<1>10. node' = node \/ RunJob
  BY DEF Others, VividFill, VividSkip, PublishForeign, DrainOpen, DrainRead, vars
<1>11. ASSUME NEW k \in 1 .. Len(node'.outQ)
       PROVE  /\ node'.outQ[k].cell = <<Prog.mem, node'.outQ[k].idx>>
              /\ \/ node'.outQ[k].dropped
                 \/ mem'[node'.outQ[k].cell] = Wanted(node'.outQ[k].id[2])
  <2>1. PICK j \in 1 .. Len(node.outQ) : node'.outQ[k] = node.outQ[j]
    <3>1. CASE RunJob
      <4>1. Took(node.outQ, node'.outQ)
        BY <3>1, RunJobDoes DEF Jobs
      <4>2. k + 1 \in 1 .. Len(node.outQ) /\ node'.outQ[k] = node.outQ[k + 1]
        BY <4>1 DEF Took
      <4> QED
        BY <4>2
    <3> QED
      BY <1>10, <3>1
  <2> QED
    BY <1>7, <1>8, <2>1
<1>12. ASSUME NEW k \in 1 .. Len(node'.capDone) PROVE Good(node'.capDone[k])
  <2>1. CASE RunJob
    <3>1. PICK in, b : Jobs(in, b)
      BY <2>1, RunJobDoes
    <3>2. k \in 1 .. Len(node.capDone) \/ k = Len(node.capDone) + 1
      BY <3>1 DEF Jobs, Put
    <3>3. CASE k \in 1 .. Len(node.capDone)
      BY <1>8, <3>1, <3>3 DEF Jobs, Put
    <3>4. CASE k = Len(node.capDone) + 1
      <4>1. node'.capDone[k] = b /\ in = node.outQ[1] /\ 1 \in 1 .. Len(node.outQ)
        BY <3>1, <3>4 DEF Jobs, Put
      <4>2. b.id = in.id /\ b.dropped = in.dropped /\ (~b.err => b.pixels = mem[in.cell])
        BY <3>1 DEF Jobs
      <4>3. in.dropped \/ mem[in.cell] = Wanted(in.id[2])
        BY <1>8, <4>1
      <4> QED
        BY <4>1, <4>2, <4>3 DEF Good
    <3> QED
      BY <3>2, <3>3, <3>4
  <2>2. CASE ~RunJob
    BY <1>8, <1>10, <2>2
  <2> QED
    BY <2>1, <2>2
<1>13. \A k \in 1 .. Len(node'.capDone) : Good(node.capDone[k])'
  BY <1>2, <1>12 DEF Good
<1>14. Prog.mem = "heap" /\ Ready(me, Prog, "heap")
         => \A i \in Idx : mem'[<<"heap", i>>] = <<"fixture", 0, 0>>
  BY <1>1, <1>6 DEF Shows
<1> QED
  BY <1>1, <1>2, <1>8, <1>9, <1>11, <1>13, <1>14 DEF Shows

LEMMA HeapStays ==
  ASSUME Inv, Inv', Shows, NEW c, NEW s, Makes(c, s), Acts(c, s), ~Others, [Next]_vars,
         HasNode(Prog), Prog.mem = "heap", Ready(me', Prog, "heap"), NEW i \in Idx
  PROVE  mem'[<<"heap", i>>] = <<"fixture", 0, 0>>
<1>1. Kind(Prog) /\ Live /\ At(c)
  BY MadeFacts DEF Makes
<1>2. "heap" \in Calls(Prog.setup)
  BY <1>1, KindMem
<1>3. DOMAIN mem = Cells /\ <<"heap", i>> \in Cells /\ <<"heap", i>> # <<"surface", 0>>
  <2>1. DOMAIN mem = Cells
    BY Kept DEF OtherTypes
  <2> QED
    BY <2>1 DEF Cells
<1>4. CASE c = "heap"
  <2>1. FillHeap
    BY <1>4 DEF Acts
  <2> QED
    BY <1>3, <2>1 DEF FillHeap
<1>5. CASE c # "heap"
  <2>1. Ready(me, Prog, "heap")
    BY <1>2, <1>5 DEF Makes, Forward
  <2>2. mem[<<"heap", i>>] = <<"fixture", 0, 0>>
    BY <1>1, <2>1 DEF Shows
  <2>3. Submit => mem' = mem
    BY SubmitDraws
  <2>4. StreamOn => mem'[<<"heap", i>>] = mem[<<"heap", i>>]
    BY <1>3 DEF StreamOn
  <2> QED
    BY <1>5, <2>2, <2>3, <2>4, MakesQueues
<1> QED
  BY <1>4, <1>5

(* The frames in flight stay in their memory. *)
LEMMA OutStays ==
  ASSUME Inv, Inv', Counters, Flight, Shows, NEW c, NEW s, Makes(c, s), Acts(c, s),
         ~Others, [Next]_vars, HasNode(Prog), ~Submit, NEW k \in 1 .. Len(node'.outQ)
  PROVE  \E j \in 1 .. Len(node.outQ) :
            /\ node'.outQ[k] = node.outQ[j]
            /\ mem'[node.outQ[j].cell] = mem[node.outQ[j].cell]
<1>1. Kind(Prog) /\ Live /\ At(c)
  BY MadeFacts DEF Makes
<1>2. PICK j \in 1 .. Len(node.outQ) : node'.outQ[k] = node.outQ[j]
  BY OutBefore
<1>3. Len(node.outQ) # 0
  BY <1>2
<1>4. c # "heap"
  BY <1>1, <1>3, Handover
<1>5. CASE mem' = mem
  BY <1>2, <1>5
<1>6. CASE c \in {"onCap", "onOut"} /\ StreamOn
  <2>1. Phase = "setup"
    BY <1>1, <1>6, Where DEF Phases, LoopCalls, Quits
  <2>2. Feeder(Prog)
    BY <1>1, <1>3, <2>1, Handover
  <2>3. Prog.mem = "heap"
    BY <1>1, <2>2, KindMem
  <2>4. node.outQ[j].cell = <<"heap", node.outQ[j].idx>>
    BY <1>1, <1>2, <2>3 DEF Shows
  <2>5. DOMAIN mem = Cells
    BY Kept DEF OtherTypes
  <2>6. node.outQ[j].cell \in Cells
    <3>1. node.outQ \in Seq(InType)
      BY Kept DEF NodeType
    <3>2. node.outQ[j] \in InType
      BY <1>2, <3>1
    <3> QED
      BY <3>2 DEF InType
  <2>7. node.outQ[j].cell # <<"surface", 0>>
    BY <2>4
  <2>8. mem'[node.outQ[j].cell] = mem[node.outQ[j].cell]
    BY <1>6, <2>5, <2>6, <2>7 DEF StreamOn
  <2> QED
    BY <1>2, <2>8
<1> QED
  BY <1>4, <1>5, <1>6, MakesQueues

(* A new buffer of the camera, and its being forgotten: nothing is in      *)
(* flight then.                                                            *)
LEMMA ShowsTurn ==
  ASSUME Inv, Inv', Counters, Flight, Shows, NEW c, NEW s, Makes(c, s), Acts(c, s),
         ~Others, [Next]_vars, HasNode(Prog), HasViv(Prog), c \in {"dqViv", "row"}
  PROVE  Shows'
<1>1. Kind(Prog) /\ Live /\ At(c) /\ Prog' = Prog
  BY MadeFacts DEF Makes
<1>2. Len(node.outQ) = 0 /\ Len(node.capDone) = 0
  BY <1>1, Handover
<1>3. QueuesKept
  BY MakesQueues
<1>4. Len(node'.outQ) = 0 /\ Len(node'.capDone) = 0
  BY <1>2, <1>3 DEF QueuesKept
<1>5. ~InHand(me', Prog)
  <2>1. CASE c = "row"
    BY <2>1, TurnCount
  <2>2. CASE c = "dqViv"
    BY <2>2, VivTurn DEF InHand
  <2> QED
    BY <2>1, <2>2
<1>6. Prog.mem # "heap"
  BY <1>1, KindMem
<1>7. \A k \in 1 .. 0 : FALSE
  OBVIOUS
<1> QED
  BY <1>1, <1>4, <1>5, <1>6, <1>7 DEF Shows

LEMMA ShowsMade ==
  ASSUME Inv, Inv', Counters, Flight, Filled, Shows, NEW c, NEW s, Makes(c, s), Acts(c, s),
         ~Others, [Next]_vars, HasNode(Prog)
  PROVE  Shows'
<1>1. Kind(Prog) /\ Live /\ At(c) /\ Prog' = Prog /\ me'.runs = me.runs
  BY MadeFacts DEF Makes
<1>2. CASE HasViv(Prog) /\ c \in {"dqViv", "row"}
  BY <1>2, ShowsTurn
<1>3. CASE ~(HasViv(Prog) /\ c \in {"dqViv", "row"})
  <2>1. \A no : Wanted(no)' = Wanted(no)
    <3>1. CASE HasViv(Prog)
      <4>1. cur'.viv = cur.viv
        BY <1>3, <3>1, CurVivSteps
      <4> QED
        BY <1>1, <4>1 DEF Wanted
    <3>2. CASE ~HasViv(Prog)
      <4>1. Prog.index # "camera"
        BY <1>1, <3>2, KindFacts
      <4> QED
        BY <1>1, <4>1 DEF Wanted
    <3> QED
      BY <3>1, <3>2
  <2>2. \A b : Good(b) => (b.err \/ b.dropped \/ b.pixels = Wanted(b.id[2])')
    BY <2>1 DEF Good
  <2>3. /\ \A k \in 1 .. Len(node.outQ) :
             /\ node.outQ[k].cell = <<Prog.mem, node.outQ[k].idx>>
             /\ node.outQ[k].dropped \/ mem[node.outQ[k].cell] = Wanted(node.outQ[k].id[2])
        /\ \A k \in 1 .. Len(node.capDone) : Good(node.capDone[k])
        /\ InHand(me, Prog) => Good(cur.cap)
    BY <1>1 DEF Shows
  <2>4. ASSUME NEW k \in 1 .. Len(node'.outQ)
        PROVE  /\ node'.outQ[k].cell = <<Prog.mem, node'.outQ[k].idx>>
               /\ \/ node'.outQ[k].dropped
                  \/ mem'[node'.outQ[k].cell] = Wanted(node'.outQ[k].id[2])
    <3>1. CASE Submit
      BY <1>1, <3>1, SubmitShows
    <3>2. CASE ~Submit
      <4>1. PICK j \in 1 .. Len(node.outQ) :
              /\ node'.outQ[k] = node.outQ[j]
              /\ mem'[node.outQ[j].cell] = mem[node.outQ[j].cell]
        BY <3>2, OutStays
      <4> QED
        BY <2>3, <4>1
    <3> QED
      BY <3>1, <3>2
  <2>5. ASSUME NEW k \in 1 .. Len(node'.capDone) PROVE Good(node'.capDone[k])
    <3>1. ~RunJob
      BY DEF Others
    <3>2. PICK j \in 1 .. Len(node.capDone) : node'.capDone[k] = node.capDone[j]
      BY <3>1, CapBefore
    <3> QED
      BY <2>3, <3>2
  <2>6. ASSUME InHand(me', Prog) PROVE Good(cur'.cap)
    <3>1. c # "row" /\ (c = "dqCap" \/ InHand(me, Prog))
      BY <2>6, TurnCount
    <3>2. CASE c = "dqCap"
      <4>1. DequeueCapture
        BY <3>2 DEF Acts
      <4>2. cur'.cap = node.capDone[1]
        BY <4>1, RowSteps
      <4>3. node.capDone # << >>
        BY <4>1 DEF DequeueCapture
      <4>4. 1 \in 1 .. Len(node.capDone)
        <5>1. node.capDone \in Seq(DoneType)
          BY Kept DEF NodeType
        <5> QED
          BY <4>3, <5>1, EmptySeq
      <4> QED
        BY <2>3, <4>2, <4>4
    <3>3. CASE c # "dqCap"
      <4>1. cur'.cap = cur.cap
        BY <3>1, <3>3, MakesSide
      <4> QED
        BY <2>3, <3>1, <3>3, <4>1
    <3> QED
      BY <3>2, <3>3
  <2>7. \A k \in 1 .. Len(node'.capDone) : Good(node.capDone[k])'
    BY <2>1, <2>5 DEF Good
  <2>8. InHand(me', Prog) => Good(cur.cap)'
    BY <2>1, <2>6 DEF Good
  <2>9. Prog.mem = "heap" /\ Ready(me', Prog, "heap")
          => \A i \in Idx : mem'[<<"heap", i>>] = <<"fixture", 0, 0>>
    BY HeapStays
  <2> QED
    BY <1>1, <2>1, <2>4, <2>7, <2>8, <2>9 DEF Shows
<1> QED
  BY <1>2, <1>3

LEMMA ShowsNext ==
  ASSUME Inv, Inv', Counters, Flight, Apart, Filled, Shows, Way, [Next]_vars
  PROVE  Shows'
<1>1. CASE me' = me /\ Others
  BY <1>1, ShowsOthers
<1>2. CASE Ends
  BY <1>2 DEF Ends, Shows
<1>3. CASE NewRun
  <2>1. node' = ClosedNode /\ \A x : ~Past(me', Prog', x) /\ ~Ready(me', Prog', x)
    BY <1>3, SecondRun
  <2>2. Len(node'.outQ) = 0 /\ Len(node'.capDone) = 0
    BY <2>1 DEF ClosedNode
  <2>3. \A k \in 1 .. 0 : FALSE
    OBVIOUS
  <2>4. ~InHand(me', Prog')
    BY <2>1 DEF InHand
  <2> QED
    BY <2>1, <2>2, <2>3, <2>4 DEF Shows
<1>4. ASSUME NEW c, NEW s, ~Others, Makes(c, s), Acts(c, s) PROVE Shows'
  <2>1. Prog' = Prog
    BY <1>4 DEF Makes
  <2>2. CASE HasNode(Prog)
    BY <1>4, <2>2, ShowsMade
  <2>3. CASE ~HasNode(Prog)
    BY <2>1, <2>3 DEF Shows
  <2> QED
    BY <2>2, <2>3
<1> QED
  BY <1>1, <1>2, <1>3, <1>4 DEF Way

Frame4 == Apart /\ Filled /\ Numbered /\ Shows

LEMMA Frame4Init == Init => Frame4
<1> SUFFICES ASSUME Init PROVE Frame4
  OBVIOUS
<1>1. /\ Len(node.outQ) = 0 /\ Len(node.capDone) = 0 /\ node.seq = Blank
      /\ Len(viv.q) = 0 /\ Len(viv.done) = 0 /\ me.pc = <<"setup", 1>>
  BY FirstState DEF ClosedNode, ClosedViv
<1>2. \A k \in 1 .. 0 : FALSE
  OBVIOUS
<1>3. \A x : ~Past(me, Prog, x) /\ ~Ready(me, Prog, x)
  <2>1. \A z, C : ~Called(z, 1, C)
    BY CalledNone
  <2> QED
    BY <1>1, <2>1 DEF Past, Ready
<1>4. Apart
  BY <1>1, <1>2, <1>3 DEF Apart, Sole
<1>5. Filled
  BY <1>1, <1>2, <1>3 DEF Filled, CurViv
<1>6. Numbered
  BY <1>1, <1>2 DEF Numbered
<1>7. Shows
  BY <1>1, <1>2, <1>3 DEF Shows, InHand
<1> QED
  BY <1>4, <1>5, <1>6, <1>7 DEF Frame4

LEMMA Frame4Next == Inv /\ Inv' /\ [Next]_vars /\ Frame1 /\ Frame4 => Frame4'
<1> SUFFICES ASSUME Inv, Inv', [Next]_vars, Frame1, Frame4 PROVE Frame4'
  OBVIOUS
<1>1. Way /\ Counters /\ Flight /\ Apart /\ Filled /\ Numbered /\ Shows
  BY Ways DEF Frame1, Frame4
<1> QED
  BY <1>1, ApartNext, FilledNext, NumberedNext, ShowsNext DEF Frame4

LEMMA Frame4Holds == Spec => []Frame4
  BY FrameHolds, Frame4Init, Frame4Next, PTL DEF Spec

LEMMA PixelsIn == Inv /\ Frame3 /\ Frame4 => PixelsOfFrame
<1> SUFFICES ASSUME Inv, Frame3, Frame4 PROVE PixelsOfFrame
  OBVIOUS
<1>1. Opened /\ Stamps /\ Numbered /\ Shows
  BY DEF Frame3, Frame4
<1>2. ASSUME At("row"), node.open
      PROVE  cur.cap.err \/ cur.cap.dropped \/ cur.cap.pixels = Wanted(me.i)
  <2>1. Live /\ Kind(Prog) /\ me.runs # << >>
    BY <1>2, AtRow DEF Live
  <2>2. HasNode(Prog)
    BY <1>1, <1>2, <2>1 DEF Opened
  <2>3. InHand(me, Prog)
    BY <1>2, <2>2, AtRow
  <2>4. Good(cur.cap)
    BY <1>1, <2>1, <2>2, <2>3 DEF Shows
  <2>5. Wanted(cur.cap.id[2]) = Wanted(me.i)
    <3>1. CASE HasViv(Prog)
      <4>1. Prog.index = "camera" /\ Prog.mem # "heap"
        BY <2>1, <2>2, <3>1, KindFacts, KindMem
      <4> QED
        BY ONLY <4>1 DEF Wanted
    <3>2. CASE ~HasViv(Prog)
      <4>1. cur.cap.id = Id(me.i)
        BY <1>1, <2>1, <2>2, <2>3, <3>2 DEF Stamps
      <4>2. cur.cap.id[2] = me.i
        BY <4>1 DEF Id
      <4> QED
        BY <4>2
    <3> QED
      BY <3>1, <3>2
  <2> QED
    BY <2>4, <2>5 DEF Good
<1>3. DOMAIN node.capDone = 1 .. Len(node.capDone)
  <2>1. node.capDone \in Seq(DoneType)
    BY Kept DEF NodeType
  <2> QED
    BY <2>1
<1>4. \A k \in DOMAIN node.capDone :
        node.capDone[k].seq # Blank
          => node.capDone[k].err \/ node.capDone[k].pixels = node.capDone[k].seq
  BY <1>1, <1>3 DEF Numbered
<1> QED
  BY <1>2, <1>4 DEF PixelsOfFrame, CameraOnly

(* Every frame written out shows the pixels of its own source frame: the   *)
(* buffer the tool dequeued was computed from the memory its own QBUF named *)
(* before anything drew the next frame there, unless the job failed or the *)
(* backend dropped the frame; and a buffer that carries the number of a    *)
(* camera frame (src_v4l2_sequence) was computed from that frame.          *)
THEOREM PixelsOfFrameHolds == Spec => []PixelsOfFrame
  BY FrameHolds, Frame3Holds, Frame4Holds, PixelsIn, PTL

-----------------------------------------------------------------------------
(* The devices accept the calls.  Buffers granted and queues started, by   *)
(* the calls of the set-up that have been made.                            *)
VivRequests == {"mapViv", "reqUser"}
Granted ==
  Live =>
    /\ HasNode(Prog) =>
         /\ "OUT" \in node.on <=> Ready(me, Prog, "onOut")
         /\ "CAP" \in node.on <=> Ready(me, Prog, "onCap")
         /\ IF Ready(me, Prog, "mapCap") THEN node.n.CAP \in 2 .. N ELSE node.n.CAP = 0
         /\ \A x \in Calls(Prog.setup) \cap Requests("OUT") : Ready(me, Prog, x) =>
              node.n.OUT \in 2 .. N /\ (Prog.mem \in {"heap", "viv"} => node.n.OUT = N)
         /\ (\A x \in Calls(Prog.setup) \cap Requests("OUT") : ~Ready(me, Prog, x))
              => node.n.OUT = 0
    /\ HasViv(Prog) =>
         /\ Ready(me, Prog, "onViv") => viv.on
         /\ \A x \in Calls(Prog.setup) \cap VivRequests :
              IF Ready(me, Prog, x) THEN viv.n \in 2 .. N ELSE viv.n = 0

(* Every job that ended gave back one buffer of each queue. *)
Taken(m, g) == IF "dqOut" \in Calls(g.loop) THEN Done(m, g, "dqOut") ELSE 0
Balance ==
  Live /\ HasNode(Prog) =>
    Taken(me, Prog) + Len(node.outDone) = Done(me, Prog, "dqCap") + Len(node.capDone)

(* No index is twice in a queue, with its device, or in both places. *)
Distinct(q) == \A j, k \in 1 .. Len(q) : q[j].idx = q[k].idx => j = k
Solo(q, d) == /\ Distinct(q) /\ Distinct(d)
              /\ \A k \in 1 .. Len(d) : NotIn(q, d[k].idx)
Box(q) == [k \in 1 .. Len(q) |-> [idx |-> q[k]]]
Soles ==
  /\ Solo(node.outQ, node.outDone) /\ Solo(Box(node.capQ), node.capDone)
  /\ Solo(viv.q, viv.done)

(* The indices that are with the program. *)
Free(q, d, i) == NotIn(q, i) /\ NotIn(d, i)
Below(q, n) == \A k \in 1 .. Len(q) : q[k].idx < n
Unqueued(m, g) == \A x \in Calls(g.setup) \cap {"qCaps", "qCap0"} : ~Ready(m, g, x)
Mine ==
  Live =>
    /\ HasNode(Prog) /\ Past(me, Prog, "dqOut") /\ Runner(Prog) =>
         Free(node.outQ, node.outDone, cur.out)
    /\ Phase = "fill" /\ Prog.mem = "own" =>
         Below(node.outQ, me.sent) /\ Below(node.outDone, me.sent)
    /\ HasNode(Prog) /\ Past(me, Prog, "dqCap") /\ ~Past(me, Prog, "qCap") =>
         Free(Box(node.capQ), node.capDone, cur.cap.idx)
    /\ HasNode(Prog) /\ Unqueued(me, Prog) => Len(node.capQ) = 0 /\ Len(node.capDone) = 0
    /\ HasViv(Prog) /\ Past(me, Prog, "dqViv") => Free(viv.q, viv.done, cur.viv.idx)
    /\ HasViv(Prog) /\ ~Ready(me, Prog, "qVivs") => Len(viv.q) = 0 /\ Len(viv.done) = 0

(* The addresses the camera was given are those of the slots. *)
Addressed(q) == \A k \in 1 .. Len(q) : q[k].addr = slot.addr[q[k].idx]
Addresses ==
  /\ me.runs # << >> /\ ~HasViv(Prog) =>
       cur.viv.addr = 0 /\ \A z \in Idx : slot.addr[z] = 0
  /\ Live /\ HasViv(Prog) =>
       /\ Addressed(viv.q) /\ Addressed(viv.done)
       /\ CurViv(me, Prog) => cur.viv.addr = slot.addr[cur.viv.idx]

LEMMA JobFields ==
  ASSUME Inv, RunJob
  PROVE  node'.n = node.n /\ node'.on = node.on
<1>1. node \in NodeType
  BY Kept
<1>2. PICK in, b : Jobs(in, b)
  BY RunJobDoes
<1>3. PICK p, q, r, t : /\ p = node'.outQ /\ q = node'.capQ /\ r = node'.outDone
                        /\ t = node'.capDone
  OBVIOUS
<1>4. node' = [node EXCEPT !.outQ = p, !.capQ = q, !.outDone = r, !.capDone = t]
  BY <1>2, <1>3 DEF Jobs
<1> QED
  BY <1>1, <1>4 DEF NodeType

(* What the calls do to the buffers granted, the streams and the queues    *)
(* that the frames' proofs did not look at.                                *)
LEMMA MoreFields ==
  ASSUME Inv, [Next]_vars
  PROVE  /\ node'.n = node.n \/ RequestBuffers \/ OpenNode \/ Close
         /\ node'.on = node.on \/ StreamOn \/ StopOutput \/ StopCapture \/ OpenNode \/ Close
         /\ \/ node'.capQ = node.capQ \/ QueueCaptures \/ RequeueCapture \/ RunJob
            \/ StopCapture \/ OpenNode \/ Close
         /\ \/ node'.outDone = node.outDone \/ DequeueOutput \/ RunJob \/ StopOutput
            \/ OpenNode \/ Close
         /\ viv'.n = viv.n \/ RequestViv \/ OpenViv \/ CloseViv
         /\ viv'.on = viv.on \/ StreamOnViv \/ StopViv \/ OpenViv \/ CloseViv
<1>1. node \in NodeType /\ viv \in VivType
  BY Kept DEF OtherTypes
<1>2. \/ node' = node \/ OpenNode \/ SetFormat \/ RequestBuffers \/ QueueCaptures
      \/ StreamOn \/ Submit \/ SetSequence \/ DequeueCapture \/ DequeueOutput
      \/ RequeueCapture \/ StopOutput \/ StopCapture \/ Close \/ RunJob
  <2>1. (\/ Plain \/ FillHeap \/ OpenMeta \/ Export \/ SubmitNone \/ ReadMeta
         \/ WriteRow \/ Verify \/ OpenViv \/ RequestViv) => node' = node
    BY DEF Plain, FillHeap, OpenMeta, Export, SubmitNone, ReadMeta, WriteRow,
       Verify, OpenViv, RequestViv
  <2>2. (\/ MapSlots \/ QueueSlots \/ RequeueViv \/ StreamOnViv \/ DequeueViv
         \/ Remap \/ StopViv \/ CloseMeta \/ CloseViv) => node' = node
    BY DEF MapSlots, QueueSlots, RequeueViv, QueueViv, StreamOnViv, DequeueViv,
       Remap, StopViv, CloseMeta, CloseViv
  <2>3. (\/ Refused \/ Crashes \/ Fails \/ Killed \/ VividFill \/ VividSkip \/ DrainOpen
         \/ DrainFails \/ DrainRead \/ UNCHANGED vars \/ PublishForeign) => node' = node
    BY DEF Refused, Crashes, Fails, Killed, Dies, VividFill, VividSkip, DrainOpen,
       DrainFails, DrainRead, vars, PublishForeign
  <2> QED
    BY <2>1, <2>2, <2>3 DEF Next, Program
<1>3. SetFormat \/ SetSequence \/ DequeueCapture
        => node'.n = node.n /\ node'.on = node.on /\ node'.capQ = node.capQ
           /\ node'.outDone = node.outDone
  BY <1>1 DEF SetFormat, SetSequence, DequeueCapture, NodeType
<1>4. RequestBuffers =>
        node'.on = node.on /\ node'.capQ = node.capQ /\ node'.outDone = node.outDone
  <2>1. RequestBuffers =>
          \/ \E x : node' = [node EXCEPT !.n.OUT = x, !.plane.OUT = node.size]
          \/ \E x : node' = [node EXCEPT !.n.CAP = x, !.plane.CAP = node.size]
    BY DEF RequestBuffers
  <2> QED
    BY <1>1, <2>1 DEF NodeType
<1>5. QueueCaptures \/ RequeueCapture =>
        node'.n = node.n /\ node'.on = node.on /\ node'.outDone = node.outDone
  <2>1. QueueCaptures \/ RequeueCapture => \E x : node' = [node EXCEPT !.capQ = x]
    BY DEF QueueCaptures, RequeueCapture
  <2> QED
    BY <1>1, <2>1 DEF NodeType
<1>6. StreamOn =>
        node'.n = node.n /\ node'.capQ = node.capQ /\ node'.outDone = node.outDone
  <2>1. StreamOn => \E x : node' = [node EXCEPT !.on = x]
    BY DEF StreamOn
  <2> QED
    BY <1>1, <2>1 DEF NodeType
<1>7. Submit => /\ node'.n = node.n /\ node'.on = node.on /\ node'.capQ = node.capQ
                /\ node'.outDone = node.outDone
  <2>1. Submit => \E x : node' = [node EXCEPT !.outQ = x]
    BY SubmitDoes DEF Sends
  <2> QED
    BY <1>1, <2>1 DEF NodeType
<1>8. DequeueOutput =>
        node'.n = node.n /\ node'.on = node.on /\ node'.capQ = node.capQ
  BY <1>1 DEF DequeueOutput, NodeType
<1>9. StopOutput => node'.n = node.n /\ node'.capQ = node.capQ
  BY <1>1 DEF StopOutput, NodeType
<1>10. StopCapture => node'.n = node.n /\ node'.outDone = node.outDone
  BY <1>1 DEF StopCapture, NodeType
<1>11. RunJob => node'.n = node.n /\ node'.on = node.on
  BY JobFields
<1>12. /\ viv'.n = viv.n \/ RequestViv \/ OpenViv \/ CloseViv
       /\ viv'.on = viv.on \/ StreamOnViv \/ StopViv \/ OpenViv \/ CloseViv
  <2>1. RequestViv => viv'.on = viv.on
    BY <1>1 DEF RequestViv, VivType
  <2>2. QueueSlots \/ RequeueViv => viv'.on = viv.on /\ viv'.n = viv.n
    BY <1>1 DEF QueueSlots, RequeueViv, QueueViv, VivType
  <2>3. StreamOnViv \/ StopViv => viv'.n = viv.n
    BY <1>1 DEF StreamOnViv, StopViv, VivType
  <2>4. DequeueViv \/ VividFill \/ VividSkip => viv'.on = viv.on /\ viv'.n = viv.n
    BY <1>1 DEF DequeueViv, VividFill, VividSkip, VivType
  <2> QED
    BY <2>1, <2>2, <2>3, <2>4, FieldSteps
<1> QED
  BY <1>2, <1>3, <1>4, <1>5, <1>6, <1>7, <1>8, <1>9, <1>10, <1>11, <1>12

LEMMA MakesFields ==
  ASSUME Inv, NEW c, NEW s, Makes(c, s), ~Others, [Next]_vars
  PROVE  /\ \/ node'.n = node.n \/ (c = "open" /\ OpenNode)
            \/ (c \in Requests("OUT") \cup Requests("CAP") /\ RequestBuffers)
         /\ \/ node'.on = node.on \/ (c = "open" /\ OpenNode)
            \/ (c \in {"onOut", "onCap"} /\ StreamOn)
         /\ \/ node'.capQ = node.capQ \/ (c = "open" /\ OpenNode)
            \/ (c \in {"qCaps", "qCap0"} /\ QueueCaptures) \/ (c = "qCap" /\ RequeueCapture)
         /\ \/ node'.outDone = node.outDone \/ (c = "open" /\ OpenNode)
            \/ (c = "dqOut" /\ DequeueOutput)
         /\ \/ viv'.n = viv.n \/ (c = "openViv" /\ OpenViv) \/ (c \in VivRequests /\ RequestViv)
         /\ \/ viv'.on = viv.on \/ (c = "openViv" /\ OpenViv) \/ (c = "onViv" /\ StreamOnViv)
         /\ ~CloseViv /\ ~StopViv
<1>1. At(c) /\ Phase # "cleanup"
  BY DEF Makes, Live
<1>2. /\ (OpenNode => c = "open") /\ (StreamOn => c \in {"onCap", "onOut"})
      /\ (QueueCaptures => c \in {"qCaps", "qCap0"}) /\ (RequeueCapture => c = "qCap")
      /\ (DequeueOutput => c = "dqOut") /\ (OpenViv => c = "openViv")
      /\ (StreamOnViv => c = "onViv")
  BY <1>1, SameCall DEF OpenNode, StreamOn, QueueCaptures, RequeueCapture, DequeueOutput,
     OpenViv, StreamOnViv, Call
<1>3. /\ (RequestBuffers => c \in {"mapOut", "reqOut", "reqOne", "mapCap"})
      /\ (RequestViv => c \in {"mapViv", "reqUser"})
  BY <1>1, SameCall DEF RequestBuffers, RequestViv, Call
<1>4. ~StopOutput /\ ~StopCapture /\ ~Close /\ ~CloseViv /\ ~StopViv
  <2>1. c \notin Quits
    BY <1>1, Where DEF Quits, LoopCalls, SetupNames, NodeSetup, VivSetup, Phases
  <2> QED
    BY <1>1, <2>1, SameCall DEF Quits, StopOutput, StopCapture, Close, CloseViv, StopViv
<1>5. ~RunJob
  BY DEF Others
<1>6. Requests("OUT") = {"mapOut", "reqOut", "reqOne"} /\ Requests("CAP") = {"mapCap"}
  BY DEF Requests
<1> QED
  BY <1>2, <1>3, <1>4, <1>5, <1>6, MoreFields DEF VivRequests

LEMMA OthersFields ==
  ASSUME Inv, Others
  PROVE  /\ node'.n = node.n /\ node'.on = node.on /\ viv'.n = viv.n /\ viv'.on = viv.on
         /\ cur' = cur /\ slot' = slot
         /\ RunJob \/ node' = node
         /\ VividFill \/ (viv'.q = viv.q /\ viv'.done = viv.done)
<1>1. node \in NodeType /\ viv \in VivType
  BY Kept DEF OtherTypes
<1>2. cur' = cur /\ slot' = slot /\ (RunJob \/ node' = node)
  BY DEF Others, RunJob, VividFill, VividSkip, PublishForeign, DrainOpen, DrainRead,
     progVars, vars
<1>3. RunJob => node'.n = node.n /\ node'.on = node.on
  BY JobFields
<1>4. viv'.n = viv.n /\ viv'.on = viv.on
  <2>1. VividFill \/ VividSkip => viv'.n = viv.n /\ viv'.on = viv.on
    BY <1>1 DEF VividFill, VividSkip, VivType
  <2>2. (\/ RunJob \/ PublishForeign \/ DrainOpen \/ DrainRead \/ UNCHANGED vars)
          => viv' = viv
    BY DEF RunJob, PublishForeign, DrainOpen, DrainRead, vars
  <2> QED
    BY <2>1, <2>2 DEF Others
<1>5. VividFill \/ (viv'.q = viv.q /\ viv'.done = viv.done)
  <2>1. VividSkip => viv'.q = viv.q /\ viv'.done = viv.done
    BY <1>1 DEF VividSkip, VivType
  <2>2. (\/ RunJob \/ PublishForeign \/ DrainOpen \/ DrainRead \/ UNCHANGED vars)
          => viv' = viv
    BY DEF RunJob, PublishForeign, DrainOpen, DrainRead, vars
  <2> QED
    BY <2>1, <2>2 DEF Others
<1> QED
  BY <1>2, <1>3, <1>4, <1>5

(* The calls of the set-up made before the call c. *)
LEMMA SetupAt ==
  ASSUME Inv, NEW c, At(c), Phase = "setup", NEW x \in Calls(Prog.setup)
  PROVE  /\ c \in Calls(Prog.setup) /\ Stage(c) \in 1 .. 10 /\ Stage(x) \in 1 .. 10
         /\ Stage(x) < Stage(c) => Ready(me, Prog, x)
         /\ Ready(me, Prog, x) => Stage(x) <= Stage(c) /\ x # c
<1>1. /\ Kind(Prog) /\ Plan(Prog) /\ me \in MeType /\ c \in Calls(Prog.setup)
      /\ c \in SetupNames
  BY Where
<1>2. Part(Prog, "setup") = Prog.setup /\ List(Prog.setup)
  BY <1>1, PartOf DEF Phases
<1>3. me.pc[2] \in 1 .. Len(Prog.setup) /\ c = Prog.setup[me.pc[2]]
  BY <1>2, Where DEF Phase
<1>4. Staged(Prog.setup) /\ Calls(Prog.setup) \subseteq SetupNames
  BY <1>1, KindCalls DEF Kind
<1>5. /\ Stage(x) < Stage(c) => Called(Prog.setup, me.pc[2], {x})
      /\ Called(Prog.setup, me.pc[2], {x}) => Stage(x) <= Stage(c) /\ x # c
  BY <1>2, <1>3, <1>4, InStages
<1>6. Stage(c) \in 1 .. 10 /\ Stage(x) \in 1 .. 10
  BY <1>1, <1>4, StageType
<1>7. me.pc[1] = "setup"
  BY DEF Phase
<1> QED
  BY <1>1, <1>5, <1>6, <1>7 DEF Ready

LEMMA KindSetup ==
  ASSUME NEW g, Kind(g)
  PROVE  /\ HasNode(g) => /\ {"open", "onOut", "onCap", "mapCap"} \subseteq Calls(g.setup)
                          /\ \E x \in Requests("OUT") : x \in Calls(g.setup)
         /\ HasNode(g) /\ g.mem \in {"heap", "viv"} =>
              \A x \in Requests("OUT") : x \in Calls(g.setup) => x = "reqOut"
         /\ HasViv(g) => /\ {"openViv", "onViv", "qVivs"} \subseteq Calls(g.setup)
                         /\ \E x \in VivRequests : x \in Calls(g.setup)
                         /\ \A x, y \in VivRequests :
                              x \in Calls(g.setup) /\ y \in Calls(g.setup) => x = y
<1>1. Requests("OUT") = {"mapOut", "reqOut", "reqOne"}
  BY DEF Requests
<1>2. HasNode(g) <=> Runner(g) \/ Copier(g) \/ Bench(g) \/ Feeder(g)
  BY KindFacts
<1>3. HasViv(g) <=> Copier(g) \/ Camera(g)
  BY KindFacts
<1>4. HasViv(g) => /\ {"openViv", "onViv", "qVivs"} \subseteq Calls(g.setup)
                   /\ \E x \in VivRequests : x \in Calls(g.setup)
                   /\ \A x, y \in VivRequests :
                        x \in Calls(g.setup) /\ y \in Calls(g.setup) => x = y
  BY <1>3 DEF Copier, Camera, NodeSetup, VivSetup, VivRequests
<1>5. HasNode(g) => {"open", "onOut", "onCap", "mapCap"} \subseteq Calls(g.setup)
  BY <1>2 DEF Runner, Copier, Bench, Feeder, NodeSetup, VivSetup
<1>6. HasNode(g) => \E x \in Requests("OUT") : x \in Calls(g.setup)
  BY <1>1, <1>2 DEF Runner, Copier, Bench, Feeder
<1>7. HasNode(g) /\ g.mem \in {"heap", "viv"} =>
        \A x \in Requests("OUT") : x \in Calls(g.setup) => x = "reqOut"
  BY <1>1, <1>2 DEF Runner, Copier, Bench, Feeder, NodeSetup, VivSetup
<1> QED
  BY <1>4, <1>5, <1>6, <1>7

LEMMA RequestDoes ==
  ASSUME Inv, RequestBuffers, NEW c, At(c)
  PROVE  /\ c = "mapCap" => node'.n.CAP \in 2 .. N /\ node'.n.OUT = node.n.OUT
         /\ c # "mapCap" => node'.n.OUT \in 2 .. N /\ node'.n.CAP = node.n.CAP
         /\ c = "reqOut" => node'.n.OUT = N
         /\ c \in {"mapCap", "mapOut", "reqOut", "reqOne"}
<1>1. node \in NodeType /\ N \in 2 .. N /\ 2 \in 2 .. N
  BY Kept, Constants
<1>2. \/ /\ At("mapOut")
         /\ \E z \in 2 .. N : node' = [node EXCEPT !.n.OUT = z, !.plane.OUT = node.size]
      \/ At("reqOut") /\ node' = [node EXCEPT !.n.OUT = N, !.plane.OUT = node.size]
      \/ At("reqOne") /\ node' = [node EXCEPT !.n.OUT = 2, !.plane.OUT = node.size]
      \/ /\ At("mapCap")
         /\ \E z \in 2 .. N : node' = [node EXCEPT !.n.CAP = z, !.plane.CAP = node.size]
  BY DEF RequestBuffers, Call
<1>3. ASSUME NEW z, node' = [node EXCEPT !.n.OUT = z, !.plane.OUT = node.size]
      PROVE  node'.n.OUT = z /\ node'.n.CAP = node.n.CAP
  BY <1>1, <1>3 DEF NodeType
<1>4. ASSUME NEW z, node' = [node EXCEPT !.n.CAP = z, !.plane.CAP = node.size]
      PROVE  node'.n.CAP = z /\ node'.n.OUT = node.n.OUT
  BY <1>1, <1>4 DEF NodeType
<1>5. CASE c = "mapOut"
  <2>1. \E z \in 2 .. N : node' = [node EXCEPT !.n.OUT = z, !.plane.OUT = node.size]
    BY <1>2, <1>5, SameCall
  <2> QED
    BY <1>3, <1>5, <2>1
<1>6. CASE c = "reqOut"
  <2>1. node' = [node EXCEPT !.n.OUT = N, !.plane.OUT = node.size]
    BY <1>2, <1>6, SameCall
  <2> QED
    BY <1>1, <1>3, <1>6, <2>1
<1>7. CASE c = "reqOne"
  <2>1. node' = [node EXCEPT !.n.OUT = 2, !.plane.OUT = node.size]
    BY <1>2, <1>7, SameCall
  <2> QED
    BY <1>1, <1>3, <1>7, <2>1
<1>8. CASE c = "mapCap"
  <2>1. \E z \in 2 .. N : node' = [node EXCEPT !.n.CAP = z, !.plane.CAP = node.size]
    BY <1>2, <1>8, SameCall
  <2> QED
    BY <1>4, <1>8, <2>1
<1>9. c \in {"mapCap", "mapOut", "reqOut", "reqOne"}
  BY <1>2, SameCall
<1> QED
  BY <1>5, <1>6, <1>7, <1>8, <1>9

(* What a call adds to the calls made, in the set-up and in the turn. *)
LEMMA ReadyNext ==
  ASSUME Inv, NEW c, NEW s, Makes(c, s)
  PROVE  /\ \A x \in Calls(Prog.setup) :
              Ready(me', Prog, x) <=> Ready(me, Prog, x) \/ (Phase = "setup" /\ x = c)
         /\ c \in SetupNames /\ c \notin {"submit", "export"} => Phase = "setup"
         /\ \A x : Past(me', Prog, x) => Past(me, Prog, x) \/ (Phase = "loop" /\ x = c)
         /\ \A x, y : Past(me', Prog, x) /\ ~Past(me', Prog, y) => ~Past(me, Prog, y)
         /\ me.pc[1] = Phase /\ Kind(Prog) /\ me.runs # << >>
<1>1. At(c) /\ Live /\ Forward(me, me', Prog, c, s) /\ me.pc[1] = Phase
  BY DEF Makes, Phase
<1>2. /\ Phase \in Phases /\ Kind(Prog) /\ me.runs # << >> /\ Phase # "cleanup"
      /\ Phase = "fill" => c = "submit"
      /\ Phase = "loop" => c \in LoopCalls
      /\ Phase = "after" => c \in {"export", "verify"}
  BY <1>1, Where DEF Live
<1>3. c \in SetupNames /\ c \notin {"submit", "export"} => Phase = "setup"
  BY <1>2 DEF Phases, LoopCalls, SetupNames, NodeSetup, VivSetup
<1>4. SameTurn(me, me', Prog, c) \/ NewTurn(me, me', Prog, c)
  BY <1>1 DEF Forward
<1>5. \A x : Past(me', Prog, x) => Past(me, Prog, x) \/ (Phase = "loop" /\ x = c)
  BY <1>1, <1>4 DEF SameTurn, NewTurn
<1>6. \A x, y : Past(me', Prog, x) /\ ~Past(me', Prog, y) => ~Past(me, Prog, y)
  BY <1>4 DEF SameTurn, NewTurn
<1> QED
  BY <1>1, <1>2, <1>3, <1>5, <1>6 DEF Forward

(* The stages of the calls that matter to the devices. *)
LEMMA StageOf ==
  /\ Stage("openViv") = 1 /\ Stage("open") = 2 /\ Stage("backend") = 3
  /\ Stage("fmtViv") = 4 /\ Stage("fmtOut") = 4 /\ Stage("fmtCap") = 4
  /\ Stage("mapOut") = 5 /\ Stage("reqOut") = 5 /\ Stage("reqOne") = 5
  /\ Stage("mapCap") = 5 /\ Stage("mapViv") = 5 /\ Stage("reqUser") = 5
  /\ Stage("mapSlots") = 5
  /\ Stage("qVivs") = 7 /\ Stage("qCaps") = 7 /\ Stage("qCap0") = 7
  /\ Stage("submit") = 8 /\ Stage("onViv") = 9 /\ Stage("onCap") = 9
  /\ Stage("onOut") = 9 /\ Stage("export") = 10
<1>1. Stage("openViv") = 1 /\ Stage("open") = 2 /\ Stage("backend") = 3
  BY DEF Stage
<1>2. Stage("fmtViv") = 4 /\ Stage("fmtOut") = 4 /\ Stage("fmtCap") = 4
  BY DEF Stage
<1>3. Stage("mapOut") = 5 /\ Stage("reqOut") = 5 /\ Stage("reqOne") = 5
  BY DEF Stage
<1>4. Stage("mapCap") = 5 /\ Stage("mapViv") = 5 /\ Stage("reqUser") = 5
  BY DEF Stage
<1>5. Stage("qVivs") = 7 /\ Stage("qCaps") = 7 /\ Stage("qCap0") = 7
  BY DEF Stage
<1>6. Stage("submit") = 8 /\ Stage("onViv") = 9 /\ Stage("onCap") = 9
  BY DEF Stage
<1>7. Stage("onOut") = 9 /\ Stage("export") = 10 /\ Stage("mapSlots") = 5
  BY DEF Stage
<1> QED
  BY <1>1, <1>2, <1>3, <1>4, <1>5, <1>6, <1>7

(* Nothing is granted or started when a device has just been opened. *)
LEMMA OpensFirst ==
  ASSUME Inv, NEW c, NEW s, Makes(c, s), c \in {"open", "openViv"},
         NEW x \in Calls(Prog.setup),
         x \in Requests("OUT") \cup VivRequests \cup
               {"mapCap", "onOut", "onCap", "onViv", "qVivs", "qCaps", "qCap0", "submit"}
  PROVE  ~Ready(me, Prog, x) /\ ~Ready(me', Prog, x)
<1>1. At(c)
  BY DEF Makes
<1>2. Phase = "setup"
  BY ReadyNext DEF SetupNames, NodeSetup, VivSetup
<1>3. Stage(c) \in {1, 2}
  BY StageOf
<1>4. x \in {"mapOut", "reqOut", "reqOne", "mapViv", "reqUser", "mapCap", "onOut", "onCap",
             "onViv", "qVivs", "qCaps", "qCap0", "submit"}
  BY DEF Requests, VivRequests
<1>5. Stage(x) \in {5, 7, 8, 9} /\ x # c
  BY <1>4, StageOf
<1>6. Ready(me, Prog, x) => Stage(x) <= Stage(c)
  BY <1>1, <1>2, SetupAt
<1>7. ~Ready(me, Prog, x)
  BY <1>3, <1>5, <1>6
<1> QED
  BY <1>5, <1>7, ReadyNext

LEMMA GrantedOpen ==
  ASSUME Inv, Inv', NEW c, NEW s, Makes(c, s), Acts(c, s), c \in {"open", "openViv"},
         Granted
  PROVE  Granted'
<1>1. Kind(Prog) /\ Prog' = Prog /\ Live
  BY ReadyNext DEF Makes
<1>2. \A x \in Calls(Prog.setup) :
        x \in Requests("OUT") \cup VivRequests \cup {"mapCap", "onOut", "onCap", "onViv"}
          => ~Ready(me, Prog, x) /\ ~Ready(me', Prog, x)
  BY OpensFirst
<1>3. Requests("OUT") = {"mapOut", "reqOut", "reqOne"} /\ Requests("CAP") = {"mapCap"}
  BY DEF Requests
<1>4. ASSUME HasNode(Prog)
      PROVE  /\ ~Ready(me', Prog, "onOut") /\ ~Ready(me', Prog, "onCap")
             /\ ~Ready(me', Prog, "mapCap")
             /\ ~Ready(me, Prog, "onOut") /\ ~Ready(me, Prog, "onCap")
             /\ ~Ready(me, Prog, "mapCap")
  BY <1>1, <1>2, <1>4, KindSetup
<1>5. ASSUME HasNode(Prog)
      PROVE  "OUT" \notin node'.on /\ "CAP" \notin node'.on /\ node'.n.CAP = 0 /\ node'.n.OUT = 0
  <2>1. CASE c = "open"
    <3>1. node' = [ClosedNode EXCEPT !.open = TRUE]
      BY <2>1 DEF Acts, OpenNode
    <3> QED
      BY <3>1 DEF ClosedNode
  <2>2. CASE c = "openViv"
    <3>1. node' = node
      BY <2>2 DEF Acts, OpenViv
    <3>2. /\ "OUT" \notin node.on /\ "CAP" \notin node.on /\ node.n.CAP = 0
          /\ (\A x \in Calls(Prog.setup) \cap Requests("OUT") : ~Ready(me, Prog, x))
               => node.n.OUT = 0
      BY <1>1, <1>4, <1>5 DEF Granted
    <3> QED
      BY <1>2, <3>1, <3>2
  <2> QED
    BY <2>1, <2>2
<1>6. ASSUME HasViv(Prog)
      PROVE  /\ ~Ready(me', Prog, "onViv") /\ ~Ready(me, Prog, "onViv")
             /\ \A x \in Calls(Prog.setup) \cap VivRequests :
                  ~Ready(me', Prog, x) /\ viv'.n = 0
  <2>1. ~Ready(me', Prog, "onViv") /\ ~Ready(me, Prog, "onViv")
    BY <1>1, <1>2, <1>6, KindSetup
  <2>2. ASSUME NEW x \in Calls(Prog.setup) \cap VivRequests
        PROVE  ~Ready(me', Prog, x) /\ viv'.n = 0
    <3>1. ~Ready(me', Prog, x) /\ ~Ready(me, Prog, x)
      BY <1>2, <2>2
    <3>2. CASE c = "openViv"
      <4>1. viv' = [ClosedViv EXCEPT !.open = TRUE]
        BY <3>2 DEF Acts, OpenViv
      <4> QED
        BY <3>1, <4>1 DEF ClosedViv
    <3>3. CASE c = "open"
      <4>1. viv' = viv
        BY <3>3 DEF Acts, OpenNode
      <4> QED
        BY <1>1, <1>6, <2>2, <3>1, <4>1 DEF Granted
    <3> QED
      BY <3>2, <3>3
  <2> QED
    BY <2>1, <2>2
<1> QED
  BY <1>1, <1>2, <1>4, <1>5, <1>6 DEF Granted

LEMMA StreamOnDoes ==
  ASSUME Inv, StreamOn, NEW c, At(c)
  PROVE  c \in {"onOut", "onCap"}
         /\ \A t \in Queues : t \in node'.on <=> t \in node.on \/ c = OnCall(t)
<1>1. node \in NodeType
  BY Kept
<1>2. CASE c = "onOut"
  <2>1. node' = [node EXCEPT !.on = @ \cup {"OUT"}]
    BY <1>2, SameCall DEF StreamOn, Call
  <2>2. node'.on = node.on \cup {"OUT"}
    BY <1>1, <2>1 DEF NodeType
  <2> QED
    BY <1>2, <2>2 DEF Queues, OnCall
<1>3. CASE c = "onCap"
  <2>1. node' = [node EXCEPT !.on = @ \cup {"CAP"}]
    BY <1>3, SameCall DEF StreamOn, Call
  <2>2. node'.on = node.on \cup {"CAP"}
    BY <1>1, <2>1 DEF NodeType
  <2> QED
    BY <1>3, <2>2 DEF Queues, OnCall
<1>4. c \in {"onOut", "onCap"}
  BY SameCall DEF StreamOn, Call
<1> QED
  BY <1>2, <1>3, <1>4

LEMMA GrantedNode ==
  ASSUME Inv, Inv', Granted, NEW c, NEW s, Makes(c, s), Acts(c, s), ~Others, [Next]_vars,
         c \notin {"open", "openViv"}, HasNode(Prog)
  PROVE  /\ "OUT" \in node'.on <=> Ready(me', Prog, "onOut")
         /\ "CAP" \in node'.on <=> Ready(me', Prog, "onCap")
         /\ IF Ready(me', Prog, "mapCap") THEN node'.n.CAP \in 2 .. N ELSE node'.n.CAP = 0
         /\ \A x \in Calls(Prog.setup) \cap Requests("OUT") : Ready(me', Prog, x) =>
              node'.n.OUT \in 2 .. N /\ (Prog.mem \in {"heap", "viv"} => node'.n.OUT = N)
         /\ (\A x \in Calls(Prog.setup) \cap Requests("OUT") : ~Ready(me', Prog, x))
              => node'.n.OUT = 0
<1>1. Kind(Prog) /\ Prog' = Prog /\ Live /\ At(c)
  BY ReadyNext DEF Makes
<1>2. Requests("OUT") = {"mapOut", "reqOut", "reqOne"} /\ Requests("CAP") = {"mapCap"}
  BY DEF Requests
<1>3. /\ \A x \in Calls(Prog.setup) :
           Ready(me', Prog, x) <=> Ready(me, Prog, x) \/ (Phase = "setup" /\ x = c)
      /\ c \in SetupNames /\ c \notin {"submit", "export"} => Phase = "setup"
  BY ReadyNext
<1>4. {"onOut", "onCap", "mapCap"} \subseteq Calls(Prog.setup)
  BY <1>1, KindSetup
<1>5. /\ "OUT" \in node.on <=> Ready(me, Prog, "onOut")
      /\ "CAP" \in node.on <=> Ready(me, Prog, "onCap")
      /\ IF Ready(me, Prog, "mapCap") THEN node.n.CAP \in 2 .. N ELSE node.n.CAP = 0
      /\ \A x \in Calls(Prog.setup) \cap Requests("OUT") : Ready(me, Prog, x) =>
           node.n.OUT \in 2 .. N /\ (Prog.mem \in {"heap", "viv"} => node.n.OUT = N)
      /\ (\A x \in Calls(Prog.setup) \cap Requests("OUT") : ~Ready(me, Prog, x))
           => node.n.OUT = 0
  BY <1>1 DEF Granted
<1>6. /\ "OUT" \in node'.on <=> Ready(me', Prog, "onOut")
      /\ "CAP" \in node'.on <=> Ready(me', Prog, "onCap")
  <2>1. CASE c \in {"onOut", "onCap"}
    <3>1. \A t \in Queues : t \in node'.on <=> t \in node.on \/ c = OnCall(t)
      BY <1>1, <2>1, StreamOnDoes DEF Acts
    <3>2. /\ "OUT" \in node'.on <=> "OUT" \in node.on \/ c = "onOut"
          /\ "CAP" \in node'.on <=> "CAP" \in node.on \/ c = "onCap"
      BY <3>1 DEF Queues, OnCall
    <3>3. Phase = "setup"
      BY <1>3, <2>1 DEF SetupNames, NodeSetup
    <3> QED
      BY <1>3, <1>4, <1>5, <3>2, <3>3
  <2>2. CASE c \notin {"onOut", "onCap"}
    <3>1. node'.on = node.on
      BY <2>2, MakesFields
    <3> QED
      BY <1>3, <1>4, <1>5, <2>2, <3>1
  <2> QED
    BY <2>1, <2>2
<1>7. CASE c \in Requests("OUT") \cup Requests("CAP")
  <2>1. RequestBuffers
    BY <1>7 DEF Acts
  <2>2. Phase = "setup"
    BY <1>2, <1>3, <1>7 DEF SetupNames, NodeSetup
  <2>3. c \in Calls(Prog.setup)
    BY <1>1, <2>2, Where
  <2>4. CASE c = "mapCap"
    <3>1. node'.n.CAP \in 2 .. N /\ node'.n.OUT = node.n.OUT
      BY <1>1, <2>1, <2>4, RequestDoes
    <3>2. Ready(me', Prog, "mapCap")
      BY <1>3, <1>4, <2>2, <2>4
    <3>3. \A x \in Calls(Prog.setup) \cap Requests("OUT") :
            Ready(me', Prog, x) <=> Ready(me, Prog, x)
      BY <1>2, <1>3, <2>4
    <3> QED
      BY <1>5, <1>6, <3>1, <3>2, <3>3
  <2>5. CASE c # "mapCap"
    <3>1. node'.n.OUT \in 2 .. N /\ node'.n.CAP = node.n.CAP
      BY <1>1, <2>1, <2>5, RequestDoes
    <3>2. Ready(me', Prog, "mapCap") <=> Ready(me, Prog, "mapCap")
      BY <1>3, <1>4, <2>5
    <3>3. Ready(me', Prog, c) /\ c \in Requests("OUT")
      BY <1>2, <1>3, <1>7, <2>2, <2>3, <2>5
    <3>4. Prog.mem \in {"heap", "viv"} => node'.n.OUT = N
      <4>1. Prog.mem \in {"heap", "viv"} => c = "reqOut"
        BY <1>1, <2>3, <3>3, KindSetup
      <4> QED
        BY <1>1, <2>1, <4>1, RequestDoes
    <3>5. IF Ready(me', Prog, "mapCap") THEN node'.n.CAP \in 2 .. N ELSE node'.n.CAP = 0
      BY <1>5, <3>1, <3>2
    <3> QED
      BY <1>6, <2>3, <3>1, <3>3, <3>4, <3>5
  <2> QED
    BY <2>4, <2>5
<1>8. CASE c \notin Requests("OUT") \cup Requests("CAP")
  <2>1. node'.n = node.n
    BY <1>8, MakesFields
  <2>2. \A x \in Calls(Prog.setup) \cap (Requests("OUT") \cup Requests("CAP")) :
          Ready(me', Prog, x) <=> Ready(me, Prog, x)
    BY <1>3, <1>8
  <2>3. Ready(me', Prog, "mapCap") <=> Ready(me, Prog, "mapCap")
    BY <1>2, <1>4, <2>2
  <2> QED
    BY <1>5, <1>6, <2>1, <2>2, <2>3
<1> QED
  BY <1>7, <1>8

LEMMA GrantedViv ==
  ASSUME Inv, Inv', Granted, NEW c, NEW s, Makes(c, s), Acts(c, s), ~Others, [Next]_vars,
         c \notin {"open", "openViv"}, HasViv(Prog)
  PROVE  /\ Ready(me', Prog, "onViv") => viv'.on
         /\ \A x \in Calls(Prog.setup) \cap VivRequests :
              IF Ready(me', Prog, x) THEN viv'.n \in 2 .. N ELSE viv'.n = 0
<1>1. Kind(Prog) /\ Prog' = Prog /\ Live /\ At(c) /\ viv \in VivType
  BY ReadyNext, Kept DEF Makes, OtherTypes
<1>2. /\ \A x \in Calls(Prog.setup) :
           Ready(me', Prog, x) <=> Ready(me, Prog, x) \/ (Phase = "setup" /\ x = c)
      /\ c \in SetupNames /\ c \notin {"submit", "export"} => Phase = "setup"
  BY ReadyNext
<1>3. Ready(me', Prog, "onViv") => viv'.on
  <2>1. CASE c = "onViv"
    <3>1. viv' = [viv EXCEPT !.on = TRUE]
      BY <2>1 DEF Acts, StreamOnViv
    <3> QED
      BY <1>1, <3>1 DEF VivType
  <2>2. CASE c # "onViv"
    <3>1. viv'.on = viv.on
      BY <2>2, MakesFields
    <3>2. "onViv" \in Calls(Prog.setup)
      BY <1>1, KindSetup
    <3> QED
      BY <1>1, <1>2, <2>2, <3>1, <3>2 DEF Granted
  <2> QED
    BY <2>1, <2>2
<1>4. ASSUME NEW x \in Calls(Prog.setup) \cap VivRequests
      PROVE  IF Ready(me', Prog, x) THEN viv'.n \in 2 .. N ELSE viv'.n = 0
  <2>1. CASE c \in VivRequests
    <3>1. Phase = "setup"
      BY <1>2, <2>1 DEF VivRequests, SetupNames
    <3>2. c \in Calls(Prog.setup)
      BY <1>1, <3>1, Where
    <3>3. x = c
      BY <1>1, <1>4, <2>1, <3>2, KindSetup
    <3>4. RequestViv
      BY <2>1 DEF Acts, VivRequests
    <3>5. \E g \in 2 .. N : viv' = [viv EXCEPT !.n = g]
      <4>1. N \in 2 .. N
        BY Constants
      <4> QED
        BY <3>4, <4>1 DEF RequestViv
    <3>6. viv'.n \in 2 .. N
      BY <1>1, <3>5 DEF VivType
    <3> QED
      BY <1>2, <3>1, <3>3, <3>6
  <2>2. CASE c \notin VivRequests
    <3>1. viv'.n = viv.n
      BY <2>2, MakesFields
    <3>2. IF Ready(me, Prog, x) THEN viv.n \in 2 .. N ELSE viv.n = 0
      BY <1>1, <1>4 DEF Granted
    <3>3. Ready(me', Prog, x) <=> Ready(me, Prog, x)
      BY <1>2, <1>4, <2>2
    <3> QED
      BY <3>1, <3>2, <3>3
  <2> QED
    BY <2>1, <2>2
<1> QED
  BY <1>3, <1>4

LEMMA NewRunKind ==
  ASSUME Inv, NewRun
  PROVE  HasNode(Prog') /\ ~HasViv(Prog') /\ HasNode(Prog) /\ ~HasViv(Prog) /\ me.runs # << >>
<1>1. Runner(Prog) /\ Runner(Prog') /\ Kind(Prog') /\ Kind(Prog) /\ me.runs # << >>
  BY SecondRun, Planned, Kinds DEF Inv, Types, Prog
<1> QED
  BY <1>1, KindFacts DEF Runner, Copier, Camera, HasViv, HasNode

LEMMA GrantedNext ==
  ASSUME Inv, Inv', Granted, Way, [Next]_vars
  PROVE  Granted'
<1>1. CASE me' = me /\ Others
  <2>1. Prog' = Prog /\ Phase' = Phase
    BY <1>1 DEF Prog, Phase
  <2>2. node'.n = node.n /\ node'.on = node.on /\ viv'.n = viv.n /\ viv'.on = viv.on
    BY <1>1, OthersFields
  <2> QED
    BY <1>1, <2>1, <2>2 DEF Granted, Live
<1>2. CASE Ends
  BY <1>2 DEF Ends, Granted
<1>3. CASE NewRun
  <2>1. HasNode(Prog') /\ ~HasViv(Prog') /\ node' = ClosedNode
    BY <1>3, NewRunKind, SecondRun
  <2>2. "OUT" \notin node'.on /\ "CAP" \notin node'.on /\ node'.n.OUT = 0 /\ node'.n.CAP = 0
    BY <2>1 DEF ClosedNode
  <2>3. \A x : ~Ready(me', Prog', x)
    BY <1>3, SecondRun
  <2> QED
    BY <2>1, <2>2, <2>3 DEF Granted
<1>4. ASSUME NEW c, NEW s, Makes(c, s), Acts(c, s), ~Others PROVE Granted'
  <2>1. CASE c \in {"open", "openViv"}
    BY <1>4, <2>1, GrantedOpen
  <2>2. CASE c \notin {"open", "openViv"}
    <3>1. Prog' = Prog
      BY <1>4 DEF Makes
    <3> QED
      BY <1>4, <2>2, <3>1, GrantedNode, GrantedViv DEF Granted
  <2> QED
    BY <2>1, <2>2
<1> QED
  BY <1>1, <1>2, <1>3, <1>4 DEF Way

LEMMA BalanceMade ==
  ASSUME Inv, Inv', Counters, Balance, NEW c, NEW s, Makes(c, s), Acts(c, s), ~Others,
         [Next]_vars, HasNode(Prog)
  PROVE  Taken(me', Prog) + Len(node'.outDone)
           = Done(me', Prog, "dqCap") + Len(node'.capDone)
<1>1. /\ Live /\ At(c) /\ Kind(Prog) /\ Plan(Prog) /\ Placed(me, Prog) /\ me \in MeType
      /\ me.pc[1] = Phase /\ Forward(me, me', Prog, c, s) /\ node \in NodeType
  BY ReadyNext, MadeFacts, Kept DEF Makes
<1>2. PICK d, e, u, v : /\ d = node.outDone /\ e = node.capDone
                        /\ u = Taken(me, Prog) /\ v = Done(me, Prog, "dqCap")
  OBVIOUS
<1>3. /\ d \in Seq([idx : Idx]) /\ e \in Seq(DoneType) /\ Len(d) \in Nat /\ Len(e) \in Nat
      /\ u \in Nat /\ v \in Nat /\ u + Len(d) = v + Len(e)
  BY <1>1, <1>2, DoneType1 DEF NodeType, Taken, Balance
<1>4. Phase = "loop" \/ c \notin {"dqCap", "dqOut"}
  BY <1>1, Where DEF Phase, SetupNames, NodeSetup, VivSetup, Quits, Phases, Live
<1>5. \A x \in Calls(Prog.loop) :
        Done(me', Prog, x) = Done(me, Prog, x) + (IF Phase = "loop" /\ x = c THEN 1 ELSE 0)
  BY <1>1 DEF Forward
<1>6. Done(me', Prog, "dqCap") = v + (IF c = "dqCap" THEN 1 ELSE 0)
  BY <1>2, <1>4, <1>5 DEF HasNode
<1>7. Taken(me', Prog) = u + (IF c = "dqOut" /\ "dqOut" \in Calls(Prog.loop) THEN 1 ELSE 0)
  BY <1>2, <1>3, <1>4, <1>5 DEF Taken
<1>8. c = "dqOut" => "dqOut" \in Calls(Prog.loop)
  BY <1>1, <1>4, Where
<1>9. CASE c = "open"
  <2>1. OpenNode /\ c \in Prepares
    BY <1>9 DEF Acts, Prepares, Formats
  <2>2. node' = [ClosedNode EXCEPT !.open = TRUE]
    BY <2>1 DEF OpenNode
  <2>3. Len(node'.outDone) = 0 /\ Len(node'.capDone) = 0
    BY <2>2 DEF ClosedNode
  <2>4. Phase = "setup"
    BY <1>1, <2>1, SetupCall
  <2>5. me.i = 0
    BY <1>1, <2>4 DEF Placed
  <2>6. u = 0 /\ v = 0
    BY <1>1, <1>2, <2>4, <2>5 DEF Taken, Done, Past
  <2> QED
    BY <1>6, <1>7, <1>9, <2>3, <2>6
<1>10. CASE c = "dqCap"
  <2>1. DequeueCapture
    BY <1>10 DEF Acts
  <2>2. e # << >> /\ node' = [node EXCEPT !.capDone = Tail(@)]
    BY <1>2, <2>1 DEF DequeueCapture
  <2>3. node'.capDone = Tail(e) /\ node'.outDone = d
    BY <1>1, <1>2, <2>2 DEF NodeType
  <2>4. Len(e) = Len(Tail(e)) + 1 /\ Len(Tail(e)) \in Nat
    BY <1>3, <2>2, Takes DEF Took
  <2> QED
    BY <1>3, <1>6, <1>7, <1>10, <2>3, <2>4
<1>11. CASE c = "dqOut"
  <2>1. DequeueOutput
    BY <1>11 DEF Acts
  <2>2. d # << >> /\ node' = [node EXCEPT !.outDone = Tail(@)]
    BY <1>2, <2>1 DEF DequeueOutput
  <2>3. node'.outDone = Tail(d) /\ node'.capDone = e
    BY <1>1, <1>2, <2>2 DEF NodeType
  <2>4. Len(d) = Len(Tail(d)) + 1 /\ Len(Tail(d)) \in Nat
    BY <1>3, <2>2, Takes DEF Took
  <2> QED
    <3>1. Taken(me', Prog) = u + 1 /\ Done(me', Prog, "dqCap") = v
      BY <1>3, <1>6, <1>7, <1>8, <1>11
    <3>2. u + 1 + Len(Tail(d)) = v + Len(e)
      <4>1. PICK x, y, z : x = Len(d) /\ y = Len(e) /\ z = Len(Tail(d))
        OBVIOUS
      <4>2. x = z + 1 /\ z \in Nat /\ y \in Nat /\ u + x = v + y
        BY <1>3, <2>4, <4>1
      <4>3. u + 1 + z = v + y
        BY ONLY <1>3, <4>2
      <4> QED
        BY <4>1, <4>3
    <3> QED
      BY <2>3, <3>1, <3>2
<1>12. CASE c \notin {"open", "dqCap", "dqOut"}
  <2>1. node'.outDone = d
    BY <1>2, <1>12, MakesFields
  <2>2. node'.capDone = e
    BY <1>2, <1>12, MakesQueues, SubmitDoes DEF QueuesKept, Sends
  <2> QED
    BY <1>3, <1>6, <1>7, <1>12, <2>1, <2>2
<1> QED
  BY <1>9, <1>10, <1>11, <1>12

LEMMA BalanceNext ==
  ASSUME Inv, Inv', Counters, Balance, Way, [Next]_vars
  PROVE  Balance'
<1> SUFFICES ASSUME Live', HasNode(Prog)'
             PROVE  Taken(me', Prog') + Len(node'.outDone)
                      = Done(me', Prog', "dqCap") + Len(node'.capDone)
  BY DEF Balance
<1>1. CASE me' = me /\ Others
  <2>1. Live /\ HasNode(Prog) /\ Prog' = Prog
    BY <1>1 DEF Live, Prog, Phase
  <2>2. PICK u, v : u = Taken(me, Prog) /\ v = Done(me, Prog, "dqCap")
    OBVIOUS
  <2>3. u + Len(node.outDone) = v + Len(node.capDone) /\ u \in Nat /\ v \in Nat
    BY <2>1, <2>2, DoneType1 DEF Balance, Taken, Inv, Types
  <2>4. CASE RunJob
    <3>1. PICK in, b : Jobs(in, b)
      BY <2>4, RunJobDoes
    <3>2. /\ Len(node.outDone) \in Nat /\ Len(node'.outDone) = Len(node.outDone) + 1
          /\ Len(node.capDone) \in Nat /\ Len(node'.capDone) = Len(node.capDone) + 1
      BY <3>1 DEF Jobs, Put
    <3>3. u + Len(node'.outDone) = v + Len(node'.capDone)
      <4>1. PICK x, y : x = Len(node.outDone) /\ y = Len(node.capDone)
        OBVIOUS
      <4>2. x \in Nat /\ y \in Nat /\ u + x = v + y
        BY <2>3, <3>2, <4>1
      <4>3. u + (x + 1) = v + (y + 1)
        BY ONLY <2>3, <4>2
      <4> QED
        BY <3>2, <4>1, <4>3
    <3> QED
      BY <1>1, <2>1, <2>2, <3>3
  <2>5. CASE ~RunJob
    <3>1. node' = node
      BY <1>1, <2>5, OthersFields
    <3> QED
      BY <1>1, <2>1, <2>2, <2>3, <3>1
  <2> QED
    BY <2>4, <2>5
<1>2. CASE Ends
  BY <1>2 DEF Ends
<1>3. CASE NewRun
  <2>1. node' = ClosedNode /\ me'.i = 0 /\ \A x : ~Past(me', Prog', x)
    BY <1>3, SecondRun DEF NewRun
  <2>2. Len(node'.outDone) = 0 /\ Len(node'.capDone) = 0
    BY <2>1 DEF ClosedNode
  <2>3. Taken(me', Prog') = 0 /\ Done(me', Prog', "dqCap") = 0
    BY <2>1 DEF Taken, Done
  <2> QED
    BY <2>2, <2>3
<1>4. ASSUME NEW c, NEW s, Makes(c, s), Acts(c, s), ~Others
      PROVE  Taken(me', Prog') + Len(node'.outDone)
               = Done(me', Prog', "dqCap") + Len(node'.capDone)
  <2>1. Prog' = Prog
    BY <1>4 DEF Makes
  <2>2. HasNode(Prog)
    BY <2>1
  <2>3. Taken(me', Prog) + Len(node'.outDone)
          = Done(me', Prog, "dqCap") + Len(node'.capDone)
    BY <1>4, <2>2, BalanceMade
  <2> QED
    BY <2>1, <2>3
<1> QED
  BY <1>1, <1>2, <1>3, <1>4 DEF Way

LEMMA DistinctTook ==
  ASSUME NEW p, NEW q, Took(p, q), Distinct(p)
  PROVE  Distinct(q) /\ NotIn(q, p[1].idx)
<1>1. Len(q) \in Nat /\ Len(p) = Len(q) + 1 /\ 1 \in 1 .. Len(p)
  BY DEF Took
<1>2. \A k \in 1 .. Len(q) : q[k] = p[k + 1] /\ k + 1 \in 1 .. Len(p) /\ k + 1 # 1
  BY <1>1 DEF Took
<1>3. ASSUME NEW j \in 1 .. Len(q), NEW k \in 1 .. Len(q), q[j].idx = q[k].idx
      PROVE  j = k
  <2>1. p[j + 1].idx = p[k + 1].idx /\ j + 1 \in 1 .. Len(p) /\ k + 1 \in 1 .. Len(p)
    BY <1>2, <1>3
  <2>2. j + 1 = k + 1
    BY <2>1 DEF Distinct
  <2> QED
    BY <1>1, <2>2
<1>4. NotIn(q, p[1].idx)
  BY <1>1, <1>2 DEF NotIn, Distinct
<1> QED
  BY <1>3, <1>4 DEF Distinct

LEMMA NotInPut ==
  ASSUME NEW p, NEW x, NEW q, Put(p, x, q), NEW i, NotIn(p, i), x.idx # i
  PROVE  NotIn(q, i)
<1>1. \A k \in 1 .. Len(q) : k \in 1 .. Len(p) \/ k = Len(p) + 1
  BY DEF Put
<1> QED
  BY <1>1 DEF Put, NotIn

LEMMA DistinctPut ==
  ASSUME NEW p, NEW x, NEW q, Put(p, x, q), Distinct(p), NotIn(p, x.idx)
  PROVE  Distinct(q)
<1>1. \A k \in 1 .. Len(q) :
        \/ k \in 1 .. Len(p) /\ q[k] = p[k]
        \/ k = Len(p) + 1 /\ q[k] = x
  BY DEF Put
<1> QED
  BY <1>1 DEF Distinct, NotIn

LEMMA SoloMoves ==
  ASSUME NEW q, NEW d, NEW p, NEW x, NEW e, Solo(q, d), Took(q, p), Put(d, x, e),
         x.idx = q[1].idx
  PROVE  Solo(p, e) /\ \A i : Free(q, d, i) => Free(p, e, i)
<1>1. Len(q) \in Nat /\ 1 \in 1 .. Len(q)
  BY DEF Took
<1>2. Distinct(p) /\ NotIn(p, x.idx)
  BY DistinctTook DEF Solo
<1>3. NotIn(d, x.idx)
  BY <1>1 DEF Solo, NotIn
<1>4. Distinct(e)
  BY <1>3, DistinctPut DEF Solo
<1>5. ASSUME NEW k \in 1 .. Len(e) PROVE NotIn(p, e[k].idx)
  <2>1. (k \in 1 .. Len(d) /\ e[k] = d[k]) \/ e[k] = x
    BY DEF Put
  <2>2. k \in 1 .. Len(d) => NotIn(p, d[k].idx)
    BY NotInTook DEF Solo
  <2> QED
    BY <1>2, <2>1, <2>2
<1>6. ASSUME NEW i, Free(q, d, i) PROVE Free(p, e, i)
  <2>1. NotIn(q, i) /\ NotIn(d, i)
    BY <1>6 DEF Free
  <2>2. x.idx # i
    BY <1>1, <2>1 DEF NotIn
  <2> QED
    BY <2>1, <2>2, NotInTook, NotInPut DEF Free
<1> QED
  BY <1>2, <1>4, <1>5, <1>6 DEF Solo

LEMMA SoloPuts ==
  ASSUME NEW q, NEW d, NEW x, NEW p, Solo(q, d), Put(q, x, p), NotIn(q, x.idx),
         NotIn(d, x.idx)
  PROVE  Solo(p, d) /\ \A i : Free(q, d, i) /\ x.idx # i => Free(p, d, i)
<1>1. Distinct(p)
  BY DistinctPut DEF Solo
<1>2. ASSUME NEW k \in 1 .. Len(d) PROVE NotIn(p, d[k].idx)
  <2>1. PICK i : i = d[k].idx
    OBVIOUS
  <2>2. NotIn(q, i) /\ x.idx # i
    BY <2>1 DEF Solo, NotIn
  <2> QED
    BY <2>1, <2>2, NotInPut
<1> QED
  BY <1>1, <1>2, NotInPut DEF Solo, Free

LEMMA SoloTakes ==
  ASSUME NEW q, NEW d, NEW e, Solo(q, d), Took(d, e)
  PROVE  /\ Solo(q, e) /\ Free(q, e, d[1].idx)
         /\ \A i : Free(q, d, i) => Free(q, e, i)
<1>1. Distinct(e) /\ NotIn(e, d[1].idx)
  BY DistinctTook DEF Solo
<1>2. \A k \in 1 .. Len(e) : e[k] = d[k + 1] /\ k + 1 \in 1 .. Len(d)
  BY DEF Took
<1>3. 1 \in 1 .. Len(d)
  BY DEF Took
<1> QED
  BY <1>1, <1>2, <1>3, NotInTook DEF Solo, Free

LEMMA SoloLess ==
  ASSUME NEW q, NEW d, NEW p, NEW e, Solo(q, d), p = q \/ Len(p) = 0, e = d \/ Len(e) = 0
  PROVE  Solo(p, e) /\ \A i : Free(q, d, i) => Free(p, e, i)
<1>1. \A z : Len(z) = 0 => Distinct(z)
  BY DEF Distinct
<1>2. \A z : Len(z) = 0 => \A k \in 1 .. Len(z) : FALSE
  OBVIOUS
<1> QED
  BY <1>1, <1>2, NotInNone DEF Solo, Free

LEMMA Boxes ==
  ASSUME NEW q, Len(q) \in Nat
  PROVE  Len(Box(q)) = Len(q) /\ \A k \in 1 .. Len(q) : Box(q)[k].idx = q[k]
  BY DEF Box

LEMMA BoxTook ==
  ASSUME NEW p, NEW q, Took(p, q)
  PROVE  Took(Box(p), Box(q)) /\ Box(p)[1].idx = p[1]
<1>1. Len(q) \in Nat /\ Len(p) \in Nat /\ 1 \in 1 .. Len(p)
  BY DEF Took
<1>2. Len(Box(p)) = Len(p) /\ Len(Box(q)) = Len(q) /\ Box(p)[1].idx = p[1]
  BY <1>1, Boxes
<1>3. DOMAIN Box(p) = 1 .. Len(p) /\ DOMAIN Box(q) = 1 .. Len(q)
  BY DEF Box
<1>4. ASSUME NEW k \in 1 .. Len(q) PROVE Box(q)[k] = Box(p)[k + 1]
  <2>1. q[k] = p[k + 1] /\ k + 1 \in 1 .. Len(p)
    BY <1>1 DEF Took
  <2> QED
    BY <2>1 DEF Box
<1> QED
  BY <1>1, <1>2, <1>3, <1>4 DEF Took

LEMMA BoxPut ==
  ASSUME NEW p, NEW x, NEW q, Put(p, x, q)
  PROVE  Put(Box(p), [idx |-> x], Box(q))
<1>1. Len(q) \in Nat /\ Len(p) \in Nat /\ Len(q) = Len(p) + 1
  BY DEF Put
<1>2. Len(Box(p)) = Len(p) /\ Len(Box(q)) = Len(q)
  BY <1>1, Boxes
<1>3. DOMAIN Box(p) = 1 .. Len(p) /\ DOMAIN Box(q) = 1 .. Len(q)
  BY DEF Box
<1>4. ASSUME NEW k \in 1 .. Len(p) PROVE Box(q)[k] = Box(p)[k]
  BY <1>1, <1>4 DEF Put, Box
<1>5. Box(q)[Len(p) + 1] = [idx |-> x]
  BY <1>1 DEF Put, Box
<1> QED
  BY <1>1, <1>2, <1>3, <1>4, <1>5 DEF Put

LEMMA OutSteps ==
  ASSUME Inv, Soles, [Next]_vars
  PROVE  /\ Solo(node'.outQ, node'.outDone)
         /\ \A i : Free(node.outQ, node.outDone, i) =>
              Free(node'.outQ, node'.outDone, i) \/ (Submit /\ i = OutIndex)
         /\ DequeueOutput => Free(node'.outQ, node'.outDone, cur'.out)
<1>1. /\ node \in NodeType /\ node.outQ \in Seq(InType) /\ node.outDone \in Seq([idx : Idx])
      /\ Solo(node.outQ, node.outDone) /\ cur \in CurType
  BY Kept DEF NodeType, Soles, ProgTypes
<1>2. CASE RunJob
  <2>1. PICK in, b : Jobs(in, b)
    BY <1>2, RunJobDoes
  <2>2. PICK x : x = [idx |-> in.idx] /\ x.idx = node.outQ[1].idx
    BY <2>1 DEF Jobs
  <2>3. Took(node.outQ, node'.outQ) /\ Put(node.outDone, x, node'.outDone)
    BY <2>1, <2>2 DEF Jobs
  <2>4. /\ Solo(node'.outQ, node'.outDone)
        /\ \A i : Free(node.outQ, node.outDone, i) => Free(node'.outQ, node'.outDone, i)
    BY <1>1, <2>2, <2>3, SoloMoves
  <2>5. ~DequeueOutput
    <3>1. Len(node'.outDone) = Len(node.outDone) + 1 /\ Len(node.outDone) \in Nat
      BY <2>3 DEF Put
    <3>2. DequeueOutput => node'.outDone = Tail(node.outDone) /\ node.outDone # << >>
      BY <1>1 DEF DequeueOutput, NodeType
    <3>3. DequeueOutput =>
            Len(node.outDone) = Len(node'.outDone) + 1 /\ Len(node'.outDone) \in Nat
      BY <1>1, <3>2, Takes DEF Took
    <3> QED
      BY <3>1, <3>3
  <2> QED
    BY <2>4, <2>5
<1>3. CASE Submit
  <2>1. PICK b : Sends(b)
    BY <1>3, SubmitDoes
  <2>2. Put(node.outQ, b, node'.outQ) /\ b.idx = OutIndex
    BY <2>1 DEF Sends
  <2>3. node'.outDone = node.outDone
    <3>1. \E x : node' = [node EXCEPT !.outQ = x]
      BY <2>1 DEF Sends
    <3> QED
      BY <1>1, <3>1 DEF NodeType
  <2>4. MineOut(OutIndex)
    BY <1>3, SubmitDoes, OutIndexOk
  <2>5. NotIn(node.outQ, b.idx) /\ NotIn(node.outDone, b.idx)
    BY <1>1, <2>2, <2>4, SeqFacts DEF MineOut, Held, NotIn
  <2>6. /\ Solo(node'.outQ, node.outDone)
        /\ \A i : Free(node.outQ, node.outDone, i) /\ b.idx # i =>
             Free(node'.outQ, node.outDone, i)
    BY <1>1, <2>2, <2>5, SoloPuts
  <2>7. ~DequeueOutput
    BY <1>3, SubmitDoes, SameCall DEF DequeueOutput, Call
  <2> QED
    BY <1>3, <2>2, <2>3, <2>6, <2>7
<1>4. CASE DequeueOutput
  <2>1. /\ node'.outDone = Tail(node.outDone) /\ node.outDone # << >>
        /\ node'.outQ = node.outQ /\ cur'.out = Head(node.outDone).idx
    BY <1>1, <1>4 DEF DequeueOutput, NodeType, CurType
  <2>2. Took(node.outDone, node'.outDone) /\ cur'.out = node.outDone[1].idx
    BY <1>1, <2>1, Takes
  <2> QED
    BY <1>1, <2>1, <2>2, SoloTakes
<1>5. CASE ~RunJob /\ ~Submit /\ ~DequeueOutput
  <2>1. node'.outQ = node.outQ \/ Len(node'.outQ) = 0
    BY <1>5, NodeQueues
  <2>2. node'.outDone = node.outDone \/ StopOutput \/ OpenNode \/ Close
    BY <1>5, MoreFields
  <2>3. StopOutput \/ OpenNode \/ Close => node'.outDone = << >>
    <3>1. StopOutput => node'.outDone = << >>
      BY <1>1 DEF StopOutput, NodeType
    <3>2. OpenNode => node'.outDone = << >>
      BY DEF OpenNode, ClosedNode
    <3>3. Close => node'.outDone = << >>
      BY DEF Close, ClosedNode
    <3> QED
      BY <3>1, <3>2, <3>3
  <2>4. node'.outDone = node.outDone \/ Len(node'.outDone) = 0
    BY <2>2, <2>3
  <2> QED
    BY <1>1, <1>5, <2>1, <2>4, SoloLess
<1> QED
  BY <1>2, <1>3, <1>4, <1>5

LEMMA MineCapFree ==
  ASSUME Inv, NEW i, MineCap(i)
  PROVE  Free(Box(node.capQ), node.capDone, i)
<1>1. node.capQ \in Seq(Idx) /\ node.capDone \in Seq(DoneType)
  BY Kept DEF NodeType
<1>2. /\ Len(node.capQ) \in Nat /\ DOMAIN node.capQ = 1 .. Len(node.capQ)
      /\ DOMAIN node.capDone = 1 .. Len(node.capDone)
  BY <1>1, SeqFacts
<1>3. NotIn(node.capDone, i)
  BY <1>2 DEF MineCap, NotIn
<1>4. \A k \in 1 .. Len(node.capQ) : node.capQ[k] # i
  BY <1>2 DEF MineCap
<1>5. NotIn(Box(node.capQ), i)
  BY <1>2, <1>4, Boxes DEF NotIn
<1> QED
  BY <1>3, <1>5 DEF Free

LEMMA FreeMineCap ==
  ASSUME Inv, NEW i, Free(Box(node.capQ), node.capDone, i), i < node.n.CAP
  PROVE  MineCap(i)
<1>1. node.capQ \in Seq(Idx) /\ node.capDone \in Seq(DoneType)
  BY Kept DEF NodeType
<1>2. /\ Len(node.capQ) \in Nat /\ DOMAIN node.capQ = 1 .. Len(node.capQ)
      /\ DOMAIN node.capDone = 1 .. Len(node.capDone)
  BY <1>1, SeqFacts
<1>3. \A k \in 1 .. Len(node.capQ) : node.capQ[k] # i
  BY <1>2, Boxes DEF Free, NotIn
<1> QED
  BY <1>2, <1>3 DEF MineCap, Free, NotIn

LEMMA AllCaptures ==
  ASSUME Inv, QueueCaptures, At("qCaps")
  PROVE  /\ Solo(Box(node'.capQ), node'.capDone)
         /\ Len(node.capQ) = 0 /\ Len(node.capDone) = 0
<1>1. node \in NodeType /\ node.capQ \in Seq(Idx) /\ node.capDone \in Seq(DoneType)
  BY Kept DEF NodeType
<1>2. /\ \A i \in Idx : MineCap(i)
      /\ node' = [node EXCEPT !.capQ = @ \o [k \in 1 .. N |-> k - 1]]
  BY SameCall DEF QueueCaptures, Call, Accepts
<1>3. Len(node.capQ) = 0
  <2>1. Len(node.capQ) \in Nat /\ DOMAIN node.capQ = 1 .. Len(node.capQ)
        /\ \A k \in 1 .. Len(node.capQ) : node.capQ[k] \in Idx
    BY <1>1, SeqFacts
  <2>2. \A k \in 1 .. Len(node.capQ) : FALSE
    BY <1>2, <2>1 DEF MineCap
  <2> QED
    BY <2>1, <2>2
<1>4. Len(node.capDone) = 0
  <2>1. Len(node.capDone) \in Nat /\ DOMAIN node.capDone = 1 .. Len(node.capDone)
        /\ \A k \in 1 .. Len(node.capDone) : node.capDone[k] \in DoneType
    BY <1>1, SeqFacts
  <2>2. \A k \in 1 .. Len(node.capDone) : node.capDone[k].idx \in Idx
    BY <2>1 DEF DoneType
  <2>3. \A k \in 1 .. Len(node.capDone) : FALSE
    BY <1>2, <2>1, <2>2 DEF MineCap
  <2> QED
    BY <2>1, <2>3
<1>5. PICK z : z = [k \in 1 .. N |-> k - 1]
  OBVIOUS
<1>6. z \in Seq(Idx) /\ Len(z) = N
  <2>1. \A k \in 1 .. N : k - 1 \in Idx
    BY Constants DEF Idx
  <2> QED
    BY <1>5, <2>1, Constants
<1>7. node'.capQ = node.capQ \o z /\ node'.capDone = node.capDone
  BY <1>1, <1>2, <1>5 DEF NodeType
<1>8. Len(node'.capQ) = N /\ \A k \in 1 .. N : node'.capQ[k] = k - 1
  <2>1. /\ Len(node.capQ \o z) = 0 + N
        /\ \A k \in 1 .. 0 + N : (node.capQ \o z)[k] = IF k <= 0 THEN node.capQ[k] ELSE z[k - 0]
    BY <1>1, <1>3, <1>6, Joins
  <2>2. N \in Nat
    BY Constants
  <2> QED
    BY <1>5, <1>7, <2>1, <2>2
<1>9. Len(Box(node'.capQ)) = N /\ \A k \in 1 .. N : Box(node'.capQ)[k].idx = k - 1
  BY <1>8, Boxes, Constants
<1>10. Distinct(Box(node'.capQ))
  <2>1. \A j, k \in 1 .. N : j - 1 = k - 1 => j = k
    BY Constants
  <2> QED
    BY <1>9, <2>1 DEF Distinct
<1>11. Solo(Box(node'.capQ), node'.capDone)
  BY <1>4, <1>7, <1>10 DEF Solo, Distinct
<1> QED
  BY <1>3, <1>4, <1>11

LEMMA CaptureSteps ==
  ASSUME Inv, Soles, [Next]_vars
  PROVE  /\ Solo(Box(node'.capQ), node'.capDone)
         /\ \A i : Free(Box(node.capQ), node.capDone, i) =>
              \/ Free(Box(node'.capQ), node'.capDone, i)
              \/ QueueCaptures \/ (RequeueCapture /\ i = cur.cap.idx)
         /\ DequeueCapture => Free(Box(node'.capQ), node'.capDone, cur'.cap.idx)
<1>1. /\ node \in NodeType /\ node.capQ \in Seq(Idx) /\ node.capDone \in Seq(DoneType)
      /\ Solo(Box(node.capQ), node.capDone) /\ cur \in CurType /\ Len(node.capQ) \in Nat
  BY Kept DEF NodeType, Soles, ProgTypes
<1>2. DequeueCapture => /\ node'.capDone = Tail(node.capDone) /\ node.capDone # << >>
                        /\ node'.capQ = node.capQ /\ cur'.cap = Head(node.capDone)
  BY <1>1 DEF DequeueCapture, NodeType, CurType
<1>3. DequeueCapture => Took(node.capDone, node'.capDone) /\ cur'.cap = node.capDone[1]
  BY <1>1, <1>2, Takes
<1>4. CASE RunJob
  <2>1. PICK in, b : Jobs(in, b)
    BY <1>4, RunJobDoes
  <2>2. /\ Took(node.capQ, node'.capQ) /\ Put(node.capDone, b, node'.capDone)
        /\ b.idx = node.capQ[1]
    BY <2>1 DEF Jobs
  <2>3. Took(Box(node.capQ), Box(node'.capQ)) /\ b.idx = Box(node.capQ)[1].idx
    BY <2>2, BoxTook
  <2>4. /\ Solo(Box(node'.capQ), node'.capDone)
        /\ \A i : Free(Box(node.capQ), node.capDone, i) =>
                    Free(Box(node'.capQ), node'.capDone, i)
    BY <1>1, <2>2, <2>3, SoloMoves
  <2>5. ~DequeueCapture
    BY <1>3, <2>2 DEF Took, Put
  <2> QED
    BY <2>4, <2>5
<1>5. CASE DequeueCapture
  <2>1. /\ Solo(Box(node.capQ), node'.capDone)
        /\ Free(Box(node.capQ), node'.capDone, node.capDone[1].idx)
        /\ \A i : Free(Box(node.capQ), node.capDone, i) =>
                    Free(Box(node.capQ), node'.capDone, i)
    BY <1>1, <1>3, <1>5, SoloTakes
  <2> QED
    BY <1>2, <1>3, <1>5, <2>1
<1>6. ASSUME NEW i \in Idx, MineCap(i), node' = [node EXCEPT !.capQ = Append(@, i)]
      PROVE  /\ Solo(Box(node'.capQ), node'.capDone)
             /\ \A j : Free(Box(node.capQ), node.capDone, j) /\ i # j =>
                         Free(Box(node'.capQ), node'.capDone, j)
  <2>1. node'.capQ = Append(node.capQ, i) /\ node'.capDone = node.capDone
    BY <1>1, <1>6 DEF NodeType
  <2>2. Put(node.capQ, i, node'.capQ)
    BY <1>1, <2>1, Puts
  <2>3. PICK x : x = [idx |-> i]
    OBVIOUS
  <2>4. Put(Box(node.capQ), x, Box(node'.capQ)) /\ x.idx = i
    BY <2>2, <2>3, BoxPut
  <2>5. NotIn(Box(node.capQ), x.idx) /\ NotIn(node.capDone, x.idx)
    BY <1>6, <2>4, MineCapFree DEF Free
  <2> QED
    BY <1>1, <2>1, <2>4, <2>5, SoloPuts
<1>7. CASE QueueCaptures
  <2>1. ~DequeueCapture
    BY <1>7, SameCall DEF QueueCaptures, DequeueCapture, Call
  <2>2. CASE At("qCaps")
    BY <1>7, <2>1, <2>2, AllCaptures
  <2>3. CASE At("qCap0")
    <3>1. MineCap(0) /\ node' = [node EXCEPT !.capQ = Append(@, 0)] /\ 0 \in Idx
      BY <1>7, <2>3, SameCall, Constants DEF QueueCaptures, Call, Accepts
    <3> QED
      BY <1>6, <1>7, <2>1, <3>1
  <2> QED
    BY <1>7, <2>2, <2>3 DEF QueueCaptures, Call
<1>8. CASE RequeueCapture
  <2>1. ~DequeueCapture
    BY <1>8, SameCall DEF RequeueCapture, DequeueCapture, Call
  <2>2. /\ MineCap(cur.cap.idx) /\ node' = [node EXCEPT !.capQ = Append(@, cur.cap.idx)]
        /\ cur.cap.idx \in Idx
    BY <1>1, <1>8 DEF RequeueCapture, Call, Accepts, CurType, CapType
  <2> QED
    BY <1>6, <1>8, <2>1, <2>2
<1>9. CASE ~RunJob /\ ~DequeueCapture /\ ~QueueCaptures /\ ~RequeueCapture
  <2>1. node'.capDone = node.capDone \/ Len(node'.capDone) = 0
    BY <1>9, NodeQueues
  <2>2. node'.capQ = node.capQ \/ StopCapture \/ OpenNode \/ Close
    BY <1>9, MoreFields
  <2>3. StopCapture \/ OpenNode \/ Close => node'.capQ = << >>
    <3>1. StopCapture => node'.capQ = << >>
      BY <1>1 DEF StopCapture, NodeType
    <3>2. OpenNode => node'.capQ = << >>
      BY DEF OpenNode, ClosedNode
    <3>3. Close => node'.capQ = << >>
      BY DEF Close, ClosedNode
    <3> QED
      BY <3>1, <3>2, <3>3
  <2>4. Len(Box(<< >>)) = 0
    BY Boxes
  <2>5. Box(node'.capQ) = Box(node.capQ) \/ Len(Box(node'.capQ)) = 0
    BY <2>2, <2>3, <2>4
  <2> QED
    BY <1>1, <1>9, <2>1, <2>5, SoloLess
<1> QED
  BY <1>4, <1>5, <1>7, <1>8, <1>9

LEMMA AllSlots ==
  ASSUME Inv, QueueSlots
  PROVE  Solo(viv'.q, viv'.done) /\ Len(viv.q) = 0 /\ Len(viv.done) = 0
<1>1. /\ viv \in VivType /\ viv.q \in Seq(FillType) /\ viv.done \in Seq(FillType)
  BY Kept DEF VivType, OtherTypes
<1>2. /\ viv'.done = viv.done /\ \A i \in Idx : MineViv(i)
      /\ \A k \in 1 .. Len(viv'.q) :
           IF k <= Len(viv.q) THEN viv'.q[k] = viv.q[k]
           ELSE viv'.q[k].idx = k - Len(viv.q) - 1
  BY QueueSlotsDoes
<1>3. \A i \in Idx : NotIn(viv.q, i) /\ NotIn(viv.done, i)
  BY <1>2, MineNotIn
<1>4. ASSUME NEW z \in Seq(FillType), \A i \in Idx : NotIn(z, i)
      PROVE  Len(z) = 0
  <2>1. Len(z) \in Nat /\ \A k \in 1 .. Len(z) : z[k] \in FillType
    BY SeqFacts
  <2>2. \A k \in 1 .. Len(z) : z[k].idx \in Idx
    BY <2>1 DEF FillType
  <2>3. \A k \in 1 .. Len(z) : FALSE
    BY <1>4, <2>2 DEF NotIn
  <2> QED
    BY <2>1, <2>3
<1>5. Len(viv.q) = 0 /\ Len(viv.done) = 0
  BY <1>1, <1>3, <1>4
<1>6. \A k \in 1 .. Len(viv'.q) : k \in Nat /\ k > 0
  OBVIOUS
<1>7. \A k \in 1 .. Len(viv'.q) : viv'.q[k].idx = k - 0 - 1
  BY <1>2, <1>5, <1>6
<1>8. Distinct(viv'.q)
  BY <1>6, <1>7 DEF Distinct
<1> QED
  BY <1>2, <1>5, <1>8 DEF Solo, Distinct

LEMMA CameraSteps ==
  ASSUME Inv, Soles, [Next]_vars
  PROVE  /\ Solo(viv'.q, viv'.done)
         /\ \A i : Free(viv.q, viv.done, i) =>
              \/ Free(viv'.q, viv'.done, i)
              \/ QueueSlots \/ (RequeueViv /\ i = cur.viv.idx)
         /\ DequeueViv => Free(viv'.q, viv'.done, cur'.viv.idx)
<1>1. /\ viv \in VivType /\ viv.q \in Seq(FillType) /\ viv.done \in Seq(FillType)
      /\ Solo(viv.q, viv.done)
  BY Kept DEF VivType, OtherTypes, Soles
<1>2. CASE VividFill
  <2>1. PICK x : Put(viv.done, x, viv'.done) /\ x.idx = viv.q[1].idx
    BY <1>2, FillDoes
  <2>2. Took(viv.q, viv'.q)
    BY <1>2, FillDoes
  <2>3. ~DequeueViv
    BY <2>1, DequeueVivDoes DEF Took, Put
  <2> QED
    BY <1>1, <2>1, <2>2, <2>3, SoloMoves
<1>3. CASE DequeueViv
  <2>1. Took(viv.done, viv'.done) /\ viv'.q = viv.q /\ cur'.viv = viv.done[1]
    BY <1>3, DequeueVivDoes
  <2> QED
    BY <1>1, <2>1, SoloTakes
<1>4. CASE QueueSlots
  <2>1. ~DequeueViv
    BY <1>4, SameCall DEF QueueSlots, DequeueViv, Call
  <2> QED
    BY <1>4, <2>1, AllSlots
<1>5. CASE RequeueViv
  <2>1. ~DequeueViv
    BY <1>5, SameCall DEF RequeueViv, DequeueViv, Call
  <2>2. PICK i : i = cur.viv.idx
    OBVIOUS
  <2>3. /\ MineViv(i) /\ viv'.done = viv.done /\ Len(viv'.q) = Len(viv.q) + 1
        /\ \A k \in 1 .. Len(viv'.q) :
             IF k <= Len(viv.q) THEN viv'.q[k] = viv.q[k]
             ELSE k = Len(viv.q) + 1 /\ viv'.q[k].idx = i
    BY <1>5, <2>2, RequeueDoes
  <2>4. viv'.q \in Seq(FillType)
    <3>1. viv' \in VivType
      BY <1>5, QueueVivInv DEF Inv, Types
    <3> QED
      BY <3>1 DEF VivType
  <2>5. PICK x : x = viv'.q[Len(viv.q) + 1]
    OBVIOUS
  <2>6. Len(viv.q) \in Nat /\ DOMAIN viv.q = 1 .. Len(viv.q)
    BY <1>1, SeqFacts
  <2>7. x.idx = i
    BY <2>3, <2>5, <2>6
  <2>8. Put(viv.q, x, viv'.q)
    <3>1. DOMAIN viv'.q = 1 .. Len(viv'.q)
      BY <2>4, SeqFacts
    <3>2. \A k \in 1 .. Len(viv.q) : viv'.q[k] = viv.q[k]
      BY <2>3, <2>6
    <3> QED
      BY <2>3, <2>5, <2>6, <3>1, <3>2 DEF Put
  <2>9. NotIn(viv.q, x.idx) /\ NotIn(viv.done, x.idx)
    BY <2>3, <2>7, MineNotIn
  <2> QED
    BY <1>1, <1>5, <2>1, <2>2, <2>3, <2>7, <2>8, <2>9, SoloPuts
<1>6. CASE ~VividFill /\ ~DequeueViv /\ ~QueueSlots /\ ~RequeueViv
  <2>1. \/ viv'.q = viv.q /\ viv'.done = viv.done
        \/ Len(viv'.q) = 0 /\ Len(viv'.done) = 0
    BY <1>6, VivQueues
  <2> QED
    BY <1>1, <1>6, <2>1, SoloLess
<1> QED
  BY <1>2, <1>3, <1>4, <1>5, <1>6

LEMMA SolesNext ==
  ASSUME Inv, Soles, [Next]_vars
  PROVE  Soles'
  BY OutSteps, CaptureSteps, CameraSteps DEF Soles

(* What is with the program stays with it. *)
LEMMA MineOthers ==
  ASSUME Inv, Soles, Mine, me' = me, Others, [Next]_vars
  PROVE  Mine'
<1> SUFFICES ASSUME Live' PROVE Mine'
  BY DEF Mine
<1>1. Live /\ Prog' = Prog /\ Phase' = Phase /\ cur' = cur
  BY OthersFields DEF Live, Prog, Phase
<1>2. /\ node \in NodeType /\ Solo(node.outQ, node.outDone)
      /\ Solo(Box(node.capQ), node.capDone) /\ Solo(viv.q, viv.done)
  BY Kept DEF Soles
<1>3. CASE RunJob
  <2>1. PICK in, b : Jobs(in, b)
    BY <1>3, RunJobDoes
  <2>2. PICK x : x = [idx |-> in.idx]
    OBVIOUS
  <2>3. /\ Took(node.outQ, node'.outQ) /\ Put(node.outDone, x, node'.outDone)
        /\ x.idx = node.outQ[1].idx /\ 1 \in 1 .. Len(node.outQ)
        /\ Took(node.capQ, node'.capQ) /\ Put(node.capDone, b, node'.capDone)
        /\ b.idx = node.capQ[1] /\ 1 \in 1 .. Len(node.capQ)
    BY <2>1, <2>2 DEF Jobs
  <2>4. \A i : Free(node.outQ, node.outDone, i) => Free(node'.outQ, node'.outDone, i)
    BY <1>2, <2>3, SoloMoves
  <2>5. Took(Box(node.capQ), Box(node'.capQ)) /\ b.idx = Box(node.capQ)[1].idx
    BY <2>3, BoxTook
  <2>6. \A i : Free(Box(node.capQ), node.capDone, i) =>
                 Free(Box(node'.capQ), node'.capDone, i)
    BY <1>2, <2>3, <2>5, SoloMoves
  <2>7. ASSUME NEW n, Below(node.outQ, n), Below(node.outDone, n)
        PROVE  Below(node'.outQ, n) /\ Below(node'.outDone, n)
    <3>1. \A k \in 1 .. Len(node'.outQ) :
            node'.outQ[k] = node.outQ[k + 1] /\ k + 1 \in 1 .. Len(node.outQ)
      BY <2>3 DEF Took
    <3>2. \A k \in 1 .. Len(node'.outDone) :
            (k \in 1 .. Len(node.outDone) /\ node'.outDone[k] = node.outDone[k])
              \/ node'.outDone[k] = x
      BY <2>3 DEF Put
    <3> QED
      BY <2>3, <2>7, <3>1, <3>2 DEF Below
  <2>8. ~(Len(node.capQ) = 0)
    BY <2>3
  <2>9. viv' = viv
    BY <1>3 DEF RunJob
  <2> QED
    BY <1>1, <2>4, <2>6, <2>7, <2>8, <2>9 DEF Mine
<1>4. CASE ~RunJob
  <2>1. node' = node
    BY <1>4, OthersFields
  <2>2. CASE VividFill
    <3>1. PICK x : Put(viv.done, x, viv'.done) /\ x.idx = viv.q[1].idx
      BY <2>2, FillDoes
    <3>2. Took(viv.q, viv'.q) /\ 1 \in 1 .. Len(viv.q)
      BY <2>2, FillDoes
    <3>3. \A i : Free(viv.q, viv.done, i) => Free(viv'.q, viv'.done, i)
      BY <1>2, <3>1, <3>2, SoloMoves
    <3>4. ~(Len(viv.q) = 0)
      BY <3>2
    <3> QED
      BY <1>1, <2>1, <3>3, <3>4 DEF Mine
  <2>3. CASE ~VividFill
    <3>1. viv'.q = viv.q /\ viv'.done = viv.done
      BY <2>3, OthersFields
    <3> QED
      BY <1>1, <2>1, <3>1 DEF Mine
  <2> QED
    BY <2>2, <2>3
<1> QED
  BY <1>3, <1>4

LEMMA CurSteps ==
  ASSUME Inv, NEW c, NEW s, Makes(c, s), ~Others, [Next]_vars
  PROVE  /\ c # "dqOut" => cur'.out = cur.out
         /\ c # "dqCap" => cur'.cap.idx = cur.cap.idx
<1>1. cur \in CurType /\ At(c) /\ Phase # "cleanup"
  BY Kept DEF ProgTypes, Makes, Live
<1>2. ~StopCapture /\ ~CloseMeta /\ ~Close /\ ~CloseViv
  <2>1. c \notin Quits
    BY <1>1, Where DEF Quits, LoopCalls, SetupNames, NodeSetup, VivSetup, Phases
  <2> QED
    BY <1>1, <2>1, SameCall DEF Quits, StopCapture, CloseMeta, Close, CloseViv
<1>3. ~DrainFails
  <2>1. DrainFails => me'.runs = << >>
    <3>1. me \in MeType
      BY DEF Inv, Types
    <3> QED
      BY <3>1 DEF DrainFails, MeType
  <2> QED
    BY <2>1 DEF Makes
<1>4. \/ cur' = cur \/ DequeueCapture \/ DequeueOutput \/ ReadMeta \/ WriteRow \/ DequeueViv
  <2>1. OpenMeta => cur' = cur
    BY DEF OpenMeta, progVars
  <2> QED
    BY <1>2, <1>3, <2>1, SideSteps DEF Silent, Others
<1>5. DequeueCapture => cur'.out = cur.out /\ c = "dqCap"
  BY <1>1, SameCall DEF DequeueCapture, CurType, Call
<1>6. DequeueOutput => cur'.cap.idx = cur.cap.idx /\ c = "dqOut"
  BY <1>1, SameCall DEF DequeueOutput, CurType, Call
<1>7. ReadMeta => cur'.cap.idx = cur.cap.idx /\ cur'.out = cur.out
  BY <1>1 DEF ReadMeta, CurType
<1>8. WriteRow => cur'.cap.idx = cur.cap.idx /\ cur'.out = cur.out
  BY <1>1 DEF WriteRow, CurType, CapType, Fresh, NoCap
<1>9. DequeueViv => cur'.cap.idx = cur.cap.idx /\ cur'.out = cur.out
  BY <1>1 DEF DequeueViv, CurType
<1> QED
  BY <1>4, <1>5, <1>6, <1>7, <1>8, <1>9

LEMMA MineOutput ==
  ASSUME Inv, Inv', Soles, Mine, NEW c, NEW s, Makes(c, s), Acts(c, s), ~Others,
         [Next]_vars, Past(me', Prog, "dqOut"), Runner(Prog), HasNode(Prog)
  PROVE  Free(node'.outQ, node'.outDone, cur'.out)
<1>1. Live /\ At(c) /\ me.pc[1] = Phase /\ Kind(Prog) /\ Plan(Prog) /\ Placed(me', Prog)
      /\ me' \in MeType
  BY ReadyNext, MadeFacts DEF Makes
<1>2. CASE c = "dqOut"
  BY <1>2, OutSteps DEF Acts
<1>3. CASE c # "dqOut"
  <2>1. Past(me, Prog, "dqOut") /\ cur'.out = cur.out
    BY <1>3, ReadyNext, CurSteps
  <2>2. Free(node.outQ, node.outDone, cur.out)
    BY <1>1, <2>1 DEF Mine
  <2>3. ~Submit
    <3>1. SUFFICES ASSUME Submit PROVE FALSE
      OBVIOUS
    <3>2. c = "submit"
      BY <1>1, <3>1, SubmitDoes, SameCall
    <3>3. Phase = "loop"
      BY <1>1, <2>1 DEF Past
    <3>4. Prog.depth > 0
      BY <1>1, KindFacts
    <3>5. ~Past(me', Prog, "submit")
      BY <1>1, <3>4, LastCalls
    <3>6. SameTurn(me, me', Prog, c) \/ NewTurn(me, me', Prog, c)
      BY DEF Makes, Forward
    <3> QED
      BY <1>1, <3>2, <3>3, <3>5, <3>6 DEF SameTurn, NewTurn
  <2> QED
    BY <2>1, <2>2, <2>3, OutSteps
<1> QED
  BY <1>2, <1>3

LEMMA MineFill ==
  ASSUME Inv, Inv', Counters, Mine, Counters', Flight', Balance',
         NEW c, NEW s, Makes(c, s), Acts(c, s), ~Others,
         [Next]_vars, Phase' = "fill", Prog.mem = "own"
  PROVE  Below(node'.outQ, me'.sent) /\ Below(node'.outDone, me'.sent)
<1>1. /\ Live /\ At(c) /\ me.pc[1] = Phase /\ me'.pc[1] = Phase' /\ Kind(Prog) /\ Prog' = Prog
      /\ Prog.depth \in Nat /\ me.sent \in Nat /\ me'.sent = me.sent + s /\ s \in {0, 1}
      /\ Live' /\ me'.runs = me.runs /\ node \in NodeType /\ me' \in MeType
      /\ Forward(me, me', Prog, c, s)
  BY ReadyNext, MadeFacts, Kept DEF Makes, Live
<1>2. me'.i = 0 /\ me'.sent < Prog.depth /\ me'.sent < Prog.frames
  BY <1>1 DEF Counters
<1>3. Prog.depth > 0
  BY <1>1, <1>2
<1>4. Runner(Prog)
  BY <1>1, <1>3, KindFacts
<1>5. HasNode(Prog) /\ Prog.index = "dequeued" /\ "submit" \notin Calls(Prog.setup)
  BY <1>4 DEF Runner, HasNode, NodeSetup
<1>6. Phase \in {"setup", "fill"}
  BY <1>1 DEF Forward
<1>7. CASE Phase = "setup"
  <2>1. me.sent = 0
    BY <1>1, <1>3, <1>7 DEF Counters
  <2>2. s = 0
    <3>1. c \in Calls(Prog.setup)
      BY <1>1, <1>7, Where
    <3> QED
      BY <1>1, <1>5, <3>1 DEF Makes
  <2>3. me'.sent = 0
    BY <1>1, <2>1, <2>2
  <2>4. \A x : ~Past(me', Prog, x)
    BY <1>1 DEF Past
  <2>5. Done(me', Prog, "dqCap") = 0 /\ Taken(me', Prog) = 0 /\ Sent(me', Prog) = 0
    BY <1>2, <1>3, <2>3, <2>4 DEF Done, Taken, Sent
  <2>6. 0 + Len(node'.capDone) + Len(node'.outQ) = 0
    BY <1>1, <1>5, <2>5 DEF Flight, Trail
  <2>7. 0 + Len(node'.outDone) = 0 + Len(node'.capDone)
    BY <1>1, <1>5, <2>5 DEF Balance
  <2>8. Len(node'.capDone) \in Nat /\ Len(node'.outQ) \in Nat /\ Len(node'.outDone) \in Nat
    <3>1. node' \in NodeType
      BY DEF Inv, Types
    <3> QED
      BY <3>1 DEF NodeType
  <2>9. Len(node'.outQ) = 0 /\ Len(node'.outDone) = 0
    <3>1. PICK x, y, z : /\ x = Len(node'.capDone) /\ y = Len(node'.outQ)
                         /\ z = Len(node'.outDone)
      OBVIOUS
    <3>2. /\ x \in Nat /\ y \in Nat /\ z \in Nat /\ 0 + x + y = 0 /\ 0 + z = 0 + x
      BY <2>6, <2>7, <2>8, <3>1
    <3>3. y = 0 /\ z = 0
      BY ONLY <3>2
    <3> QED
      BY <3>1, <3>3
  <2> QED
    BY <2>9 DEF Below
<1>8. CASE Phase = "fill"
  <2>1. c = "submit"
    BY <1>1, <1>8, Where
  <2>2. Submits
    BY <1>1, <1>8 DEF Counters, Submits
  <2>3. s = 1
    BY <1>1, <2>1, <2>2 DEF Makes
  <2>4. Submit
    BY <2>1, <2>3 DEF Acts
  <2>5. PICK b : Sends(b)
    BY <2>4, SubmitDoes
  <2>6. OutIndex = me.sent
    BY <1>5, <1>8 DEF OutIndex
  <2>7. Put(node.outQ, b, node'.outQ) /\ b.idx = me.sent
    BY <2>5, <2>6 DEF Sends
  <2>8. node'.outDone = node.outDone
    <3>1. \E x : node' = [node EXCEPT !.outQ = x]
      BY <2>5 DEF Sends
    <3> QED
      BY <1>1, <3>1 DEF NodeType
  <2>9. Below(node.outQ, me.sent) /\ Below(node.outDone, me.sent)
    BY <1>1, <1>8 DEF Mine
  <2>10. \A x \in Nat : x < me.sent => x < me.sent + 1
    BY <1>1
  <2>11. /\ \A k \in 1 .. Len(node.outQ) : node.outQ[k].idx \in Nat
         /\ \A k \in 1 .. Len(node.outDone) : node.outDone[k].idx \in Nat
    <3>1. /\ \A k \in 1 .. Len(node.outQ) : node.outQ[k] \in InType
          /\ \A k \in 1 .. Len(node.outDone) : node.outDone[k] \in [idx : Idx]
      BY <1>1, SeqFacts DEF NodeType
    <3> QED
      BY <3>1, Constants DEF InType
  <2>12. Below(node.outQ, me.sent + 1) /\ Below(node.outDone, me.sent + 1)
    BY <2>9, <2>10, <2>11 DEF Below
  <2>13. me'.sent = me.sent + 1 /\ me.sent < me.sent + 1
    BY <1>1, <2>3
  <2>14. \A k \in 1 .. Len(node'.outQ) :
           (k \in 1 .. Len(node.outQ) /\ node'.outQ[k] = node.outQ[k]) \/ node'.outQ[k] = b
    BY <2>7 DEF Put
  <2>15. Below(node'.outQ, me.sent + 1)
    BY <2>7, <2>12, <2>13, <2>14 DEF Below
  <2> QED
    BY <2>8, <2>12, <2>13, <2>15
<1> QED
  BY <1>6, <1>7, <1>8

LEMMA MineCapture ==
  ASSUME Inv, Inv', Soles, Mine, NEW c, NEW s, Makes(c, s), Acts(c, s), ~Others,
         [Next]_vars, Past(me', Prog, "dqCap"), ~Past(me', Prog, "qCap"), HasNode(Prog)
  PROVE  Free(Box(node'.capQ), node'.capDone, cur'.cap.idx)
<1>1. Live /\ At(c) /\ me.pc[1] = Phase
  BY ReadyNext DEF Makes
<1>2. CASE c = "dqCap"
  BY <1>2, CaptureSteps DEF Acts
<1>3. CASE c # "dqCap"
  <2>1. Past(me, Prog, "dqCap") /\ cur'.cap.idx = cur.cap.idx /\ ~Past(me, Prog, "qCap")
    BY <1>3, ReadyNext, CurSteps
  <2>2. Free(Box(node.capQ), node.capDone, cur.cap.idx)
    BY <1>1, <2>1 DEF Mine
  <2>3. Phase = "loop"
    BY <1>1, <2>1 DEF Past
  <2>4. ~QueueCaptures
    <3>1. QueueCaptures => c \in {"qCaps", "qCap0"}
      BY <1>1, SameCall DEF QueueCaptures, Call
    <3>2. c \in {"qCaps", "qCap0"} => Phase = "setup"
      BY ReadyNext DEF SetupNames
    <3> QED
      BY <2>3, <3>1, <3>2
  <2>5. ~RequeueCapture
    <3>1. RequeueCapture => c = "qCap"
      BY <1>1, SameCall DEF RequeueCapture, Call
    <3>2. SameTurn(me, me', Prog, c) \/ NewTurn(me, me', Prog, c)
      BY DEF Makes, Forward
    <3> QED
      BY <1>1, <2>3, <3>1, <3>2 DEF SameTurn, NewTurn
  <2> QED
    BY <2>1, <2>2, <2>4, <2>5, CaptureSteps
<1> QED
  BY <1>2, <1>3

LEMMA MineUnqueued ==
  ASSUME Inv, Inv', Mine, NEW c, NEW s, Makes(c, s), Acts(c, s), ~Others,
         [Next]_vars, Unqueued(me', Prog), HasNode(Prog)
  PROVE  Len(node'.capQ) = 0 /\ Len(node'.capDone) = 0
<1>1. Live /\ At(c) /\ me.pc[1] = Phase /\ Kind(Prog) /\ me.pc[1] \in Phases
  BY ReadyNext, MadeFacts DEF Makes
<1>2. \A x \in Calls(Prog.setup) :
        Ready(me', Prog, x) <=> Ready(me, Prog, x) \/ (Phase = "setup" /\ x = c)
  BY ReadyNext
<1>3. Unqueued(me, Prog)
  BY <1>2 DEF Unqueued
<1>4. Len(node.capQ) = 0 /\ Len(node.capDone) = 0
  BY <1>1, <1>3 DEF Mine
<1>5. PICK x \in {"qCaps", "qCap0"} : x \in Calls(Prog.setup)
  <2>1. Runner(Prog) \/ Copier(Prog) \/ Bench(Prog) \/ Feeder(Prog)
    BY <1>1, KindFacts
  <2>2. Runner(Prog) => "qCaps" \in Calls(Prog.setup)
    BY DEF Runner
  <2>3. Copier(Prog) => "qCaps" \in Calls(Prog.setup)
    BY DEF Copier
  <2>4. Bench(Prog) => "qCaps" \in Calls(Prog.setup)
    BY DEF Bench
  <2>5. Feeder(Prog) => "qCap0" \in Calls(Prog.setup)
    BY DEF Feeder
  <2> QED
    BY <2>1, <2>2, <2>3, <2>4, <2>5
<1>6. Phase = "setup"
  BY <1>1, <1>3, <1>5 DEF Unqueued, Ready
<1>7. c \notin {"qCaps", "qCap0"}
  <2>1. c \in Calls(Prog.setup)
    BY <1>1, <1>6, Where
  <2> QED
    BY <1>2, <1>6, <2>1 DEF Unqueued
<1>8. c \notin {"qCap", "dqCap"}
  BY <1>1, <1>6, Where DEF SetupNames, NodeSetup, VivSetup
<1>9. CASE c = "open"
  <2>1. node' = [ClosedNode EXCEPT !.open = TRUE]
    BY <1>9 DEF Acts, OpenNode
  <2> QED
    BY <2>1 DEF ClosedNode
<1>10. CASE c # "open"
  <2>1. node'.capQ = node.capQ
    BY <1>7, <1>8, <1>10, MakesFields
  <2>2. node'.capDone = node.capDone
    BY <1>8, <1>10, MakesQueues, SubmitDoes DEF QueuesKept, Sends
  <2> QED
    BY <1>4, <2>1, <2>2
<1> QED
  BY <1>9, <1>10

LEMMA MineCamera ==
  ASSUME Inv, Inv', Soles, Mine, NEW c, NEW s, Makes(c, s), Acts(c, s), ~Others,
         [Next]_vars, HasViv(Prog)
  PROVE  /\ Past(me', Prog, "dqViv") => Free(viv'.q, viv'.done, cur'.viv.idx)
         /\ ~Ready(me', Prog, "qVivs") => Len(viv'.q) = 0 /\ Len(viv'.done) = 0
<1>1. Live /\ At(c) /\ me.pc[1] = Phase
  BY ReadyNext DEF Makes
<1>2. (QueueSlots => c = "qVivs") /\ (RequeueViv => c = "qViv")
  BY MakesQueues
<1>3. DequeueViv => c = "dqViv"
  BY <1>1, SameCall DEF DequeueViv, Call
<1>4. ~VividFill
  BY DEF Others
<1>5. ASSUME Past(me', Prog, "dqViv") PROVE Free(viv'.q, viv'.done, cur'.viv.idx)
  <2>1. CASE c = "dqViv"
    BY <2>1, CameraSteps DEF Acts
  <2>2. CASE c # "dqViv"
    <3>1. Past(me, Prog, "dqViv") /\ cur'.viv.idx = cur.viv.idx
      BY <1>5, <2>2, ReadyNext, CurVivSteps
    <3>2. Free(viv.q, viv.done, cur.viv.idx)
      BY <1>1, <3>1 DEF Mine
    <3>3. c # "qVivs"
      BY <1>1, <3>1, VivTurn DEF Past
    <3>4. c # "qViv"
      BY <1>5, VivTurn
    <3> QED
      BY <1>2, <3>1, <3>2, <3>3, <3>4, CameraSteps
  <2> QED
    BY <2>1, <2>2
<1>6. ASSUME ~Ready(me', Prog, "qVivs") PROVE Len(viv'.q) = 0 /\ Len(viv'.done) = 0
  <2>1. c # "qVivs" /\ ~Ready(me, Prog, "qVivs")
    BY <1>6, VivTurn
  <2>2. Phase = "setup"
    BY <1>1, <2>1 DEF Ready
  <2>3. c \notin {"dqViv", "qViv"}
    BY <2>2, VivTurn
  <2>4. Len(viv.q) = 0 /\ Len(viv.done) = 0
    BY <1>1, <2>1 DEF Mine
  <2> QED
    BY <1>2, <1>3, <1>4, <2>1, <2>3, <2>4, VivQueues
<1> QED
  BY <1>5, <1>6

LEMMA MineNext ==
  ASSUME Inv, Inv', Counters, Soles, Mine, Counters', Flight', Balance', Way, [Next]_vars
  PROVE  Mine'
<1>1. CASE me' = me /\ Others
  BY <1>1, MineOthers
<1>2. CASE Ends
  BY <1>2 DEF Ends, Mine
<1>3. CASE NewRun
  <2>1. /\ ~HasViv(Prog') /\ node' = ClosedNode /\ Phase' = "setup"
        /\ \A x : ~Past(me', Prog', x)
    BY <1>3, NewRunKind, SecondRun
  <2>2. Len(node'.capQ) = 0 /\ Len(node'.capDone) = 0
    BY <2>1 DEF ClosedNode
  <2> QED
    BY <2>1, <2>2 DEF Mine
<1>4. ASSUME NEW c, NEW s, Makes(c, s), Acts(c, s), ~Others PROVE Mine'
  <2>1. Prog' = Prog
    BY <1>4 DEF Makes
  <2>2. Past(me', Prog, "dqOut") /\ Runner(Prog) /\ HasNode(Prog) =>
          Free(node'.outQ, node'.outDone, cur'.out)
    BY <1>4, MineOutput
  <2>3. Phase' = "fill" /\ Prog.mem = "own" =>
          Below(node'.outQ, me'.sent) /\ Below(node'.outDone, me'.sent)
    BY <1>4, MineFill
  <2>4. Past(me', Prog, "dqCap") /\ ~Past(me', Prog, "qCap") /\ HasNode(Prog) =>
          Free(Box(node'.capQ), node'.capDone, cur'.cap.idx)
    BY <1>4, MineCapture
  <2>5. Unqueued(me', Prog) /\ HasNode(Prog) =>
          Len(node'.capQ) = 0 /\ Len(node'.capDone) = 0
    BY <1>4, MineUnqueued
  <2>6. HasViv(Prog) =>
          /\ Past(me', Prog, "dqViv") => Free(viv'.q, viv'.done, cur'.viv.idx)
          /\ ~Ready(me', Prog, "qVivs") => Len(viv'.q) = 0 /\ Len(viv'.done) = 0
    BY <1>4, MineCamera
  <2> QED
    BY <2>1, <2>2, <2>3, <2>4, <2>5, <2>6 DEF Mine
<1> QED
  BY <1>1, <1>2, <1>3, <1>4 DEF Way

LEMMA VivCalls ==
  ASSUME Inv, NEW c \in {"mapSlots", "qVivs", "qViv", "remap", "dqViv"}, At(c)
  PROVE  HasViv(Prog)
<1>1. /\ Kind(Prog) /\ Phase \in Phases
      /\ Phase = "setup" => c \in Calls(Prog.setup)
      /\ Phase = "fill" => c = "submit"
      /\ Phase = "loop" => c \in Calls(Prog.loop)
      /\ Phase = "after" => c \in {"export", "verify"}
      /\ Phase = "cleanup" => c \in Quits
  BY Where
<1>2. c \in Calls(Prog.setup) \/ c \in Calls(Prog.loop)
  BY <1>1 DEF Phases, Quits
<1>3. Runner(Prog) => c \notin Calls(Prog.setup) /\ c \notin Calls(Prog.loop)
  BY DEF Runner, NodeSetup
<1>4. Bench(Prog) => c \notin Calls(Prog.setup) /\ c \notin Calls(Prog.loop)
  BY DEF Bench, NodeSetup
<1>5. Feeder(Prog) => c \notin Calls(Prog.setup) /\ c \notin Calls(Prog.loop)
  BY DEF Feeder, NodeSetup
<1> QED
  BY <1>1, <1>2, <1>3, <1>4, <1>5, KindFacts DEF Kind

(* A tool without a camera has no slots. *)
LEMMA NoSlots ==
  ASSUME Inv, Inv', Addresses, Way, [Next]_vars, me'.runs # << >>, ~HasViv(Prog')
  PROVE  cur'.viv.addr = 0 /\ \A z \in Idx : slot'.addr[z] = 0
<1>1. me.runs # << >> /\ ~HasViv(Prog)
  <2>1. CASE NewRun
    BY <2>1, NewRunKind
  <2>2. CASE ~NewRun
    BY <2>2, RunsStep DEF Prog
  <2> QED
    BY <2>1, <2>2
<1>2. cur.viv.addr = 0 /\ \A z \in Idx : slot.addr[z] = 0
  BY <1>1 DEF Addresses
<1>3. ~MapSlots /\ ~QueueSlots /\ ~RequeueViv /\ ~Remap /\ ~DequeueViv
  BY <1>1, VivCalls DEF MapSlots, QueueSlots, RequeueViv, Remap, DequeueViv, Call
<1>4. slot' = slot
  BY <1>3, FieldSteps
<1>5. cur'.viv.addr = 0
  <2>1. cur \in CurType
    BY Kept DEF ProgTypes
  <2>2. (\/ OpenMeta \/ StopCapture \/ CloseMeta \/ RunJob \/ PublishForeign \/ DrainOpen
         \/ DrainFails \/ DrainRead) => cur' = cur
    BY DEF OpenMeta, StopCapture, CloseMeta, RunJob, PublishForeign, DrainOpen, DrainFails,
       DrainRead, progVars
  <2>3. DequeueCapture \/ DequeueOutput \/ ReadMeta => cur'.viv = cur.viv
    BY <2>1 DEF DequeueCapture, DequeueOutput, ReadMeta, CurType
  <2>4. WriteRow => cur'.viv.addr = 0
    BY DEF WriteRow, Fresh, NoFill
  <2>5. Close \/ CloseViv => cur' = cur \/ cur' = Fresh
    BY DEF Close, CloseViv, NextRun
  <2>6. Fresh.viv.addr = 0
    BY DEF Fresh, NoFill
  <2> QED
    BY <1>2, <1>3, <2>2, <2>3, <2>4, <2>5, <2>6, SideSteps DEF Silent
<1> QED
  BY <1>2, <1>4, <1>5

LEMMA AddressesOthers ==
  ASSUME Inv, Addresses, me' = me, Others, [Next]_vars, Live, HasViv(Prog)
  PROVE  /\ Addressed(viv.q)' /\ Addressed(viv.done)'
         /\ CurViv(me', Prog) => cur'.viv.addr = slot'.addr[cur'.viv.idx]
<1>1. cur' = cur /\ slot' = slot
  BY OthersFields
<1>2. /\ \A k \in 1 .. Len(viv.q) : viv.q[k].addr = slot.addr[viv.q[k].idx]
      /\ \A k \in 1 .. Len(viv.done) : viv.done[k].addr = slot.addr[viv.done[k].idx]
      /\ CurViv(me, Prog) => cur.viv.addr = slot.addr[cur.viv.idx]
  BY DEF Addresses, Addressed
<1>3. CASE VividFill
  <2>1. PICK x : /\ Put(viv.done, x, viv'.done) /\ x.idx = viv.q[1].idx
                 /\ x.addr = viv.q[1].addr
    BY <1>3, FillDoes
  <2>2. Took(viv.q, viv'.q) /\ 1 \in 1 .. Len(viv.q)
    BY <1>3, FillDoes
  <2>3. \A k \in 1 .. Len(viv'.q) : viv'.q[k] = viv.q[k + 1] /\ k + 1 \in 1 .. Len(viv.q)
    BY <2>2 DEF Took
  <2>4. \A k \in 1 .. Len(viv'.done) :
          (k \in 1 .. Len(viv.done) /\ viv'.done[k] = viv.done[k]) \/ viv'.done[k] = x
    BY <2>1 DEF Put
  <2> QED
    BY <1>1, <1>2, <2>1, <2>2, <2>3, <2>4 DEF Addressed
<1>4. CASE ~VividFill
  <2>1. viv'.q = viv.q /\ viv'.done = viv.done
    BY <1>4, OthersFields
  <2> QED
    BY <1>1, <1>2, <2>1 DEF Addressed
<1> QED
  BY <1>3, <1>4

LEMMA AddressesMade ==
  ASSUME Inv, Inv', Mine, Addresses, NEW c, NEW s, Makes(c, s), Acts(c, s), ~Others,
         [Next]_vars, HasViv(Prog)
  PROVE  /\ Addressed(viv.q)' /\ Addressed(viv.done)'
         /\ CurViv(me', Prog) => cur'.viv.addr = slot'.addr[cur'.viv.idx]
<1>1. /\ Live /\ At(c) /\ me.pc[1] = Phase /\ Kind(Prog) /\ viv \in VivType
      /\ slot \in SlotType
  BY ReadyNext, Kept DEF Makes, OtherTypes, ProgTypes
<1>2. /\ \A k \in 1 .. Len(viv.q) : viv.q[k].addr = slot.addr[viv.q[k].idx]
      /\ \A k \in 1 .. Len(viv.done) : viv.done[k].addr = slot.addr[viv.done[k].idx]
      /\ CurViv(me, Prog) => cur.viv.addr = slot.addr[cur.viv.idx]
  BY <1>1 DEF Addresses, Addressed
<1>3. /\ (MapSlots => c = "mapSlots") /\ (QueueSlots => c = "qVivs")
      /\ (RequeueViv => c = "qViv") /\ (Remap => c = "remap") /\ (DequeueViv => c = "dqViv")
  BY <1>1, SameCall DEF MapSlots, QueueSlots, RequeueViv, Remap, DequeueViv, Call
<1>4. ~VividFill
  BY DEF Others
<1>5. CASE c = "mapSlots"
  <2>1. viv' = viv
    BY <1>5 DEF Acts, MapSlots
  <2>2. ~Ready(me, Prog, "qVivs")
    BY <1>5, VivTurn
  <2>3. Len(viv.q) = 0 /\ Len(viv.done) = 0
    BY <1>1, <2>2 DEF Mine
  <2>4. Phase = "setup"
    BY <1>1, <2>2 DEF Ready
  <2>5. ~Past(me', Prog, "dqViv")
    BY <1>1, <2>4, ReadyNext DEF Past
  <2> QED
    BY <2>1, <2>3, <2>5 DEF Addressed, CurViv
<1>6. CASE c = "remap"
  <2>1. Remap
    BY <1>6 DEF Acts
  <2>2. viv' = viv /\ cur' = cur
    BY <2>1 DEF Remap
  <2>3. \A z \in Idx : z # cur.viv.idx => slot'.addr[z] = slot.addr[z]
    BY <2>1, RemapDoes
  <2>4. Past(me, Prog, "row") /\ Phase = "loop"
    BY <1>6, VivTurn
  <2>5. Past(me, Prog, "dqViv")
    <3>1. ~Runner(Prog) /\ "dqViv" \in Calls(Prog.loop)
      BY <1>1, KindFacts DEF HasViv
    <3> QED
      BY <1>1, <1>6, <2>4, <3>1, OtherPast
  <2>6. NotIn(viv.q, cur.viv.idx) /\ NotIn(viv.done, cur.viv.idx)
    BY <1>1, <2>5 DEF Mine, Free
  <2>7. /\ \A k \in 1 .. Len(viv.q) : viv.q[k].idx \in Idx
        /\ \A k \in 1 .. Len(viv.done) : viv.done[k].idx \in Idx
    <3>1. /\ \A k \in 1 .. Len(viv.q) : viv.q[k] \in FillType
          /\ \A k \in 1 .. Len(viv.done) : viv.done[k] \in FillType
      BY <1>1, SeqFacts DEF VivType
    <3> QED
      BY <3>1 DEF FillType
  <2>8. Past(me', Prog, "row")
    BY <1>6, <2>4, VivTurn
  <2> QED
    BY <1>2, <2>2, <2>3, <2>6, <2>7, <2>8 DEF Addressed, NotIn, CurViv
<1>7. CASE c = "qVivs"
  <2>1. QueueSlots
    BY <1>7 DEF Acts
  <2>2. /\ viv'.done = viv.done /\ slot'.addr = slot.addr
        /\ \A k \in 1 .. Len(viv'.q) :
             \/ k \in 1 .. Len(viv.q) /\ viv'.q[k] = viv.q[k]
             \/ \E i \in Idx :
                  viv'.q[k] = [idx |-> i, id |-> <<0, viv.qbufs + i>>,
                               addr |-> slot.addr[i], seq |-> Blank]
    BY <2>1, QueueSlotsDoes
  <2>3. ASSUME NEW k \in 1 .. Len(viv'.q)
        PROVE  viv'.q[k].addr = slot.addr[viv'.q[k].idx]
    <3>1. CASE k \in 1 .. Len(viv.q) /\ viv'.q[k] = viv.q[k]
      BY <1>2, <3>1
    <3>2. ASSUME NEW i \in Idx, viv'.q[k] = [idx |-> i, id |-> <<0, viv.qbufs + i>>,
                                             addr |-> slot.addr[i], seq |-> Blank]
          PROVE  viv'.q[k].addr = slot.addr[viv'.q[k].idx]
      BY <3>2
    <3> QED
      BY <2>2, <3>1, <3>2
  <2>4. ~Past(me', Prog, "dqViv")
    <3>1. Phase = "setup"
      BY <1>7, VivTurn
    <3> QED
      BY <1>1, <3>1, ReadyNext DEF Past
  <2> QED
    BY <1>2, <2>2, <2>3, <2>4 DEF Addressed, CurViv
<1>8. CASE c = "qViv"
  <2>1. RequeueViv
    BY <1>8 DEF Acts
  <2>2. PICK i : i = cur.viv.idx
    OBVIOUS
  <2>3. /\ viv'.done = viv.done /\ slot'.addr = slot.addr
        /\ \A k \in 1 .. Len(viv'.q) :
             \/ k \in 1 .. Len(viv.q) /\ viv'.q[k] = viv.q[k]
             \/ viv'.q[k] = [idx |-> i, id |-> <<0, viv.qbufs>>,
                             addr |-> slot.addr[i], seq |-> Blank]
    BY <2>1, <2>2, RequeueDoes
  <2>4. \A k \in 1 .. Len(viv'.q) : viv'.q[k].addr = slot.addr[viv'.q[k].idx]
    BY <1>2, <2>3
  <2>5. ~Past(me', Prog, "dqViv")
    BY <1>8, VivTurn
  <2> QED
    BY <1>2, <2>3, <2>4, <2>5 DEF Addressed, CurViv
<1>9. CASE c \notin {"mapSlots", "remap", "qVivs", "qViv"}
  <2>1. slot' = slot
    BY <1>3, <1>9, FieldSteps
  <2>2. CASE c = "dqViv"
    <3>1. DequeueViv
      BY <2>2 DEF Acts
    <3>2. /\ Took(viv.done, viv'.done) /\ viv'.q = viv.q /\ cur'.viv = viv.done[1]
          /\ 1 \in 1 .. Len(viv.done)
      BY <3>1, DequeueVivDoes
    <3>3. \A k \in 1 .. Len(viv'.done) :
            viv'.done[k] = viv.done[k + 1] /\ k + 1 \in 1 .. Len(viv.done)
      BY <3>2 DEF Took
    <3> QED
      BY <1>2, <2>1, <3>2, <3>3 DEF Addressed
  <2>3. CASE c # "dqViv"
    <3>1. \/ viv'.q = viv.q /\ viv'.done = viv.done
          \/ Len(viv'.q) = 0 /\ Len(viv'.done) = 0
      BY <1>3, <1>4, <1>9, <2>3, VivQueues
    <3>2. Addressed(viv.q)' /\ Addressed(viv.done)'
      BY <1>2, <2>1, <3>1 DEF Addressed
    <3>3. ASSUME CurViv(me', Prog) PROVE cur'.viv.addr = slot'.addr[cur'.viv.idx]
      <4>1. \A x : Past(me', Prog, x) <=> Past(me, Prog, x) \/ (Phase = "loop" /\ x = c)
        BY <1>9, VivTurn
      <4>2. CurViv(me, Prog) /\ (Phase = "loop" => c # "row")
        BY <2>3, <3>3, <4>1 DEF CurViv
      <4>3. Phase = "loop"
        BY <1>1, <4>2 DEF CurViv, Past
      <4>4. cur'.viv = cur.viv
        BY <2>3, <4>2, <4>3, CurVivSteps
      <4> QED
        BY <1>2, <2>1, <4>2, <4>4
    <3> QED
      BY <3>2, <3>3
  <2> QED
    BY <2>2, <2>3
<1> QED
  BY <1>5, <1>6, <1>7, <1>8, <1>9

LEMMA AddressesNext ==
  ASSUME Inv, Inv', Mine, Addresses, Way, [Next]_vars
  PROVE  Addresses'
<1>1. me'.runs # << >> /\ ~HasViv(Prog') =>
        cur'.viv.addr = 0 /\ \A z \in Idx : slot'.addr[z] = 0
  BY NoSlots
<1>2. Live' /\ HasViv(Prog') =>
        /\ Addressed(viv.q)' /\ Addressed(viv.done)'
        /\ CurViv(me', Prog') => cur'.viv.addr = slot'.addr[cur'.viv.idx]
  <2> SUFFICES ASSUME Live', HasViv(Prog')
               PROVE  /\ Addressed(viv.q)' /\ Addressed(viv.done)'
                      /\ CurViv(me', Prog') => cur'.viv.addr = slot'.addr[cur'.viv.idx]
    OBVIOUS
  <2>1. CASE me' = me /\ Others
    <3>1. Live /\ Prog' = Prog
      BY <2>1 DEF Live, Prog, Phase
    <3> QED
      BY <2>1, <3>1, AddressesOthers
  <2>2. CASE Ends
    BY <2>2 DEF Ends
  <2>3. CASE NewRun
    BY <2>3, NewRunKind
  <2>4. ASSUME NEW c, NEW s, Makes(c, s), Acts(c, s), ~Others
        PROVE  /\ Addressed(viv.q)' /\ Addressed(viv.done)'
               /\ CurViv(me', Prog') => cur'.viv.addr = slot'.addr[cur'.viv.idx]
    <3>1. Prog' = Prog
      BY <2>4 DEF Makes
    <3> QED
      BY <2>4, <3>1, AddressesMade
  <2> QED
    BY <2>1, <2>2, <2>3, <2>4 DEF Way
<1> QED
  BY <1>1, <1>2 DEF Addresses

(* The tools that make a call have the device it is made on. *)
LEMMA NodeCalls ==
  ASSUME Inv, NEW c, At(c),
         c \in {"backend", "fmtOut", "fmtCap", "reqOut", "reqOne", "mapOut", "mapCap",
                "qCaps", "qCap0", "export", "submit", "dqCap", "dqOut", "qCap"}
  PROVE  HasNode(Prog)
<1>1. /\ Kind(Prog) /\ Phase \in Phases
      /\ Phase = "setup" => c \in Calls(Prog.setup)
      /\ Phase = "loop" => c \in Calls(Prog.loop)
      /\ Phase = "cleanup" => c \in Quits
      /\ Placed(me, Prog) /\ me.pc[1] = Phase
  BY Where DEF Phase
<1>2. c \notin Quits
  BY DEF Quits
<1>3. SUFFICES ASSUME Camera(Prog) PROVE FALSE
  BY <1>1, KindFacts DEF Kind
<1>4. c \notin Calls(Prog.setup) /\ c \notin Calls(Prog.loop)
  BY <1>3 DEF Camera, VivSetup
<1>5. Phase # "fill"
  BY <1>1, <1>3 DEF Placed, Camera
<1>6. Phase # "after"
  BY <1>1, <1>3 DEF Placed, Camera, Bare
<1> QED
  BY <1>1, <1>2, <1>4, <1>5, <1>6 DEF Phases

LEMMA CameraCalls ==
  ASSUME Inv, NEW c, At(c), c \in {"fmtViv", "reqUser", "qVivs", "dqViv", "qViv"}
  PROVE  HasViv(Prog)
<1>1. CASE c \in {"qVivs", "dqViv", "qViv"}
  BY <1>1, VivCalls
<1>2. CASE c \in {"fmtViv", "reqUser"}
  <2>1. Kind(Prog) /\ c \in Calls(Prog.setup)
    BY <1>2, Where DEF Phases, LoopCalls, Quits
  <2>2. Runner(Prog) => c \notin Calls(Prog.setup)
    BY <1>2 DEF Runner, NodeSetup
  <2>3. Bench(Prog) => c \notin Calls(Prog.setup)
    BY <1>2 DEF Bench, NodeSetup
  <2>4. Feeder(Prog) => c \notin Calls(Prog.setup)
    BY <1>2 DEF Feeder, NodeSetup
  <2> QED
    BY <2>1, <2>2, <2>3, <2>4, KindFacts DEF Kind
<1> QED
  BY <1>1, <1>2

(* Unless REQBUFS granted less, a tool has all the buffers it counts on. *)
LEMMA FullGrant ==
  ASSUME Inv, Granted, Live, ~Short
  PROVE  /\ HasNode(Prog) /\ Ready(me, Prog, "mapCap") => node.n.CAP = N
         /\ \A x \in Calls(Prog.setup) \cap Requests("OUT") :
              HasNode(Prog) /\ Ready(me, Prog, x) =>
                /\ node.n.OUT \in 2 .. N
                /\ Prog.mem \in {"own", "heap", "viv"} => node.n.OUT = N
         /\ \A x \in Calls(Prog.setup) \cap VivRequests :
              HasViv(Prog) /\ Ready(me, Prog, x) => viv.n = N
<1>1. N \in Nat /\ N >= 2
  BY Constants
<1>2. \A x : x \in 2 .. N /\ x \notin 1 .. N - 1 => x = N
  BY <1>1
<1>3. /\ node.n.CAP \notin 1 .. N - 1 /\ viv.n \notin 1 .. N - 1
      /\ Prog.mem = "own" => node.n.OUT \notin 1 .. N - 1
  BY DEF Short
<1>4. HasNode(Prog) /\ Ready(me, Prog, "mapCap") => node.n.CAP \in 2 .. N
  BY DEF Granted
<1>5. ASSUME NEW x \in Calls(Prog.setup) \cap Requests("OUT"), HasNode(Prog),
             Ready(me, Prog, x)
      PROVE  node.n.OUT \in 2 .. N /\ (Prog.mem \in {"heap", "viv"} => node.n.OUT = N)
  BY <1>5 DEF Granted
<1>6. ASSUME NEW x \in Calls(Prog.setup) \cap VivRequests, HasViv(Prog), Ready(me, Prog, x)
      PROVE  viv.n \in 2 .. N
  BY <1>6 DEF Granted
<1> QED
  BY <1>2, <1>3, <1>4, <1>5, <1>6

LEMMA WelcomeSetup ==
  ASSUME Inv, Granted, Live, ~Short, NEW c, At(c), Phase = "setup",
         c \notin {"submit", "qCaps", "qCap0", "qVivs"}
  PROVE  Accepts(c)
<1>1. /\ Kind(Prog) /\ c \in Calls(Prog.setup) /\ c \in SetupNames /\ node \in NodeType
  BY Where, Kept
<1>2. Requests("OUT") = {"mapOut", "reqOut", "reqOne"}
  BY DEF Requests
<1>3. \A x \in Calls(Prog.setup) :
        /\ Stage(x) < Stage(c) => Ready(me, Prog, x)
        /\ Ready(me, Prog, x) => Stage(x) <= Stage(c) /\ x # c
  BY SetupAt
<1>4. HasNode(Prog) => {"onOut", "onCap", "mapCap"} \subseteq Calls(Prog.setup)
  BY <1>1, KindSetup
<1>5. HasNode(Prog) =>
        /\ "OUT" \in node.on <=> Ready(me, Prog, "onOut")
        /\ "CAP" \in node.on <=> Ready(me, Prog, "onCap")
        /\ ~Ready(me, Prog, "mapCap") => node.n.CAP = 0
        /\ (\A x \in Calls(Prog.setup) \cap Requests("OUT") : ~Ready(me, Prog, x))
             => node.n.OUT = 0
  BY DEF Granted
<1>6. CASE c = "backend"
  <2>1. HasNode(Prog)
    BY <1>6, NodeCalls
  <2>2. ~Ready(me, Prog, "onOut") /\ ~Ready(me, Prog, "onCap")
    BY <1>3, <1>4, <1>6, <2>1, StageOf
  <2>3. node.on = {}
    BY <1>1, <1>5, <2>1, <2>2 DEF NodeType, Queues
  <2> QED
    BY <1>6, <2>3 DEF Accepts
<1>7. CASE c \in {"fmtOut", "fmtCap"}
  <2>1. HasNode(Prog)
    BY <1>7, NodeCalls
  <2>2. Stage(c) = 4
    BY <1>7, StageOf
  <2>3. ~Ready(me, Prog, "mapCap")
    BY <1>3, <1>4, <2>1, <2>2, StageOf
  <2>4. \A x \in Calls(Prog.setup) \cap Requests("OUT") : ~Ready(me, Prog, x)
    <3>1. \A x \in Requests("OUT") : Stage(x) = 5
      BY <1>2, StageOf
    <3> QED
      BY <1>3, <2>2, <3>1
  <2>5. node.n.OUT = 0 /\ node.n.CAP = 0
    BY <1>5, <2>1, <2>3, <2>4
  <2> QED
    BY <1>7, <2>5 DEF Accepts
<1>8. CASE c \in {"fmtViv", "reqUser"}
  <2>1. HasViv(Prog)
    BY <1>8, CameraCalls
  <2>2. PICK x \in VivRequests : x \in Calls(Prog.setup)
    BY <1>1, <2>1, KindSetup
  <2>3. Stage(x) = 5
    BY <2>2, StageOf DEF VivRequests
  <2>4. ~Ready(me, Prog, x)
    <3>1. CASE c = "fmtViv"
      BY <1>3, <2>2, <2>3, <3>1, StageOf
    <3>2. CASE c = "reqUser"
      <4>1. x = c
        BY <1>1, <2>1, <2>2, <3>2, KindSetup DEF VivRequests
      <4> QED
        BY <1>3, <2>2, <4>1
    <3> QED
      BY <1>8, <3>1, <3>2
  <2>5. viv.n = 0
    BY <2>1, <2>2, <2>4 DEF Granted
  <2> QED
    BY <1>8, <2>5 DEF Accepts
<1>9. CASE c \in {"reqOut", "reqOne", "mapOut", "mapCap"}
  <2>1. HasNode(Prog)
    BY <1>9, NodeCalls
  <2>2. Stage(c) = 5
    BY <1>9, StageOf
  <2>3. ~Ready(me, Prog, "onOut") /\ ~Ready(me, Prog, "onCap")
    BY <1>3, <1>4, <2>1, <2>2, StageOf
  <2>4. "OUT" \notin node.on /\ "CAP" \notin node.on
    BY <1>5, <2>1, <2>3
  <2> QED
    BY <1>9, <2>4 DEF Accepts
<1>10. CASE c = "export"
  <2>1. HasNode(Prog)
    BY <1>10, NodeCalls
  <2>2. Ready(me, Prog, "onOut")
    BY <1>3, <1>4, <1>10, <2>1, StageOf
  <2>3. Prog.backend = "VCAM"
    <3>1. Runner(Prog) => Prog.backend = "VCAM"
      BY <1>1, <1>10 DEF Runner, NodeSetup
    <3>2. Bench(Prog) => Prog.backend = "VCAM"
      BY <1>1, <1>10 DEF Bench, NodeSetup
    <3>3. ~Copier(Prog) /\ ~Feeder(Prog)
      BY <1>1, <1>10 DEF Copier, Feeder, NodeSetup, VivSetup
    <3> QED
      BY <1>1, <2>1, <3>1, <3>2, <3>3, KindFacts
  <2> QED
    BY <1>5, <1>10, <2>1, <2>2, <2>3 DEF Accepts
<1>11. CASE c \notin {"backend", "fmtOut", "fmtCap", "fmtViv", "reqUser", "reqOut", "reqOne",
                      "mapOut", "mapCap", "export"}
  <2>1. c \in {"open", "openViv", "onOut", "onCap", "onViv", "mapViv", "mapSlots", "heap",
               "ctrl", "csv", "tryMeta"}
    BY <1>1, <1>11 DEF SetupNames, NodeSetup, VivSetup
  <2> QED
    BY <2>1 DEF Accepts
<1> QED
  BY <1>6, <1>7, <1>8, <1>9, <1>10, <1>11

LEMMA WelcomeQueues ==
  ASSUME Inv, Granted, Mine, Live, ~Short, NEW c, At(c), c \in {"qCaps", "qCap0", "qVivs"}
  PROVE  Accepts(c)
<1>1. /\ Kind(Prog) /\ c \in Calls(Prog.setup) /\ node \in NodeType /\ viv \in VivType
      /\ Phase = "setup"
  BY Where, Kept DEF Phases, LoopCalls, Quits, OtherTypes
<1>2. \A x \in Calls(Prog.setup) :
        /\ Stage(x) < Stage(c) => Ready(me, Prog, x)
        /\ Ready(me, Prog, x) => Stage(x) <= Stage(c) /\ x # c
  BY <1>1, SetupAt
<1>3. Stage(c) = 7
  BY StageOf
<1>4. CASE c \in {"qCaps", "qCap0"}
  <2>1. HasNode(Prog)
    BY <1>4, NodeCalls
  <2>2. "mapCap" \in Calls(Prog.setup)
    BY <1>1, <2>1, KindSetup
  <2>3. node.n.CAP = N
    BY <1>2, <1>3, <2>1, <2>2, StageOf, FullGrant
  <2>4. ASSUME NEW x \in Calls(Prog.setup) \cap {"qCaps", "qCap0"} PROVE x = c
    <3>1. Runner(Prog) => "qCap0" \notin Calls(Prog.setup)
      BY DEF Runner, NodeSetup
    <3>2. Copier(Prog) => "qCap0" \notin Calls(Prog.setup)
      BY DEF Copier, NodeSetup, VivSetup
    <3>3. Bench(Prog) => "qCap0" \notin Calls(Prog.setup)
      BY DEF Bench, NodeSetup
    <3>4. Feeder(Prog) => "qCaps" \notin Calls(Prog.setup)
      BY DEF Feeder, NodeSetup
    <3> QED
      BY <1>1, <1>4, <2>1, <2>4, <3>1, <3>2, <3>3, <3>4, KindFacts
  <2>5. Unqueued(me, Prog)
    BY <1>2, <2>4 DEF Unqueued
  <2>6. Len(node.capQ) = 0 /\ Len(node.capDone) = 0
    BY <2>1, <2>5 DEF Mine
  <2>7. Len(Box(node.capQ)) = 0
    BY <2>6, Boxes
  <2>8. \A i : Free(Box(node.capQ), node.capDone, i)
    BY <2>6, <2>7, NotInNone DEF Free
  <2>9. \A i \in Idx : i < node.n.CAP
    BY <2>3, Constants DEF Idx
  <2>10. \A i \in Idx : MineCap(i)
    BY <2>8, <2>9, FreeMineCap
  <2> QED
    BY <1>4, <2>10, Constants DEF Accepts
<1>5. CASE c = "qVivs"
  <2>1. HasViv(Prog)
    BY <1>5, CameraCalls
  <2>2. PICK x \in VivRequests : x \in Calls(Prog.setup)
    BY <1>1, <2>1, KindSetup
  <2>3. Stage(x) = 5
    BY <2>2, StageOf DEF VivRequests
  <2>4. viv.n = N
    BY <1>2, <1>3, <2>1, <2>2, <2>3, FullGrant
  <2>5. ~Ready(me, Prog, "qVivs")
    BY <1>1, <1>2, <1>5
  <2>6. Len(viv.q) = 0 /\ Len(viv.done) = 0
    BY <2>1, <2>5 DEF Mine
  <2>7. DOMAIN viv.q = 1 .. Len(viv.q) /\ DOMAIN viv.done = 1 .. Len(viv.done)
    BY <1>1, SeqFacts DEF VivType
  <2>8. Held(viv.q, viv.done) = {}
    BY <2>6, <2>7 DEF Held
  <2>9. \A i \in Idx : i < viv.n
    BY <2>4, Constants DEF Idx
  <2> QED
    BY <1>5, <2>8, <2>9 DEF Accepts, MineViv
<1> QED
  BY <1>4, <1>5

(* A frame is submitted in a buffer the tool has an index for. *)
LEMMA IndexInRange ==
  ASSUME Inv, Counters, Granted, Live, ~Short, At("submit")
  PROVE  OutIndex \in Idx /\ OutIndex < node.n.OUT
<1>1. /\ HasNode(Prog) /\ Kind(Prog) /\ Plan(Prog) /\ me.i \in Nat /\ me.sent \in Nat
      /\ Phase \in {"setup", "fill", "loop"} /\ N \in Nat /\ N >= 2
  BY SubmitNode, SubmitCall, Constants
<1>2. PICK x \in Requests("OUT") : x \in Calls(Prog.setup)
  BY <1>1, KindSetup
<1>3. Ready(me, Prog, x)
  <2>1. CASE Phase = "setup"
    <3>1. Stage(x) = 5 /\ Stage("submit") = 8
      BY StageOf DEF Requests
    <3> QED
      BY <1>2, <2>1, <3>1, SetupAt
  <2>2. CASE Phase # "setup"
    BY <2>2 DEF Ready, Phase
  <2> QED
    BY <2>1, <2>2
<1>4. /\ node.n.OUT \in 2 .. N
      /\ Prog.mem \in {"own", "heap", "viv"} => node.n.OUT = N
  BY <1>1, <1>2, <1>3, FullGrant
<1>5. cur.out \in Idx /\ cur.viv.idx \in Idx /\ 0 \in Idx
  BY Kept, Constants DEF ProgTypes, CurType, FillType
<1>6. me.i % N \in Idx
  BY <1>1, RingSlots DEF Idx
<1>7. Phase = "fill" => me.sent \in Idx
  <2>1. Phase = "fill" => me.sent < Prog.depth
    BY DEF Counters
  <2>2. Phase = "fill" => Runner(Prog)
    <3>1. Phase = "fill" => Prog.depth # 0
      BY Where DEF Placed, Phase
    <3> QED
      BY <1>1, <3>1, KindFacts
  <2>3. Runner(Prog) => Prog.depth \in 1 .. N
    BY <1>1, KindFacts
  <2> QED
    BY <1>1, <2>1, <2>2, <2>3 DEF Idx
<1>8. OutIndex \in Idx
  BY <1>1, <1>5, <1>6, <1>7 DEF OutIndex, Plan
<1>9. Prog.mem = "surface" => OutIndex = 0
  <2>1. Prog.mem = "surface" => Prog.index \in {"dequeued", "zero"}
    <3>1. Runner(Prog) => Prog.index = "dequeued"
      BY DEF Runner
    <3>2. Copier(Prog) => Prog.mem # "surface"
      BY DEF Copier
    <3>3. Bench(Prog) => (Prog.mem = "surface" => Prog.index = "zero")
      BY DEF Bench
    <3>4. Feeder(Prog) => Prog.mem # "surface"
      BY DEF Feeder
    <3> QED
      BY <1>1, <3>1, <3>2, <3>3, <3>4, KindFacts
  <2> QED
    BY <2>1 DEF OutIndex
<1>10. OutIndex < node.n.OUT
  <2>1. CASE Prog.mem = "surface"
    BY <1>1, <1>4, <1>9, <2>1
  <2>2. CASE Prog.mem # "surface"
    <3>1. node.n.OUT = N
      BY <1>1, <1>4, <2>2, KindMem
    <3> QED
      BY <1>1, <1>8, <3>1 DEF Idx
  <2> QED
    BY <2>1, <2>2
<1> QED
  BY <1>8, <1>10

(* All but the runner's MMAP mode have one OUTPUT buffer under way: it is  *)
(* back when the next frame is submitted.                                  *)
LEMMA OutputsBack ==
  ASSUME Inv, Counters, Flight, Balance, Live, At("submit"),
         ~Runner(Prog) \/ Prog.mem = "surface"
  PROVE  Len(node.outQ) = 0 /\ Len(node.outDone) = 0
<1>1. /\ HasNode(Prog) /\ Kind(Prog) /\ me.i \in Nat /\ me \in MeType
      /\ Phase \in {"setup", "fill", "loop"}
  BY SubmitNode, SubmitCall, Where
<1>2. Len(node.outQ) = 0 /\ Len(node.capDone) = 0
  BY <1>1, Handover
<1>3. Taken(me, Prog) = Done(me, Prog, "dqCap")
  <2>1. CASE Phase = "loop"
    <3>1. "submit" \in Calls(Prog.loop)
      BY <2>1, Where
    <3>2. Runner(Prog) \/ Copier(Prog) \/ Bench(Prog)
      BY <1>1, <3>1, KindFacts
    <3>3. "dqOut" \in Calls(Prog.loop) /\ "dqCap" \in Calls(Prog.loop)
      BY <3>2 DEF Runner, Copier, Bench
    <3>4. Past(me, Prog, "dqOut") <=> Past(me, Prog, "dqCap")
      BY <2>1, <3>3, RunnerPast, OtherPast
    <3> QED
      BY <3>3, <3>4 DEF Taken, Done
  <2>2. CASE Phase # "loop"
    <3>1. me.i = 0
      BY <1>1, <2>2, Where DEF Counters, Placed, Phase
    <3>2. \A x : ~Past(me, Prog, x)
      BY <2>2 DEF Past, Phase
    <3> QED
      BY <3>1, <3>2 DEF Taken, Done
  <2> QED
    BY <2>1, <2>2
<1>4. Done(me, Prog, "dqCap") \in Nat
  BY <1>1, DoneType1
<1>5. Len(node.outDone) \in Nat
  BY Kept, SeqFacts DEF NodeType
<1>6. PICK t, d : t = Taken(me, Prog) /\ d = Len(node.outDone)
  OBVIOUS
<1>7. t + d = t + 0 /\ t \in Nat /\ d \in Nat
  BY <1>1, <1>2, <1>3, <1>4, <1>5, <1>6 DEF Balance
<1>8. d = 0
  BY ONLY <1>7
<1> QED
  BY <1>2, <1>6, <1>8

LEMMA WelcomeSubmit ==
  ASSUME Inv, Counters, Flight, Granted, Balance, Mine, Live, ~Short, At("submit")
  PROVE  Accepts("submit")
<1>1. OutIndex \in Idx /\ OutIndex < node.n.OUT
  BY IndexInRange
<1>2. /\ HasNode(Prog) /\ Kind(Prog) /\ Phase \in {"setup", "fill", "loop"}
  BY SubmitNode, SubmitCall
<1>3. Free(node.outQ, node.outDone, OutIndex)
  <2>1. CASE ~Runner(Prog) \/ Prog.mem = "surface"
    BY <2>1, OutputsBack, NotInNone DEF Free
  <2>2. CASE Runner(Prog) /\ Prog.mem # "surface"
    <3>1. Prog.mem = "own" /\ Prog.index = "dequeued"
      BY <2>2 DEF Runner
    <3>2. CASE Phase = "fill"
      <4>1. OutIndex = me.sent
        BY <3>1, <3>2 DEF OutIndex
      <4>2. Below(node.outQ, me.sent) /\ Below(node.outDone, me.sent)
        BY <3>1, <3>2 DEF Mine
      <4>3. \A k \in 1 .. Len(node.outQ) : node.outQ[k].idx < me.sent
        BY <4>2 DEF Below
      <4>4. \A k \in 1 .. Len(node.outDone) : node.outDone[k].idx < me.sent
        BY <4>2 DEF Below
      <4>5. \A a : ~(a < me.sent /\ a = me.sent)
        BY SubmitCall
      <4> QED
        BY <4>1, <4>3, <4>4, <4>5 DEF Free, NotIn
    <3>3. CASE Phase = "loop"
      <4>1. "dqOut" \in Calls(Prog.loop)
        BY <2>2 DEF Runner
      <4>2. Past(me, Prog, "dqOut")
        BY <2>2, <3>3, <4>1, RunnerPast
      <4>3. OutIndex = cur.out
        BY <3>1, <3>3 DEF OutIndex
      <4> QED
        BY <1>2, <2>2, <4>2, <4>3 DEF Mine
    <3>4. Phase # "setup"
      <4>1. Phase = "setup" => "submit" \in Calls(Prog.setup)
        BY Where
      <4> QED
        BY <1>2, <2>2, <4>1, KindFacts DEF Feeder, Runner
    <3> QED
      BY <1>2, <3>2, <3>3, <3>4
  <2> QED
    BY <2>1, <2>2
<1>4. /\ DOMAIN node.outQ = 1 .. Len(node.outQ)
      /\ DOMAIN node.outDone = 1 .. Len(node.outDone)
  BY Kept, SeqFacts DEF NodeType
<1>5. MineOut(OutIndex)
  BY <1>1, <1>3, <1>4 DEF MineOut, Held, Free, NotIn
<1> QED
  BY <1>5 DEF Accepts

LEMMA WelcomeLoop ==
  ASSUME Inv, Granted, Mine, Addresses, Live, ~Short, NEW c, At(c),
         Phase \in {"loop", "after"}, c # "submit"
  PROVE  Accepts(c)
<1>1. /\ Kind(Prog) /\ node \in NodeType /\ viv \in VivType /\ me.runs # << >>
      /\ Phase = "loop" => c \in Calls(Prog.loop) /\ c \in LoopCalls
      /\ Phase = "after" => c \in {"export", "verify"}
      /\ N \in Nat /\ N >= 2
  BY Where, Kept, Constants DEF OtherTypes
<1>2. \A x : Ready(me, Prog, x)
  BY DEF Ready, Phase
<1>3. cur.cap.idx \in Idx /\ cur.viv.idx \in Idx
  BY Kept DEF ProgTypes, CurType, CapType, FillType
<1>4. \A i \in Idx : i < N
  BY <1>1 DEF Idx
<1>5. CASE c = "dqCap"
  BY <1>2, <1>5, NodeCalls DEF Granted, Accepts
<1>6. CASE c = "dqOut"
  BY <1>2, <1>6, NodeCalls DEF Granted, Accepts
<1>7. CASE c = "dqViv"
  BY <1>2, <1>7, CameraCalls DEF Granted, Accepts
<1>8. CASE c = "qCap"
  <2>1. HasNode(Prog) /\ Phase = "loop"
    BY <1>1, <1>8, NodeCalls
  <2>2. Past(me, Prog, "dqCap") /\ ~Past(me, Prog, "qCap")
    <3>1. "dqCap" \in Calls(Prog.loop) /\ "qCap" \in Calls(Prog.loop)
      BY <1>1, <1>8, <2>1 DEF HasNode
    <3> QED
      BY <1>8, <2>1, <3>1, RunnerPast, OtherPast
  <2>3. Free(Box(node.capQ), node.capDone, cur.cap.idx)
    BY <2>1, <2>2 DEF Mine
  <2>4. node.n.CAP = N
    BY <1>2, <2>1, FullGrant
  <2>5. MineCap(cur.cap.idx)
    BY <1>3, <1>4, <2>3, <2>4, FreeMineCap
  <2> QED
    BY <1>8, <2>5 DEF Accepts
<1>9. CASE c = "qViv"
  <2>1. HasViv(Prog) /\ Phase = "loop"
    BY <1>1, <1>9, CameraCalls
  <2>2. Past(me, Prog, "dqViv")
    <3>1. "dqViv" \in Calls(Prog.loop) /\ ~Runner(Prog)
      BY <1>1, <2>1, KindFacts DEF HasViv, Runner
    <3> QED
      BY <1>9, <2>1, <3>1, OtherPast
  <2>3. Free(viv.q, viv.done, cur.viv.idx)
    BY <2>1, <2>2 DEF Mine
  <2>4. PICK x \in VivRequests : x \in Calls(Prog.setup)
    BY <1>1, <2>1, KindSetup
  <2>5. viv.n = N
    BY <1>2, <2>1, <2>4, FullGrant
  <2>6. DOMAIN viv.q = 1 .. Len(viv.q) /\ DOMAIN viv.done = 1 .. Len(viv.done)
    BY <1>1, SeqFacts DEF VivType
  <2>7. MineViv(cur.viv.idx)
    BY <1>3, <1>4, <2>3, <2>5, <2>6 DEF MineViv, Held, Free, NotIn
  <2> QED
    BY <1>9, <2>7 DEF Accepts
<1>10. CASE c = "row"
  <2>1. HasViv(Prog) => CurViv(me, Prog)
    BY <1>10, AtRow
  <2>2. cur.viv.addr = slot.addr[cur.viv.idx]
    BY <1>1, <1>3, <2>1 DEF Addresses
  <2> QED
    BY <1>3, <1>4, <1>10, <2>2 DEF Accepts
<1>11. CASE c = "export"
  <2>1. HasNode(Prog) /\ Phase = "after"
    BY <1>1, <1>11, NodeCalls DEF LoopCalls
  <2>2. Prog.after # << >>
    BY <2>1, Where DEF Placed, Phase
  <2>3. Prog.backend = "VCAM"
    BY <1>1, <2>2 DEF Kind, Runner, Copier, Bench, Feeder, Camera, Bare
  <2> QED
    BY <1>2, <1>11, <2>1, <2>3 DEF Granted, Accepts
<1>12. CASE c \in {"seqCtrl", "readMeta", "remap", "verify"}
  BY <1>12 DEF Accepts
<1> QED
  BY <1>1, <1>5, <1>6, <1>7, <1>8, <1>9, <1>10, <1>11, <1>12 DEF LoopCalls

(* Every call the tools make before they clean up. *)
LEMMA Welcome ==
  ASSUME Inv, Counters, Flight, Granted, Balance, Mine, Addresses, Live, ~Short,
         NEW c, At(c)
  PROVE  Accepts(c)
<1>1. Phase \in {"setup", "fill", "loop", "after"} /\ (Phase = "fill" => c = "submit")
  BY Where DEF Live, Phases
<1>2. CASE c = "submit"
  BY <1>2, WelcomeSubmit
<1>3. CASE c \in {"qCaps", "qCap0", "qVivs"}
  BY <1>3, WelcomeQueues
<1>4. CASE c \notin {"submit", "qCaps", "qCap0", "qVivs"} /\ Phase = "setup"
  BY <1>4, WelcomeSetup
<1>5. CASE c # "submit" /\ Phase \in {"loop", "after"}
  BY <1>5, WelcomeLoop
<1> QED
  BY <1>1, <1>2, <1>3, <1>4, <1>5

Frame5 == Granted /\ Balance /\ Soles /\ Mine /\ Addresses

LEMMA Frame5Init == Init => Frame5
<1> SUFFICES ASSUME Init PROVE Frame5
  OBVIOUS
<1>1. /\ Len(node.outQ) = 0 /\ Len(node.capDone) = 0 /\ Len(node.outDone) = 0
      /\ Len(node.capQ) = 0 /\ Len(viv.q) = 0 /\ Len(viv.done) = 0
      /\ me.pc = <<"setup", 1>> /\ me.i = 0 /\ Phase = "setup"
      /\ node.on = {} /\ node.n.OUT = 0 /\ node.n.CAP = 0 /\ viv.n = 0
  BY FirstState DEF ClosedNode, ClosedViv
<1>2. \A k \in 1 .. 0 : FALSE
  OBVIOUS
<1>3. \A x : ~Past(me, Prog, x) /\ ~Ready(me, Prog, x)
  <2>1. \A z, C : ~Called(z, 1, C)
    BY CalledNone
  <2> QED
    BY <1>1, <2>1 DEF Past, Ready
<1>4. Granted
  BY <1>1, <1>3 DEF Granted
<1>5. Balance
  <2>1. Taken(me, Prog) = 0 /\ Done(me, Prog, "dqCap") = 0
    BY <1>1, <1>3 DEF Taken, Done
  <2> QED
    BY <1>1, <2>1 DEF Balance
<1>6. Soles
  <2>1. Len(Box(node.capQ)) = 0
    BY <1>1, Boxes
  <2> QED
    BY <1>1, <1>2, <2>1 DEF Soles, Solo, Distinct
<1>7. Mine
  BY <1>1, <1>3 DEF Mine
<1>8. Addresses
  <2>1. cur.viv.addr = 0
    BY FirstState DEF Fresh, NoFill
  <2>2. \A z \in Idx : slot.addr[z] = 0
    BY DEF Init
  <2> QED
    BY <1>1, <1>2, <1>3, <2>1, <2>2 DEF Addresses, Addressed, CurViv
<1> QED
  BY <1>4, <1>5, <1>6, <1>7, <1>8 DEF Frame5

LEMMA Frame5Next ==
  Inv /\ Inv' /\ [Next]_vars /\ Frame1 /\ Frame1' /\ Frame5 => Frame5'
<1> SUFFICES ASSUME Inv, Inv', [Next]_vars, Frame1, Frame1', Frame5 PROVE Frame5'
  OBVIOUS
<1>1. /\ Way /\ Counters /\ Flight /\ Counters' /\ Flight'
      /\ Granted /\ Balance /\ Soles /\ Mine /\ Addresses
  BY Ways DEF Frame1, Frame5
<1>2. Granted' /\ Balance' /\ Soles'
  BY <1>1, GrantedNext, BalanceNext, SolesNext
<1>3. Mine' /\ Addresses'
  BY <1>1, <1>2, MineNext, AddressesNext
<1> QED
  BY <1>2, <1>3 DEF Frame5

LEMMA Frame5Holds == Spec => []Frame5
  BY FrameHolds, Frame5Init, Frame5Next, PTL DEF Spec

(* Only a refused call makes a tool give up as refused. *)
LEMMA GivesReason ==
  ASSUME Inv, [Next]_vars, me.why = "none", me'.why = "refused"
  PROVE  Refused
<1>1. me \in MeType
  BY DEF Inv, Types
<1>2. \A s : ~Advance(s)
  <2>1. ASSUME NEW s, Advance(s) PROVE FALSE
    <3>1. \E a, b, c : me' = [me EXCEPT !.sent = a, !.i = b, !.pc = c]
      BY <2>1 DEF Advance
    <3> QED
      BY <1>1, <3>1 DEF MeType
  <2> QED
    BY <2>1
<1>3. \A w : GiveUp(w) => w = "refused"
  BY <1>1 DEF GiveUp, MeType
<1>4. ~NextRun
  <2>1. NextRun => me'.why = me.why \/ me'.why = "none"
    BY <1>1 DEF NextRun, MeType
  <2> QED
    BY <2>1
<1>5. ~Remap
  <2>1. Remap => \E a \in FreeAddrs(cur.viv.idx) : a = slot.addr[cur.viv.idx]
    BY <1>2 DEF Remap
  <2>2. cur.viv.idx \in Idx
    BY Kept DEF ProgTypes, CurType, FillType
  <2> QED
    BY <2>1, <2>2 DEF FreeAddrs
<1>6. ~Verify
  BY <1>2, <1>3 DEF Verify
<1>7. ~Fails /\ ~Killed /\ ~Crashes
  <2>1. Dies => me'.why = "killed"
    BY <1>1 DEF Dies, MeType
  <2> QED
    BY <1>3, <2>1 DEF Fails, Killed, Crashes
<1>8. ~Close /\ ~CloseViv
  BY <1>2, <1>4 DEF Close, CloseViv
<1>9. ~DrainFails
  BY <1>1 DEF DrainFails, MeType
<1>10. ~(\/ OpenNode \/ Plain \/ SetFormat \/ RequestBuffers \/ FillHeap \/ OpenMeta
         \/ QueueCaptures \/ StreamOn \/ Export \/ Submit \/ SubmitNone \/ SetSequence)
  BY <1>2 DEF OpenNode, Plain, SetFormat, RequestBuffers, FillHeap, OpenMeta,
     QueueCaptures, StreamOn, Export, Submit, SubmitNone, SetSequence
<1>11. ~(\/ DequeueCapture \/ DequeueOutput \/ ReadMeta \/ WriteRow \/ RequeueCapture
         \/ OpenViv \/ RequestViv \/ MapSlots \/ QueueSlots \/ RequeueViv)
  BY <1>2 DEF DequeueCapture, DequeueOutput, ReadMeta, WriteRow, RequeueCapture,
     OpenViv, RequestViv, MapSlots, QueueSlots, RequeueViv
<1>12. ~(\/ StreamOnViv \/ DequeueViv \/ StopOutput \/ StopCapture \/ StopViv \/ CloseMeta)
  BY <1>2 DEF StreamOnViv, DequeueViv, StopOutput, StopCapture, StopViv, CloseMeta
<1>13. ~(\/ RunJob \/ VividFill \/ VividSkip \/ PublishForeign \/ DrainOpen \/ DrainRead
         \/ UNCHANGED vars)
  BY DEF RunJob, VividFill, VividSkip, PublishForeign, DrainOpen, DrainRead, vars
<1> QED
  BY <1>5, <1>6, <1>7, <1>8, <1>9, <1>10, <1>11, <1>12, <1>13 DEF Next, Program

LEMMA RefusedShort ==
  Inv /\ Frame1 /\ Frame5 /\ [Next]_vars
    => (me.why = "none" /\ me'.why = "refused" => Short)
<1> SUFFICES ASSUME Inv, Frame1, Frame5, [Next]_vars, me.why = "none", me'.why = "refused",
                    ~Short
             PROVE  FALSE
  OBVIOUS
<1>1. Refused
  BY GivesReason
<1>2. PICK c : At(c) /\ ~Accepts(c) /\ Phase # "cleanup"
  BY <1>1 DEF Refused
<1>3. Live
  BY <1>2 DEF Live, At, Exited
<1>4. Counters /\ Flight /\ Granted /\ Balance /\ Mine /\ Addresses
  BY DEF Frame1, Frame5
<1> QED
  BY <1>2, <1>3, <1>4, Welcome

(* The tools call the devices in an order the devices accept: formats      *)
(* before buffers, QBUF only of an index that is with the program, DQBUF   *)
(* after STREAMON, the export after the source has been started, a row of  *)
(* records at an index in range.  For any number of buffers and frames,    *)
(* and whatever the devices do in between, a call is refused only after a  *)
(* REQBUFS that granted less than the tool asked for.                      *)
THEOREM NeverRefusedHolds == Spec => NeverRefused
<1>1. Spec => [][me.why = "none" /\ me'.why = "refused" => Short]_vars
  BY FrameHolds, Frame5Holds, RefusedShort, PTL DEF Spec
<1> QED
  BY <1>1 DEF NeverRefused
=============================================================================
