---------------------------- MODULE ToolsProofs ----------------------------
(***************************************************************************)
(* Theorems about Tools, for any number of buffers, frames, failing jobs,  *)
(* skipped frames and rows of other contexts, and for every program.       *)
(***************************************************************************)
EXTENDS Tools, Integers, FiniteSetTheorems, TLAPS

(* What the proofs need to know of the order of a program's calls. *)
Queues == {"OUT", "CAP"}
Formats == {"open", "fmtOut", "fmtCap"}
Requests(t) == IF t = "OUT" THEN {"mapOut", "reqOut", "reqOne"} ELSE {"mapCap"}
OnCall(t) == IF t = "OUT" THEN "onOut" ELSE "onCap"
Prepares == Formats \cup Requests("OUT") \cup Requests("CAP") \cup {"onOut", "onCap"}
Closes == {"close", "closeViv"}

Calls(s) == {s[k] : k \in 1 .. Len(s)}
Once(s, c) == \A j, k \in 1 .. Len(s) : s[j] = c /\ s[k] = c => j = k
List(s) == Len(s) \in Nat \ {0} /\ DOMAIN s = 1 .. Len(s)

(* Formats are set before buffers are requested, buffers are requested     *)
(* before their queue is started, and the node is opened once, first but   *)
(* for the camera.                                                         *)
SetupPlan(s) ==
  /\ List(s) /\ Once(s, "submit") /\ \A k \in 1 .. Len(s) : s[k] \notin Closes
  /\ \A j, k \in 1 .. Len(s) : \A t \in Queues :
       s[j] \in Formats /\ s[k] \in Requests(t) => j < k
  /\ \A k \in 1 .. Len(s) : \A t \in Queues :
       s[k] = OnCall(t) => \E j \in 1 .. k - 1 : s[j] \in Requests(t)
  /\ \A j, k \in 1 .. Len(s) : s[k] = "open" /\ j < k => s[j] = "openViv"
LoopPlan(s) ==
  /\ List(s) /\ Once(s, "submit")
  /\ \A k \in 1 .. Len(s) : s[k] \notin Prepares \cup Closes
(* The program closes its files last. *)
CleanupPlan(s) ==
  /\ List(s) /\ s[Len(s)] \in Closes
  /\ \A k \in 1 .. Len(s) : s[k] \notin Prepares \cup {"submit"}
  /\ \A k \in 1 .. Len(s) : s[k] = "closeViv" => k = Len(s)
StopsFirst(s) ==
  \A k \in 1 .. Len(s) : s[k] = "close" => \E j \in 1 .. k - 1 : s[j] = "offOut"
AfterPlan(s) ==
  s # << >> => /\ List(s)
               /\ \A k \in 1 .. Len(s) : s[k] \notin Prepares \cup Closes \cup {"submit"}
-----------------------------------------------------------------------------
LEMMA SetupPlans ==
  /\ SetupPlan(RunSetup("mapOut")) /\ SetupPlan(RunSetup("reqOne"))
  /\ SetupPlan(CaptureM2MSetup(TRUE)) /\ SetupPlan(CaptureM2MSetup(FALSE))
  /\ SetupPlan(CaptureDmabufSetup) /\ SetupPlan(BenchFixtureSetup)
  /\ SetupPlan(VcamBenchSetup) /\ SetupPlan(DmabufBenchSetup)
  /\ SetupPlan(DmabufTestSetup) /\ SetupPlan(FixtureFeedSetup)
  /\ SetupPlan(CaptureMmapSetup) /\ SetupPlan(UserptrSetup)
<1> USE DEF SetupPlan, List, Once, Closes, Queues, Formats, Requests, OnCall
<1>1. ASSUME NEW z, z = RunSetup("mapOut") PROVE SetupPlan(z)
  BY <1>1 DEF RunSetup
<1>2. ASSUME NEW z, z = RunSetup("reqOne") PROVE SetupPlan(z)
  BY <1>2 DEF RunSetup
<1>3. ASSUME NEW z, z = CaptureM2MSetup(TRUE) PROVE SetupPlan(z)
  BY <1>3 DEF CaptureM2MSetup
<1>4. ASSUME NEW z, z = CaptureM2MSetup(FALSE) PROVE SetupPlan(z)
  BY <1>4 DEF CaptureM2MSetup
<1>5. ASSUME NEW z, z = CaptureDmabufSetup PROVE SetupPlan(z)
  BY <1>5 DEF CaptureDmabufSetup
<1>6. ASSUME NEW z, z = BenchFixtureSetup PROVE SetupPlan(z)
  BY <1>6 DEF BenchFixtureSetup
<1>7. ASSUME NEW z, z = VcamBenchSetup PROVE SetupPlan(z)
  BY <1>7 DEF VcamBenchSetup
<1>8. ASSUME NEW z, z = DmabufBenchSetup PROVE SetupPlan(z)
  BY <1>8 DEF DmabufBenchSetup
<1>9. ASSUME NEW z, z = DmabufTestSetup PROVE SetupPlan(z)
  BY <1>9 DEF DmabufTestSetup
<1>10. ASSUME NEW z, z = FixtureFeedSetup PROVE SetupPlan(z)
  BY <1>10 DEF FixtureFeedSetup
<1>11. ASSUME NEW z, z = CaptureMmapSetup PROVE SetupPlan(z)
  BY <1>11 DEF CaptureMmapSetup
<1>12. ASSUME NEW z, z = UserptrSetup PROVE SetupPlan(z)
  BY <1>12 DEF UserptrSetup
<1> HIDE DEF SetupPlan
<1> QED
  BY ONLY <1>1, <1>2, <1>3, <1>4, <1>5, <1>6, <1>7, <1>8, <1>9, <1>10, <1>11, <1>12
LEMMA LoopPlans ==
  /\ LoopPlan(RunLoop) /\ LoopPlan(CaptureM2MLoop) /\ LoopPlan(CaptureDmabufLoop)
  /\ LoopPlan(BenchFixtureLoop) /\ LoopPlan(VcamBenchLoop)
  /\ LoopPlan(DmabufBenchLoop) /\ LoopPlan(DmabufTestLoop)
  /\ LoopPlan(FixtureFeedLoop) /\ LoopPlan(CaptureMmapLoop)
  /\ LoopPlan(UserptrLoop(TRUE)) /\ LoopPlan(UserptrLoop(FALSE))
<1> USE DEF LoopPlan, List, Once, Prepares, Closes, Formats, Requests
<1>1. ASSUME NEW z, z = RunLoop PROVE LoopPlan(z)
  BY <1>1 DEF RunLoop
<1>2. ASSUME NEW z, z = CaptureM2MLoop PROVE LoopPlan(z)
  BY <1>2 DEF CaptureM2MLoop
<1>3. ASSUME NEW z, z = CaptureDmabufLoop PROVE LoopPlan(z)
  BY <1>3 DEF CaptureDmabufLoop
<1>4. ASSUME NEW z, z = BenchFixtureLoop PROVE LoopPlan(z)
  BY <1>4 DEF BenchFixtureLoop
<1>5. ASSUME NEW z, z = VcamBenchLoop PROVE LoopPlan(z)
  BY <1>5 DEF VcamBenchLoop
<1>6. ASSUME NEW z, z = DmabufBenchLoop PROVE LoopPlan(z)
  BY <1>6 DEF DmabufBenchLoop
<1>7. ASSUME NEW z, z = DmabufTestLoop PROVE LoopPlan(z)
  BY <1>7 DEF DmabufTestLoop
<1>8. ASSUME NEW z, z = FixtureFeedLoop PROVE LoopPlan(z)
  BY <1>8 DEF FixtureFeedLoop
<1>9. ASSUME NEW z, z = CaptureMmapLoop PROVE LoopPlan(z)
  BY <1>9 DEF CaptureMmapLoop
<1>10. ASSUME NEW z, z = UserptrLoop(TRUE) PROVE LoopPlan(z)
  BY <1>10 DEF UserptrLoop
<1>11. ASSUME NEW z, z = UserptrLoop(FALSE) PROVE LoopPlan(z)
  BY <1>11 DEF UserptrLoop, CaptureMmapLoop
<1> HIDE DEF LoopPlan
<1> QED
  BY ONLY <1>1, <1>2, <1>3, <1>4, <1>5, <1>6, <1>7, <1>8, <1>9, <1>10, <1>11

LEMMA CleanupPlans ==
  /\ \A z \in {RunCleanup, CaptureM2MCleanup, CaptureDmabufCleanup,
               BenchFixtureCleanup, VcamBenchCleanup, DmabufBenchCleanup,
               DmabufTestCleanup, CaptureMmapCleanup, UserptrCleanup} :
       CleanupPlan(z) /\ StopsFirst(z)
  /\ CleanupPlan(FixtureFeedCleanup)
  /\ \A k \in 1 .. Len(RunCleanup) : RunCleanup[k] # "closeViv"
<1> USE DEF CleanupPlan, StopsFirst, List, Prepares, Closes, Formats, Requests
<1>1. ASSUME NEW z, z = RunCleanup PROVE CleanupPlan(z) /\ StopsFirst(z)
  BY <1>1 DEF RunCleanup
<1>2. ASSUME NEW z, z = CaptureM2MCleanup PROVE CleanupPlan(z) /\ StopsFirst(z)
  BY <1>2 DEF CaptureM2MCleanup
<1>3. ASSUME NEW z, z = BenchFixtureCleanup PROVE CleanupPlan(z) /\ StopsFirst(z)
  BY <1>3 DEF BenchFixtureCleanup
<1>4. ASSUME NEW z, z = CaptureMmapCleanup PROVE CleanupPlan(z) /\ StopsFirst(z)
  BY <1>4 DEF CaptureMmapCleanup
<1>5. ASSUME NEW z, z = UserptrCleanup PROVE CleanupPlan(z) /\ StopsFirst(z)
  BY <1>5 DEF UserptrCleanup
<1>6. ASSUME NEW z, z = FixtureFeedCleanup PROVE CleanupPlan(z)
  BY <1>6 DEF FixtureFeedCleanup
<1>7. \A k \in 1 .. Len(RunCleanup) : RunCleanup[k] # "closeViv"
  BY DEF RunCleanup
<1>8. /\ CaptureDmabufCleanup = CaptureM2MCleanup
      /\ VcamBenchCleanup = BenchFixtureCleanup
      /\ DmabufBenchCleanup = BenchFixtureCleanup
      /\ DmabufTestCleanup = BenchFixtureCleanup
  BY DEF CaptureM2MCleanup, CaptureDmabufCleanup, BenchFixtureCleanup,
         VcamBenchCleanup, DmabufBenchCleanup, DmabufTestCleanup
<1> HIDE DEF CleanupPlan, StopsFirst
<1> QED
  BY ONLY <1>1, <1>2, <1>3, <1>4, <1>5, <1>6, <1>7, <1>8

LEMMA AfterPlans == AfterPlan(<< >>) /\ AfterPlan(DmabufTestVerify)
<1>1. ASSUME NEW z, z = DmabufTestVerify PROVE AfterPlan(z)
  BY <1>1 DEF AfterPlan, DmabufTestVerify, List, Prepares, Closes, Formats, Requests
<1> QED
  BY <1>1 DEF AfterPlan
-----------------------------------------------------------------------------
(* The parts of a program, and what each program is. *)
Part(g, ph) ==
  CASE ph = "setup" -> g.setup [] ph = "fill" -> <<"submit">>
    [] ph = "loop" -> g.loop [] ph = "after" -> g.after
    [] ph = "cleanup" -> g.cleanup

Submits1(s) == "submit" \in Calls(s)
Plan(g) ==
  /\ SetupPlan(g.setup) /\ LoopPlan(g.loop) /\ AfterPlan(g.after)
  /\ CleanupPlan(g.cleanup)
  /\ g.depth \in Nat /\ g.frames \in 1 .. Frames
  /\ g.mem \in {"own", "viv", "heap", "surface"}
  /\ g.index \in {"dequeued", "camera", "modulo", "zero"}
  /\ g.depth = 0 /\ Submits1(g.setup) => ~Submits1(g.loop)

Names ==
  {"run", "runFixture", "runOne", "runDmabuf", "m2mCopy", "m2mDmabuf",
   "captureDmabuf", "benchFixture", "vcamBench", "dmabufBench", "dmabufTest",
   "fixtureFeed", "captureMmap", "userptrReset", "userptrNoreset"}

LEMMA NoSubmit ==
  /\ \A z \in {CaptureM2MSetup(TRUE), CaptureM2MSetup(FALSE), CaptureDmabufSetup,
               BenchFixtureSetup, VcamBenchSetup, DmabufBenchSetup,
               DmabufTestSetup, CaptureMmapSetup, UserptrSetup} : ~Submits1(z)
  /\ ~Submits1(FixtureFeedLoop)
<1> USE DEF Submits1, Calls
<1>1. ASSUME NEW z, z = CaptureM2MSetup(TRUE) PROVE ~Submits1(z)
  BY <1>1 DEF CaptureM2MSetup
<1>2. ASSUME NEW z, z = CaptureM2MSetup(FALSE) PROVE ~Submits1(z)
  BY <1>2 DEF CaptureM2MSetup
<1>3. ASSUME NEW z, z = CaptureDmabufSetup PROVE ~Submits1(z)
  BY <1>3 DEF CaptureDmabufSetup
<1>4. ASSUME NEW z, z = BenchFixtureSetup PROVE ~Submits1(z)
  BY <1>4 DEF BenchFixtureSetup
<1>5. ASSUME NEW z, z = VcamBenchSetup PROVE ~Submits1(z)
  BY <1>5 DEF VcamBenchSetup
<1>6. ASSUME NEW z, z = DmabufBenchSetup PROVE ~Submits1(z)
  BY <1>6 DEF DmabufBenchSetup
<1>7. ASSUME NEW z, z = DmabufTestSetup PROVE ~Submits1(z)
  BY <1>7 DEF DmabufTestSetup
<1>8. ASSUME NEW z, z = CaptureMmapSetup PROVE ~Submits1(z)
  BY <1>8 DEF CaptureMmapSetup
<1>9. ASSUME NEW z, z = UserptrSetup PROVE ~Submits1(z)
  BY <1>9 DEF UserptrSetup
<1>10. ASSUME NEW z, z = FixtureFeedLoop PROVE ~Submits1(z)
  BY <1>10 DEF FixtureFeedLoop
<1> HIDE DEF Submits1
<1> QED
  BY ONLY <1>1, <1>2, <1>3, <1>4, <1>5, <1>6, <1>7, <1>8, <1>9, <1>10
LEMMA ProgramPlans ==
  ASSUME NEW p \in Names
  PROVE  /\ Plan(Programs[p])
         /\ p # "fixtureFeed" => StopsFirst(Programs[p].cleanup)
<1>1. 1 \in 1 .. Frames /\ Frames \in 1 .. Frames /\ N \in Nat /\ N >= 1
  BY ToolsAssumption
<1>2. ASSUME NEW src, NEW out \in {"mapOut", "reqOne"}, NEW m \in Nat
      PROVE  Plan(Run(src, out, m)) /\ StopsFirst(Run(src, out, m).cleanup)
  <2>1. PICK g : g = Run(src, out, m)
    OBVIOUS
  <2>2. /\ g.setup = RunSetup(out) /\ g.loop = RunLoop /\ g.after = << >>
        /\ g.cleanup = RunCleanup /\ g.index = "dequeued"
        /\ g.mem \in {"own", "surface"} /\ g.frames = Frames
        /\ g.depth \in Nat /\ g.depth # 0
    BY <2>1, <1>1 DEF Run, OutDepth
  <2> QED
    BY <1>1, <2>1, <2>2, SetupPlans, LoopPlans, CleanupPlans, AfterPlans DEF Plan
<1>3. ASSUME NEW dma \in BOOLEAN
      PROVE  Plan(CaptureM2M(dma)) /\ StopsFirst(CaptureM2M(dma).cleanup)
  <2>1. PICK g : g = CaptureM2M(dma)
    OBVIOUS
  <2>2. /\ g.setup = CaptureM2MSetup(dma) /\ g.loop = CaptureM2MLoop
        /\ g.after = << >> /\ g.cleanup = CaptureM2MCleanup
        /\ g.index = "camera" /\ g.mem \in {"own", "viv"} /\ g.frames = Frames
        /\ g.depth = 0
    BY <2>1 DEF CaptureM2M
  <2>3. SetupPlan(CaptureM2MSetup(dma)) /\ ~Submits1(CaptureM2MSetup(dma))
    <3>1. dma = TRUE \/ dma = FALSE
      OBVIOUS
    <3> QED
      BY <3>1, SetupPlans, NoSubmit
  <2> QED
    BY <1>1, <2>1, <2>2, <2>3, SetupPlans, LoopPlans, CleanupPlans, AfterPlans,
       NoSubmit DEF Plan
<1>4. Plan(CaptureDmabuf) /\ StopsFirst(CaptureDmabuf.cleanup)
  <2>1. PICK g : g = CaptureDmabuf
    OBVIOUS
  <2>2. /\ g.setup = CaptureDmabufSetup /\ g.loop = CaptureDmabufLoop
        /\ g.after = << >> /\ g.cleanup = CaptureDmabufCleanup
        /\ g.index = "camera" /\ g.mem = "viv" /\ g.frames = Frames
        /\ g.depth = 0
    BY <2>1 DEF CaptureDmabuf, CaptureM2M
  <2> QED
    BY <1>1, <2>1, <2>2, SetupPlans, LoopPlans, CleanupPlans, AfterPlans, NoSubmit
       DEF Plan
<1>5. Plan(BenchFixture) /\ StopsFirst(BenchFixture.cleanup)
  <2>1. PICK g : g = BenchFixture
    OBVIOUS
  <2>2. /\ g.setup = BenchFixtureSetup /\ g.loop = BenchFixtureLoop
        /\ g.after = << >> /\ g.cleanup = BenchFixtureCleanup
        /\ g.index = "modulo" /\ g.mem = "heap" /\ g.frames = Frames
        /\ g.depth = 0
    BY <2>1 DEF BenchFixture
  <2> QED
    BY <1>1, <2>1, <2>2, SetupPlans, LoopPlans, CleanupPlans, AfterPlans, NoSubmit
       DEF Plan
<1>6. Plan(VcamBench) /\ StopsFirst(VcamBench.cleanup)
  <2>1. PICK g : g = VcamBench
    OBVIOUS
  <2>2. /\ g.setup = VcamBenchSetup /\ g.loop = VcamBenchLoop
        /\ g.after = << >> /\ g.cleanup = VcamBenchCleanup
        /\ g.index = "modulo" /\ g.mem = "own" /\ g.frames = Frames
        /\ g.depth = 0
    BY <2>1 DEF VcamBench
  <2> QED
    BY <1>1, <2>1, <2>2, SetupPlans, LoopPlans, CleanupPlans, AfterPlans, NoSubmit
       DEF Plan
<1>7. Plan(DmabufBench) /\ StopsFirst(DmabufBench.cleanup)
  <2>1. PICK g : g = DmabufBench
    OBVIOUS
  <2>2. /\ g.setup = DmabufBenchSetup /\ g.loop = DmabufBenchLoop
        /\ g.after = << >> /\ g.cleanup = DmabufBenchCleanup
        /\ g.index = "zero" /\ g.mem = "surface" /\ g.frames = Frames
        /\ g.depth = 0
    BY <2>1 DEF DmabufBench, VcamBench
  <2> QED
    BY <1>1, <2>1, <2>2, SetupPlans, LoopPlans, CleanupPlans, AfterPlans, NoSubmit
       DEF Plan
<1>8. Plan(DmabufTest) /\ StopsFirst(DmabufTest.cleanup)
  <2>1. PICK g : g = DmabufTest
    OBVIOUS
  <2>2. /\ g.setup = DmabufTestSetup /\ g.loop = DmabufTestLoop
        /\ g.after = DmabufTestVerify /\ g.cleanup = DmabufTestCleanup
        /\ g.index = "modulo" /\ g.mem = "own" /\ g.frames = Frames
        /\ g.depth = 0
    BY <2>1 DEF DmabufTest, VcamBench
  <2> QED
    BY <1>1, <2>1, <2>2, SetupPlans, LoopPlans, CleanupPlans, AfterPlans, NoSubmit
       DEF Plan
<1>9. Plan(FixtureFeed)
  <2>1. PICK g : g = FixtureFeed
    OBVIOUS
  <2>2. /\ g.setup = FixtureFeedSetup /\ g.loop = FixtureFeedLoop
        /\ g.after = << >> /\ g.cleanup = FixtureFeedCleanup
        /\ g.index = "zero" /\ g.mem = "heap" /\ g.frames = 1
        /\ g.depth = 0
    BY <2>1 DEF FixtureFeed, BenchFixture
  <2> QED
    BY <1>1, <2>1, <2>2, SetupPlans, LoopPlans, CleanupPlans, AfterPlans, NoSubmit
       DEF Plan
<1>10. Plan(CaptureMmap) /\ StopsFirst(CaptureMmap.cleanup)
  <2>1. PICK g : g = CaptureMmap
    OBVIOUS
  <2>2. /\ g.setup = CaptureMmapSetup /\ g.loop = CaptureMmapLoop
        /\ g.after = << >> /\ g.cleanup = CaptureMmapCleanup
        /\ g.index = "camera" /\ g.mem = "own" /\ g.frames = Frames
        /\ g.depth = 0
    BY <2>1 DEF CaptureMmap
  <2> QED
    BY <1>1, <2>1, <2>2, SetupPlans, LoopPlans, CleanupPlans, AfterPlans, NoSubmit
       DEF Plan
<1>11. ASSUME NEW reset \in BOOLEAN
       PROVE  Plan(Userptr(reset)) /\ StopsFirst(Userptr(reset).cleanup)
  <2>1. PICK g : g = Userptr(reset)
    OBVIOUS
  <2>2. /\ g.setup = UserptrSetup /\ g.loop = UserptrLoop(reset)
        /\ g.after = << >> /\ g.cleanup = UserptrCleanup
        /\ g.index = "camera" /\ g.mem = "own" /\ g.frames = Frames
        /\ g.depth = 0
    BY <2>1 DEF Userptr, CaptureMmap
  <2>3. LoopPlan(UserptrLoop(reset))
    <3>1. reset = TRUE \/ reset = FALSE
      OBVIOUS
    <3> QED
      BY <3>1, LoopPlans
  <2> QED
    BY <1>1, <2>1, <2>2, <2>3, SetupPlans, LoopPlans, CleanupPlans, AfterPlans,
       NoSubmit DEF Plan
<1>12. \/ \E src \in {"VCAM", "FIXTURE"}, out \in {"mapOut", "reqOne"}, m \in Nat :
            Programs[p] = Run(src, out, m)
       \/ \E dma \in BOOLEAN : Programs[p] = CaptureM2M(dma)
       \/ Programs[p] = CaptureDmabuf \/ Programs[p] = BenchFixture
       \/ Programs[p] = VcamBench \/ Programs[p] = DmabufBench
       \/ Programs[p] = DmabufTest
       \/ p = "fixtureFeed" /\ Programs[p] = FixtureFeed
       \/ Programs[p] = CaptureMmap
       \/ \E reset \in BOOLEAN : Programs[p] = Userptr(reset)
  <2>1. CASE p \in {"run", "runFixture", "runOne", "runDmabuf"}
    <3>1. \/ Programs[p] = Run("VCAM", "mapOut", N)
          \/ Programs[p] = Run("FIXTURE", "mapOut", N)
          \/ Programs[p] = Run("VCAM", "mapOut", 1)
          \/ Programs[p] = Run("VCAM", "reqOne", N)
      BY <2>1 DEF Programs
    <3> QED
      BY <1>1, <3>1
  <2>2. CASE p \in {"m2mCopy", "m2mDmabuf", "userptrReset", "userptrNoreset"}
    <3>1. ASSUME NEW a, NEW b, a = FALSE, b = TRUE
          PROVE  /\ Programs["m2mCopy"] = CaptureM2M(a)
                 /\ Programs["m2mDmabuf"] = CaptureM2M(b)
                 /\ Programs["userptrReset"] = Userptr(b)
                 /\ Programs["userptrNoreset"] = Userptr(a)
      BY <3>1, Zenon DEF Programs
    <3> QED
      BY <2>2, <3>1, Zenon
  <2>3. CASE p \in {"captureDmabuf", "benchFixture", "vcamBench", "dmabufBench",
                    "dmabufTest", "fixtureFeed", "captureMmap"}
    BY <2>3 DEF Programs
  <2> QED
    BY <2>1, <2>2, <2>3 DEF Names
<1> QED
  BY <1>2, <1>3, <1>4, <1>5, <1>6, <1>7, <1>8, <1>9, <1>10, <1>11, <1>12

LEMMA ProgramNames == DOMAIN Programs = Names
  BY DEF Programs, Names

LEMMA RunnerNeverClosesViv ==
  \A k \in 1 .. Len(Programs["runOne"].cleanup) :
    Programs["runOne"].cleanup[k] # "closeViv"
<1>1. Programs["runOne"].cleanup = RunCleanup
  BY DEF Programs, Run
<1> QED
  BY <1>1, CleanupPlans
-----------------------------------------------------------------------------
(* The position in the program. *)
Phases == {"setup", "fill", "loop", "after", "cleanup"}
Whys == {"none", "error", "refused", "mismatch", "killed"}
MeType == [runs : Mains \cup {<< >>}, pc : Phases \X Nat, sent : 0 .. Frames,
           i : 0 .. Frames, why : Whys]

(* A program without a fill loop submits once in a turn of its loop, or    *)
(* once before the loop.                                                   *)
Remains(s, k) == \E j \in k .. Len(s) : s[j] = "submit"
Budget(m, g) ==
  /\ m.pc[1] = "setup" /\ (Remains(g.setup, m.pc[2]) \/ Submits1(g.loop))
       => m.sent = 0
  /\ m.pc[1] = "loop" /\ Submits1(g.loop)
       => m.sent <= m.i + (IF Remains(g.loop, m.pc[2]) THEN 0 ELSE 1)
Placed(m, g) ==
  /\ m.pc[2] \in 1 .. Len(Part(g, m.pc[1]))
  /\ m.pc[1] = "setup" => m.i = 0
  /\ m.pc[1] = "fill" => g.depth # 0
  /\ m.pc[1] = "loop" => m.i < g.frames
  /\ m.pc[1] = "after" => m.i >= g.frames /\ g.after # << >>
  /\ g.depth = 0 => Budget(m, g)
Place == me.runs # << >> => Placed(me, Prog)

(* From the place m of program g to the place n. *)
Moves(m, n, g) ==
  /\ n.runs = m.runs /\ n.why = m.why
  /\ \/ m.pc[2] < Len(Part(g, m.pc[1])) /\ n.pc = <<m.pc[1], m.pc[2] + 1>>
     \/ /\ m.pc[2] = Len(Part(g, m.pc[1])) /\ m.pc[1] # "cleanup"
        /\ n.pc[1] # "setup" /\ n.pc[2] = 1

(* Where program g goes after the last call of part ph. *)
NextPart(g, ph, sent, i) ==
  IF ph \in {"setup", "fill"} /\ sent < g.frames /\ sent < g.depth
    THEN <<"fill", 1>>
  ELSE IF i < g.frames THEN <<"loop", 1>>
  ELSE IF ph # "after" /\ g.after # << >> THEN <<"after", 1>>
  ELSE <<"cleanup", 1>>
Begins(m, n, g) ==
  /\ n \in MeType /\ Placed(n, g) /\ n.runs = m.runs /\ n.why = m.why
  /\ n.pc[1] # "setup" /\ n.pc[2] = 1

Turn(m, g) ==
  IF m.pc[2] = Len(Part(g, m.pc[1])) /\ m.pc[1] = "loop" THEN m.i + 1 ELSE m.i
NextPlace(m, g, s) ==
  IF m.pc[2] = Len(Part(g, m.pc[1]))
  THEN NextPart(g, m.pc[1], m.sent + s, Turn(m, g))
  ELSE <<m.pc[1], m.pc[2] + 1>>
Advanced(m, g, s) ==
  [m EXCEPT !.sent = m.sent + s, !.i = Turn(m, g), !.pc = NextPlace(m, g, s)]
Proceeds(m, n, g) == n \in MeType /\ Placed(n, g) /\ Moves(m, n, g)

LEMMA MeFields ==
  ASSUME NEW m \in MeType
  PROVE  /\ m.runs \in Mains \cup {<< >>} /\ m.pc[1] \in Phases /\ m.pc[2] \in Nat
         /\ m.pc = <<m.pc[1], m.pc[2]>> /\ m.sent \in 0 .. Frames
         /\ m.sent \in Nat /\ m.i \in 0 .. Frames /\ m.i \in Nat /\ m.why \in Whys
  BY ToolsAssumption DEF MeType

LEMMA PartOf ==
  ASSUME NEW g, Plan(g), NEW ph \in Phases, ph = "after" => g.after # << >>
  PROVE  /\ List(Part(g, ph))
         /\ ph = "setup" => Part(g, ph) = g.setup
         /\ ph = "fill" => Part(g, ph) = <<"submit">>
         /\ ph = "loop" => Part(g, ph) = g.loop
         /\ ph = "after" => Part(g, ph) = g.after
         /\ ph = "cleanup" => Part(g, ph) = g.cleanup
<1>1. /\ ph = "setup" => Part(g, ph) = g.setup
      /\ ph = "fill" => Part(g, ph) = <<"submit">>
      /\ ph = "loop" => Part(g, ph) = g.loop
      /\ ph = "after" => Part(g, ph) = g.after
      /\ ph = "cleanup" => Part(g, ph) = g.cleanup
  BY DEF Part
<1>2. List(g.setup) /\ List(g.loop) /\ List(g.cleanup)
  BY DEF Plan, SetupPlan, LoopPlan, CleanupPlan
<1>3. g.after # << >> => List(g.after)
  BY DEF Plan, AfterPlan
<1>4. List(<<"submit">>)
  BY DEF List
<1> QED
  BY <1>1, <1>2, <1>3, <1>4 DEF Phases

LEMMA Enters ==
  ASSUME NEW m \in MeType, NEW g, Plan(g), NEW i \in 0 .. Frames,
         NEW sent \in 0 .. Frames, NEW ph \in Phases, NEW pc,
         pc = NextPart(g, ph, sent, i),
         NEW n, n = [m EXCEPT !.sent = sent, !.i = i, !.pc = pc],
         g.depth = 0 /\ Submits1(g.loop) /\ i < g.frames => sent <= i
  PROVE  Begins(m, n, g)
<1>1. /\ g.depth \in Nat /\ g.frames \in Nat /\ Frames \in Nat
  BY ToolsAssumption DEF Plan
<1>2. \E x \in {"fill", "loop", "after", "cleanup"} :
        /\ pc = <<x, 1>>
        /\ x = "fill" => g.depth # 0
        /\ x = "loop" => i < g.frames
        /\ x = "after" => i >= g.frames /\ g.after # << >>
  BY <1>1 DEF NextPart
<1>3. PICK x \in {"fill", "loop", "after", "cleanup"} :
        /\ pc = <<x, 1>>
        /\ x = "fill" => g.depth # 0
        /\ x = "loop" => i < g.frames
        /\ x = "after" => i >= g.frames /\ g.after # << >>
  BY <1>2
<1>4. /\ n \in MeType /\ n.runs = m.runs /\ n.why = m.why /\ n.sent = sent
      /\ n.i = i /\ n.pc = pc
  <2>1. pc \in Phases \X Nat
    BY <1>3 DEF Phases
  <2> QED
    BY <2>1 DEF MeType
<1>5. n.pc[1] = x /\ n.pc[2] = 1 /\ x \in Phases /\ x # "setup"
  BY <1>3, <1>4 DEF Phases
<1>6. 1 \in 1 .. Len(Part(g, x))
  BY <1>3, <1>5, PartOf DEF List
<1>7. g.depth = 0 => Budget(n, g)
  <2>1. g.depth = 0 /\ Submits1(g.loop) /\ x = "loop"
          => n.sent <= n.i /\ n.sent \in Nat /\ n.i \in Nat
    BY <1>1, <1>3, <1>4
  <2> QED
    BY <1>5, <2>1 DEF Budget
<1> QED
  BY <1>3, <1>4, <1>5, <1>6, <1>7 DEF Placed, Begins

(* What an advance to the next call does. *)
LEMMA Advances ==
  ASSUME NEW m \in MeType, NEW g, Plan(g), Placed(m, g), NEW s \in {0, 1},
         NEW c, c = Part(g, m.pc[1])[m.pc[2]],
         m.pc[1] = "cleanup" => c \notin Closes \/ m.pc[2] # Len(Part(g, m.pc[1])),
         s = 1 => c = "submit" /\ (g.depth = 0 \/ m.sent < g.frames),
         s = 0 /\ g.depth = 0 => c # "submit",
         NEW n, n = Advanced(m, g, s)
  PROVE  Proceeds(m, n, g)
<1>0. PICK i, pc :
        /\ i = IF m.pc[2] = Len(Part(g, m.pc[1])) /\ m.pc[1] = "loop"
               THEN m.i + 1 ELSE m.i
        /\ pc = IF m.pc[2] = Len(Part(g, m.pc[1]))
                THEN NextPart(g, m.pc[1], m.sent + s, i)
                ELSE <<m.pc[1], m.pc[2] + 1>>
        /\ n = [m EXCEPT !.sent = m.sent + s, !.i = i, !.pc = pc]
  BY DEF Advanced, NextPlace, Turn
<1>1. PICK ph, k, L : ph = m.pc[1] /\ k = m.pc[2] /\ L = Len(Part(g, ph))
  OBVIOUS
<1>2. /\ ph \in Phases /\ k \in Nat /\ m.sent \in 0 .. Frames /\ m.sent \in Nat
      /\ m.i \in 0 .. Frames /\ m.i \in Nat /\ m.pc = <<ph, k>>
  BY <1>1, MeFields
<1>3. /\ g.depth \in Nat /\ g.frames \in Nat /\ g.frames <= Frames /\ Frames \in Nat
      /\ Frames >= 1
  BY ToolsAssumption DEF Plan
<1>4. /\ k \in 1 .. L /\ L \in Nat
      /\ ph = "setup" => m.i = 0
      /\ ph = "fill" => g.depth # 0
      /\ ph = "loop" => m.i < g.frames
      /\ ph = "after" => m.i >= g.frames /\ g.after # << >>
      /\ g.depth = 0 => Budget(m, g)
      /\ List(Part(g, ph))
  BY <1>1, <1>2, PartOf DEF Placed, List
<1>5. c = "submit" /\ g.depth = 0 => \/ ph = "setup" /\ Remains(g.setup, k)
                                        /\ Submits1(g.setup)
                                     \/ ph = "loop" /\ Remains(g.loop, k)
                                        /\ Submits1(g.loop)
  <2> SUFFICES ASSUME c = "submit", g.depth = 0
               PROVE  \/ ph = "setup" /\ Remains(g.setup, k) /\ Submits1(g.setup)
                      \/ ph = "loop" /\ Remains(g.loop, k) /\ Submits1(g.loop)
    OBVIOUS
  <2>1. ph \notin {"fill", "after", "cleanup"}
    <3>1. /\ ph = "after" => Part(g, ph) = g.after
          /\ ph = "cleanup" => Part(g, ph) = g.cleanup
      BY <1>2, <1>4, PartOf
    <3>2. AfterPlan(g.after) /\ CleanupPlan(g.cleanup)
      BY DEF Plan
    <3>3. Part(g, ph)[k] = "submit" /\ k \in 1 .. Len(Part(g, ph))
      BY <1>1, <1>4
    <3>4. ph # "after"
      BY <1>4, <3>1, <3>2, <3>3 DEF AfterPlan
    <3>5. ph # "cleanup"
      BY <3>1, <3>2, <3>3 DEF CleanupPlan
    <3>6. ph # "fill"
      BY <1>4
    <3> QED
      BY <3>4, <3>5, <3>6
  <2>2. ASSUME NEW q, q = Part(g, ph) PROVE Remains(q, k) /\ Submits1(q)
    <3>1. q[k] = c /\ Len(q) = L
      BY ONLY <1>1, <2>2, c = Part(g, m.pc[1])[m.pc[2]]
    <3>2. k \in k .. Len(q) /\ k \in 1 .. Len(q) /\ q[k] = "submit"
      BY ONLY c = "submit", <1>4, <3>1
    <3> QED
      BY ONLY <3>2 DEF Remains, Submits1, Calls
  <2> QED
    BY <1>2, <1>4, <2>1, <2>2, PartOf DEF Phases
<1>6. i \in 0 .. Frames /\ i \in Nat
  BY <1>0, <1>1, <1>2, <1>3, <1>4
<1>7. g.depth = 0 /\ Submits1(g.loop) /\ ph = "loop" =>
        m.sent <= m.i + (IF Remains(g.loop, k) THEN 0 ELSE 1)
  BY <1>1, <1>4 DEF Budget
<1>8. g.depth = 0 /\ ph = "setup" /\ (Remains(g.setup, k) \/ Submits1(g.loop))
        => m.sent = 0
  BY <1>1, <1>4 DEF Budget
<1>9. m.sent + s \in 0 .. Frames /\ m.sent + s \in Nat
  <2>1. CASE s = 0
    BY <1>2, <2>1
  <2>2. CASE s = 1 /\ g.depth # 0
    BY <1>2, <1>3, <2>2
  <2>3. CASE s = 1 /\ g.depth = 0
    <3>1. CASE ph = "setup" /\ Remains(g.setup, k)
      BY <1>2, <1>3, <1>8, <2>3, <3>1
    <3>2. CASE ph = "loop" /\ Remains(g.loop, k) /\ Submits1(g.loop)
      BY <1>2, <1>3, <1>4, <1>7, <2>3, <3>2
    <3> QED
      BY <1>5, <2>3, <3>1, <3>2
  <2> QED
    BY <2>1, <2>2, <2>3
<1>10. CASE k # L
  <2>1. pc = <<ph, k + 1>> /\ i = m.i /\ k < L /\ pc \in Phases \X Nat
    BY <1>0, <1>1, <1>2, <1>4, <1>10
  <2>2. /\ n \in MeType /\ n.runs = m.runs /\ n.why = m.why /\ n.pc = <<ph, k + 1>>
        /\ n.sent = m.sent + s /\ n.i = m.i
    BY <1>0, <1>6, <1>9, <2>1 DEF MeType
  <2>3. n.pc[1] = ph /\ n.pc[2] = k + 1 /\ k + 1 \in 1 .. L
    BY <1>4, <2>1, <2>2
  <2>4. g.depth = 0 => Budget(n, g)
    <3> SUFFICES ASSUME g.depth = 0 PROVE Budget(n, g)
      OBVIOUS
    <3>1. ASSUME NEW q, q = Part(g, ph), Once(q, "submit"), Remains(q, k + 1)
          PROVE  Remains(q, k) /\ s = 0
      <4>1. PICK j \in k + 1 .. Len(q) : q[j] = "submit"
        BY <3>1 DEF Remains
      <4>2. /\ j \in k .. Len(q) /\ j # k /\ j \in 1 .. Len(q) /\ k \in 1 .. Len(q)
            /\ q[k] = c
        BY <1>1, <1>2, <1>4, <3>1
      <4>3. q[k] # "submit"
        BY <3>1, <4>1, <4>2 DEF Once
      <4> QED
        BY <4>1, <4>2, <4>3 DEF Remains
    <3>2. CASE ph = "setup"
      <4>1. Part(g, ph) = g.setup /\ Once(g.setup, "submit")
        BY <1>2, <3>2, PartOf DEF Plan, SetupPlan
      <4>2. Remains(g.setup, k + 1) => m.sent = 0 /\ s = 0
        BY <1>8, <3>1, <3>2, <4>1
      <4>3. Submits1(g.loop) => m.sent = 0 /\ s = 0
        BY <1>5, <1>8, <3>2 DEF Plan
      <4> QED
        BY <2>2, <2>3, <3>2, <4>2, <4>3 DEF Budget
    <3>3. CASE ph = "loop"
      <4>1. Part(g, ph) = g.loop /\ Once(g.loop, "submit")
        BY <1>2, <3>3, PartOf DEF Plan, LoopPlan
      <4>2. ASSUME Submits1(g.loop), Remains(g.loop, k + 1) PROVE m.sent + s <= m.i
        <5>1. Remains(g.loop, k) /\ s = 0
          BY <3>1, <4>1, <4>2
        <5> QED
          BY <1>2, <1>7, <3>3, <4>2, <5>1
      <4>3. ASSUME Submits1(g.loop) PROVE m.sent + s <= m.i + 1
        <5>1. s = 1 => m.sent <= m.i
          BY <1>2, <1>5, <1>7, <3>3, <4>3
        <5>2. m.sent <= m.i + 1
          BY <1>2, <1>7, <3>3, <4>3
        <5> QED
          BY <1>2, <5>1, <5>2
      <4>4. ASSUME Submits1(g.loop)
            PROVE  n.sent <= n.i + (IF Remains(g.loop, k + 1) THEN 0 ELSE 1)
        <5>1. CASE Remains(g.loop, k + 1)
          BY <1>2, <2>2, <4>2, <4>4, <5>1
        <5>2. CASE ~Remains(g.loop, k + 1)
          BY <1>2, <2>2, <4>3, <4>4, <5>2
        <5> QED
          BY <5>1, <5>2
      <4> QED
        BY <2>3, <3>3, <4>4 DEF Budget
    <3>4. CASE ph \notin {"setup", "loop"}
      BY <2>3, <3>4 DEF Budget
    <3> QED
      BY <3>2, <3>3, <3>4
  <2>5. Placed(n, g)
    BY <1>1, <1>4, <2>2, <2>3, <2>4 DEF Placed
  <2> QED
    BY <1>1, <2>1, <2>2, <2>5 DEF Moves, Proceeds
<1>11. CASE k = L
  <2>1. ph # "cleanup"
    BY <1>1, <1>2, <1>11, PartOf DEF Plan, CleanupPlan
  <2>2. ASSUME g.depth = 0, Submits1(g.loop), i < g.frames PROVE m.sent + s <= i
    <3>1. CASE ph = "setup"
      <4>1. m.sent = 0 /\ m.i = 0 /\ i = m.i
        BY <1>0, <1>1, <1>4, <1>8, <2>2, <3>1
      <4>2. s = 0
        BY <1>5, <2>2, <3>1 DEF Plan
      <4> QED
        BY <4>1, <4>2
    <3>2. CASE ph = "loop"
      <4>1. Remains(g.loop, k) => c = "submit"
        BY <1>1, <1>2, <1>4, <1>11, <3>2, PartOf DEF Remains
      <4>2. i = m.i + 1
        BY <1>0, <1>1, <1>11, <3>2
      <4>3. s = 1 => m.sent <= m.i
        BY <1>2, <1>5, <1>7, <2>2, <3>2
      <4>4. m.sent <= m.i + 1
        BY <1>2, <1>7, <2>2, <3>2
      <4> QED
        BY <1>2, <4>2, <4>3, <4>4
    <3> QED
      BY <1>0, <1>1, <1>2, <1>3, <1>4, <1>11, <2>1, <2>2, <3>1, <3>2 DEF Phases
  <2>3. pc = NextPart(g, ph, m.sent + s, i)
    BY <1>0, <1>1, <1>11
  <2>4. PICK u : u = m.sent + s
    OBVIOUS
  <2>5. Begins(m, n, g)
    <3>1. /\ u \in 0 .. Frames /\ i \in 0 .. Frames /\ ph \in Phases
          /\ n = [m EXCEPT !.sent = u, !.i = i, !.pc = pc]
          /\ g.depth = 0 /\ Submits1(g.loop) /\ i < g.frames => u <= i
          /\ pc = NextPart(g, ph, u, i)
      BY <1>0, <1>2, <1>6, <1>9, <2>2, <2>3, <2>4
    <3> QED
      BY ONLY m \in MeType, Plan(g), <3>1, Enters
  <2> QED
    BY <1>1, <1>11, <2>1, <2>5 DEF Moves, Begins, Proceeds
<1> QED
  BY <1>10, <1>11

LEMMA MainRuns ==
  ASSUME NEW r \in Mains
  PROVE  /\ r # << >> /\ Head(r) \in Names /\ Len(r) \in 1 .. 2
         /\ Len(r) > 1 => Head(r) = "runOne" /\ Tail(r) \in Mains
<1>1. \A p \in Names : /\ <<p>> # << >> /\ Head(<<p>>) = p /\ Len(<<p>>) = 1
  OBVIOUS
<1>2. PICK u : u = <<"runOne", "runDmabuf">>
  OBVIOUS
<1>3. u # << >> /\ Head(u) = "runOne" /\ Len(u) = 2 /\ Tail(u) = <<"runDmabuf">>
  BY <1>2
<1>4. <<"runDmabuf">> \in Mains /\ "runOne" \in Names
  BY ProgramNames DEF Mains, Names
<1>5. \/ \E p \in Names : r = <<p>>
      \/ r = u
  BY <1>2, ProgramNames DEF Mains
<1>6. CASE r = u
  <2>1. r # << >> /\ Head(r) = "runOne" /\ Tail(r) = <<"runDmabuf">>
    BY <1>3, <1>6
  <2>2. Len(r) \in 1 .. 2
    BY <1>3, <1>6
  <2> QED
    BY ONLY <1>4, <2>1, <2>2
<1>7. CASE r # u
  BY <1>1, <1>5, <1>7
<1> QED
  BY <1>6, <1>7

LEMMA Planned ==
  ASSUME me \in MeType, me.runs # << >>
  PROVE  /\ me.runs \in Mains /\ Head(me.runs) \in Names /\ Plan(Prog)
         /\ Head(me.runs) # "fixtureFeed" => StopsFirst(Prog.cleanup)
  BY MeFields, MainRuns, ProgramPlans DEF Prog

LEMMA BodyIs == Body = Part(Prog, Phase)
  BY DEF Body, Part

(* The call c is not the last one of a run, and is counted if it submits. *)
LEMMA AdvanceOk ==
  ASSUME me \in MeType, Place, NEW c, At(c), NEW s \in {0, 1}, Advance(s),
         Phase = "cleanup" => c \notin Closes \/ me.pc[2] # Len(Body),
         s = 1 => c = "submit" /\ Submits,
         s = 0 /\ Prog.depth = 0 => c # "submit"
  PROVE  /\ me' \in MeType /\ Place' /\ Moves(me, me', Prog) /\ me.runs # << >>
         /\ Prog' = Prog
<1>1. me.runs # << >>
  BY DEF At, Exited
<1>2. PICK g : g = Prog /\ Plan(g) /\ Placed(me, g)
  BY <1>1, Planned DEF Place
<1>3. c = Part(g, me.pc[1])[me.pc[2]]
  BY <1>2, BodyIs DEF At, Phase
<1>4. PICK m, n, b : m = me /\ n = me' /\ b = c
  OBVIOUS
<1>5. n = Advanced(m, g, s)
  <2>1. \A x, y : Enter(x, y) = NextPart(g, me.pc[1], x, y)
    BY <1>2 DEF Enter, NextPart, Phase
  <2> QED
    BY <1>2, <1>4, <2>1, BodyIs DEF Advance, Phase, Advanced, NextPlace, Turn
<1>6. /\ m \in MeType /\ Plan(g) /\ Placed(m, g) /\ s \in {0, 1}
      /\ b = Part(g, m.pc[1])[m.pc[2]]
      /\ m.pc[1] = "cleanup" => b \notin Closes \/ m.pc[2] # Len(Part(g, m.pc[1]))
      /\ s = 1 => b = "submit" /\ (g.depth = 0 \/ m.sent < g.frames)
      /\ s = 0 /\ g.depth = 0 => b # "submit"
  BY <1>2, <1>3, <1>4, BodyIs DEF Submits, Phase
<1>7. me' \in MeType /\ Placed(me', g) /\ Moves(me, me', g)
  <2>1. Proceeds(m, n, g)
    BY ONLY <1>5, <1>6, Advances
  <2> QED
    BY <1>4, <2>1 DEF Proceeds
<1>8. Prog' = Prog
  BY <1>7 DEF Moves, Prog
<1> QED
  BY <1>1, <1>2, <1>7, <1>8 DEF Place

(* A failing call leads to the cleanup. *)
LEMMA GiveUpOk ==
  ASSUME me \in MeType, me.runs # << >>, NEW w \in Whys, GiveUp(w)
  PROVE  /\ me' \in MeType /\ Place' /\ me'.runs = me.runs
         /\ me'.pc = <<"cleanup", 1>> /\ Prog' = Prog
<1>1. /\ me' \in MeType /\ me'.runs = me.runs /\ me'.pc = <<"cleanup", 1>>
  <2>1. <<"cleanup", 1>> \in Phases \X Nat
    BY DEF Phases
  <2> QED
    BY <2>1 DEF GiveUp, MeType
<1>2. Prog' = Prog /\ Plan(Prog)
  BY <1>1, Planned DEF Prog
<1>3. me'.pc[1] = "cleanup" /\ me'.pc[2] = 1
  BY <1>1
<1>4. 1 \in 1 .. Len(Part(Prog, "cleanup"))
  BY <1>2, PartOf DEF Phases, List
<1>5. Placed(me', Prog)
  BY <1>3, <1>4 DEF Placed, Budget
<1> QED
  BY <1>1, <1>2, <1>5 DEF Place

(* A signal leaves of the cleanup what begins with the first close. *)
LEMMA DiesOk ==
  ASSUME me \in MeType, Place, me.runs # << >>, Dies
  PROVE  /\ me' \in MeType /\ Place' /\ me'.runs = me.runs /\ me'.why = "killed"
         /\ me'.pc[1] = "cleanup" /\ Prog' = Prog
<1>1. PICK g : g = Prog /\ Plan(g) /\ Placed(me, g)
  BY Planned DEF Place
<1>2. PICK f : f = IF Phase = "cleanup" THEN me.pc[2] ELSE 1
  OBVIOUS
<1>3. PICK k \in f .. Len(g.cleanup) :
        me' = [me EXCEPT !.why = "killed", !.pc = <<"cleanup", k>>]
  BY <1>1, <1>2 DEF Dies
<1>4. f \in Nat /\ f >= 1 /\ Len(g.cleanup) \in Nat
  <2>1. me.pc[2] \in Nat /\ me.pc[2] \in 1 .. Len(Part(g, me.pc[1]))
    BY <1>1, MeFields DEF Placed
  <2>2. Len(g.cleanup) \in Nat
    BY <1>1 DEF Plan, CleanupPlan, List
  <2> QED
    BY <1>2, <2>1, <2>2
<1>5. k \in 1 .. Len(g.cleanup) /\ k \in Nat
  BY <1>3, <1>4
<1>6. me' \in MeType /\ me'.runs = me.runs /\ me'.why = "killed" /\ me'.pc = <<"cleanup", k>>
  <2>1. <<"cleanup", k>> \in Phases \X Nat /\ "killed" \in Whys
    BY <1>5 DEF Phases, Whys
  <2> QED
    BY <1>3, <2>1 DEF MeType
<1>7. Prog' = Prog
  BY <1>6 DEF Prog
<1>8. me'.pc[1] = "cleanup" /\ me'.pc[2] = k
  BY <1>6
<1>9. Part(g, "cleanup") = g.cleanup
  BY <1>1, PartOf DEF Phases
<1>10. Placed(me', g)
  BY <1>5, <1>8, <1>9 DEF Placed, Budget
<1> QED
  BY <1>1, <1>6, <1>7, <1>8, <1>10 DEF Place

(* The end of a run. *)
LEMMA NextRunOk ==
  ASSUME me \in MeType, me.runs # << >>, NextRun
  PROVE  /\ me' \in MeType /\ Place'
         /\ \/ me'.runs = << >>
            \/ me'.pc = <<"setup", 1>> /\ Head(me.runs) = "runOne" /\ me'.sent = 0
<1>1. /\ me.runs \in Mains /\ Len(me.runs) \in 1 .. 2
      /\ Len(me.runs) > 1 => Head(me.runs) = "runOne" /\ Tail(me.runs) \in Mains
  BY Planned, MainRuns
<1>2. CASE Len(me.runs) > 1 /\ me.why # "killed"
  <2>1. me' = [me EXCEPT !.runs = Tail(@), !.pc = <<"setup", 1>>,
                 !.sent = 0, !.i = 0, !.why = "none"]
    BY <1>2 DEF NextRun
  <2>2. <<"setup", 1>> \in Phases \X Nat /\ 0 \in 0 .. Frames /\ "none" \in Whys
    BY ToolsAssumption DEF Phases, Whys
  <2>3. /\ me' \in MeType /\ me'.runs \in Mains /\ me'.pc = <<"setup", 1>>
        /\ me'.sent = 0 /\ me'.i = 0
    BY <1>1, <1>2, <2>1, <2>2 DEF MeType
  <2>4. PICK g : g = Prog' /\ Plan(g)
    <3>1. Prog' = Programs[Head(me'.runs)]
      BY DEF Prog
    <3> QED
      BY <2>3, <3>1, MainRuns, ProgramPlans
  <2>5. me'.pc[1] = "setup" /\ me'.pc[2] = 1
    BY <2>3
  <2>6. 1 \in 1 .. Len(Part(g, "setup"))
    BY <2>4, PartOf DEF Phases, List
  <2>7. Placed(me', g)
    BY <2>3, <2>5, <2>6 DEF Placed, Budget
  <2> QED
    BY <1>1, <1>2, <2>3, <2>4, <2>7 DEF Place
<1>3. CASE ~(Len(me.runs) > 1 /\ me.why # "killed")
  <2>1. me' = [me EXCEPT !.runs = << >>]
    BY <1>3 DEF NextRun
  <2> QED
    BY <2>1 DEF MeType, Place
<1> QED
  BY <1>2, <1>3
-----------------------------------------------------------------------------
(* The invariant.  Types is TypeOK with the types of all fields. *)
FrameIds == (1 .. 2) \X (0 .. Frames - 1)
Cells == {"own", "viv", "heap", "surface"} \X Idx
InType == [idx : Idx, id : FrameIds, seq : Pixels, cell : Cells, dropped : BOOLEAN]
DoneType == [idx : Idx, id : FrameIds, seq : Pixels, pixels : Pixels,
             dropped : BOOLEAN, err : BOOLEAN]
CapType == [idx : Idx, id : Ids, seq : Pixels, pixels : Pixels,
            dropped : BOOLEAN, err : BOOLEAN]
FillType == [idx : Idx, id : Ids, addr : Addrs \cup {0}, seq : Pixels]
CurType == [cap : CapType, out : Idx, viv : FillType, row : Rows, read : BOOLEAN]
NodeType ==
  [open : BOOLEAN, size : {1, 2}, n : [OUT : 0 .. N, CAP : 0 .. N],
   plane : [OUT : 0 .. 2, CAP : 0 .. 2], on : SUBSET Queues, seq : Pixels,
   outQ : Seq(InType), capQ : Seq(Idx), outDone : Seq([idx : Idx]),
   capDone : Seq(DoneType)]
VivType ==
  [open : BOOLEAN, n : 0 .. N, on : BOOLEAN, q : Seq(FillType),
   done : Seq(FillType), seq : Nat, skips : Nat, qbufs : Nat]
SlotType == [addr : [Idx -> Addrs \cup {0}], pin : [Idx -> Addrs \cup {0}],
             faults : [Idx -> BOOLEAN]]
MetaType == [open : BOOLEAN, from : Nat, pos : Nat]
DrainType == [state : {"none", "starting", "reading", "done", "killed"},
              from : Nat, got : Nat]

ProgTypes == cur \in CurType /\ stamp \in [Idx -> Ids] /\ slot \in SlotType
MetaTypes == /\ log \in Seq(Rows) /\ meta \in MetaType /\ meta.pos <= Len(log)
             /\ drain \in DrainType /\ drain.from + drain.got <= Len(log)
             /\ drain.state = "starting" => drain.got = 0
Types ==
  /\ me \in MeType /\ ProgTypes /\ MetaTypes
  /\ node \in NodeType /\ viv \in VivType /\ mem \in [Cells -> Pixels]
  /\ errs \in 0 .. MaxErrors /\ rate \in Nat

(* A queue is started with buffers of the present size. *)
Called(s, k, C) == \E j \in 1 .. k - 1 : s[j] \in C
Sized ==
  /\ \A t \in Queues : t \in node.on => node.plane[t] = node.size
  /\ me.runs # << >> /\ Phase = "setup" => \A t \in Queues :
       /\ Called(Prog.setup, me.pc[2], Requests(t)) => node.plane[t] = node.size
       /\ t \in node.on => Called(Prog.setup, me.pc[2], Requests(t))
(* The cleanup stops OUTPUT for good, where a signal does not cut it short.*)
Stopped ==
  me.runs # << >> /\ Phase = "cleanup" /\ me.why # "killed" =>
    (Called(Prog.cleanup, me.pc[2], {"offOut"}) => "OUT" \notin node.on)

Inv == Types /\ Place /\ Sized /\ Stopped

LEMMA Constants ==
  /\ N \in Nat /\ N >= 2 /\ Frames \in Nat /\ Frames >= 1 /\ 0 \in Idx /\ 0 \in 0 .. N
  /\ Idx \subseteq Nat /\ N \in 0 .. N
  /\ Blank \in Pixels /\ NoId \in Ids /\ NoRow \in Rows /\ NoCap \in CapType
  /\ NoFill \in FillType /\ Fresh \in CurType
  /\ ClosedNode \in NodeType /\ ClosedViv \in VivType
<1>1. /\ N \in Nat /\ N >= 2 /\ Frames \in Nat /\ Frames >= 1 /\ 0 \in Idx /\ 0 \in 0 .. N
      /\ Idx \subseteq Nat /\ N \in 0 .. N
  BY ToolsAssumption DEF Idx
<1>2. Blank \in Pixels /\ NoId \in Ids
  BY DEF Blank, Pixels, NoId, Ids
<1>3. NoRow \in Rows /\ NoCap \in CapType /\ NoFill \in FillType
  BY <1>1, <1>2 DEF NoRow, Rows, NoCap, CapType, NoFill, FillType
<1>4. Fresh \in CurType
  BY <1>1, <1>3 DEF Fresh, CurType
<1>5. \A S : << >> \in Seq(S)
  OBVIOUS
<1>6. ClosedNode \in NodeType
  BY <1>1, <1>2, <1>5 DEF ClosedNode, NodeType
<1>7. ClosedViv \in VivType
  BY <1>1, <1>5 DEF ClosedViv, VivType
<1> QED
  BY <1>1, <1>2, <1>3, <1>4, <1>6, <1>7

LEMMA FrameIdsAreIds == FrameIds \subseteq Ids /\ DoneType \subseteq CapType
<1>1. FrameIds \subseteq Ids
  BY Constants DEF FrameIds, Ids
<1> QED
  BY <1>1 DEF DoneType, CapType

LEMMA InitInv == Init => Inv
<1> SUFFICES ASSUME Init PROVE Inv
  OBVIOUS
<1>1. PICK r \in Mains : me = [runs |-> r, pc |-> <<"setup", 1>>, sent |-> 0, i |-> 0,
                               why |-> "none"]
  BY DEF Init
<1>2. me \in MeType /\ me.runs = r /\ me.pc[1] = "setup" /\ me.pc[2] = 1 /\ me.i = 0
      /\ me.sent = 0
  <2>1. <<"setup", 1>> \in Phases \X Nat /\ 0 \in 0 .. Frames /\ "none" \in Whys
    BY Constants DEF Phases, Whys
  <2> QED
    BY <1>1, <2>1 DEF MeType
<1>3. r # << >>
  BY MainRuns
<1>4. Plan(Prog)
  BY <1>2, <1>3, Planned
<1>5. Place
  <2>1. 1 \in 1 .. Len(Part(Prog, "setup"))
    BY <1>4, PartOf DEF Phases, List
  <2> QED
    BY <1>2, <2>1 DEF Place, Placed, Budget
<1>6. /\ cur \in CurType /\ stamp \in [Idx -> Ids] /\ node \in NodeType
      /\ viv \in VivType
  BY Constants DEF Init
<1>7. slot \in SlotType
  BY DEF Init, SlotType
<1>8. mem \in [Cells -> Pixels]
  BY Constants DEF Init, Cells
<1>9. MetaTypes
  <2>1. log = << >> /\ log \in Seq(Rows) /\ Len(log) = 0
    BY DEF Init
  <2>2. meta \in MetaType /\ meta.pos = 0
    BY DEF Init, MetaType
  <2>3. drain \in DrainType /\ drain.from = 0 /\ drain.got = 0
    BY DEF Init, DrainType
  <2> QED
    BY <2>1, <2>2, <2>3 DEF MetaTypes
<1>10. errs \in 0 .. MaxErrors /\ rate \in Nat
  BY ToolsAssumption DEF Init
<1>11. node.on = {}
  BY DEF Init, ClosedNode
<1>12. Sized /\ Stopped
  BY <1>2, <1>11 DEF Sized, Stopped, Called, Phase
<1> QED
  BY <1>2, <1>5, <1>6, <1>7, <1>8, <1>9, <1>10, <1>12 DEF Inv, Types, ProgTypes
-----------------------------------------------------------------------------
(* Steps of the program that are not part of setting up the queues. *)
Ordinary(c) == /\ c \notin Closes \cup Prepares
               /\ c = "offOut" => "OUT" \notin node'.on
SameQueues == /\ node'.on \subseteq node.on /\ node'.plane = node.plane
              /\ node'.size = node.size

LEMMA CalledNone == \A s, C : ~Called(s, 1, C)
  BY DEF Called

LEMMA CalledNext ==
  ASSUME NEW s, NEW k \in Nat, k >= 1, NEW C
  PROVE  /\ Called(s, k, C) => Called(s, k + 1, C)
         /\ Called(s, k + 1, C) => Called(s, k, C) \/ s[k] \in C
         /\ s[k] \in C => Called(s, k + 1, C)
  BY DEF Called

(* The two ways on from a call. *)
LEMMA Onward ==
  ASSUME me \in MeType, me' \in MeType, Moves(me, me', Prog), Prog' = Prog,
         Place, me.runs # << >>
  PROVE  /\ me'.runs = me.runs /\ me'.why = me.why /\ me.pc[2] \in Nat /\ me.pc[2] >= 1
         /\ \/ Phase' = Phase /\ me'.pc[2] = me.pc[2] + 1
            \/ Phase' # "setup" /\ me'.pc[2] = 1 /\ Phase # "cleanup"
<1>1. /\ me.pc[2] \in Nat /\ me'.runs = me.runs /\ me'.why = me.why
      /\ \/ me'.pc = <<me.pc[1], me.pc[2] + 1>>
         \/ me'.pc[1] # "setup" /\ me'.pc[2] = 1 /\ me.pc[1] # "cleanup"
  BY MeFields DEF Moves
<1>2. me.pc[2] >= 1
  BY <1>1 DEF Place, Placed
<1> QED
  BY <1>1, <1>2 DEF Phase

LEMMA OrdinaryOk ==
  ASSUME Inv, me' \in MeType, Moves(me, me', Prog), Prog' = Prog, me.runs # << >>,
         NEW c, At(c), Ordinary(c), SameQueues
  PROVE  Sized' /\ Stopped'
<1>1. PICK k : k = me.pc[2] /\ k \in Nat /\ k >= 1
  BY Onward DEF Inv, Types
<1>2. /\ me'.runs = me.runs /\ me'.why = me.why
      /\ \/ Phase' = Phase /\ me'.pc[2] = k + 1
         \/ Phase' # "setup" /\ me'.pc[2] = 1 /\ Phase # "cleanup"
  BY <1>1, Onward DEF Inv, Types
<1>3. /\ Phase = "setup" => Prog.setup[k] = c
      /\ Phase = "cleanup" => Prog.cleanup[k] = c
  BY <1>1 DEF At, Body
<1>4. Sized'
  <2>1. \A t \in Queues : t \in node'.on => node'.plane[t] = node'.size
    BY DEF Inv, Sized, SameQueues
  <2>2. ASSUME Phase' = "setup", NEW t \in Queues
        PROVE  /\ Called(Prog.setup, k + 1, Requests(t)) => node'.plane[t] = node'.size
               /\ t \in node'.on => Called(Prog.setup, k + 1, Requests(t))
    <3>1. Prog.setup[k] \notin Requests(t)
      BY <1>2, <1>3, <2>2 DEF Ordinary, Prepares, Queues, Requests
    <3>2. Called(Prog.setup, k + 1, Requests(t)) <=> Called(Prog.setup, k, Requests(t))
      BY <1>1, <3>1, CalledNext
    <3>3. /\ Called(Prog.setup, k, Requests(t)) => node.plane[t] = node.size
          /\ t \in node.on => Called(Prog.setup, k, Requests(t))
      BY <1>1, <1>2, <2>2 DEF Inv, Sized
    <3> QED
      BY <3>2, <3>3 DEF SameQueues
  <2>3. Phase' = "setup" => me'.pc[2] = k + 1
    BY <1>2
  <2> QED
    BY <2>1, <2>2, <2>3 DEF Sized
<1>5. Stopped'
  <2> SUFFICES ASSUME Phase' = "cleanup", me'.why # "killed",
                      Called(Prog.cleanup, me'.pc[2], {"offOut"})
               PROVE  "OUT" \notin node'.on
    BY DEF Stopped
  <2>1. Phase = "cleanup" /\ me'.pc[2] = k + 1
    BY <1>1, <1>2, CalledNone
  <2>2. Called(Prog.cleanup, k, {"offOut"}) \/ c = "offOut"
    BY <1>1, <1>3, <2>1, CalledNext
  <2> QED
    BY <1>1, <1>2, <2>1, <2>2 DEF Inv, Stopped, SameQueues, Ordinary
<1> QED
  BY <1>4, <1>5

(* What is left to show of a step that goes on to the next call. *)
LEMMA StepOk ==
  ASSUME Inv, NEW c, At(c), NEW s \in {0, 1}, Advance(s), Ordinary(c),
         s = 1 => c = "submit" /\ Submits,
         s = 0 /\ Prog.depth = 0 => c # "submit",
         SameQueues, me' \in MeType => Types'
  PROVE  Inv'
<1>1. me \in MeType /\ Place /\ c \notin Closes
  BY DEF Inv, Types, Ordinary
<1>2. /\ me' \in MeType /\ Place' /\ Moves(me, me', Prog) /\ me.runs # << >>
      /\ Prog' = Prog
  BY <1>1, AdvanceOk
<1>3. Sized' /\ Stopped'
  BY <1>2, OrdinaryOk
<1> QED
  BY <1>2, <1>3 DEF Inv

LEMMA GiveUpInv ==
  ASSUME Inv, NEW w \in Whys, GiveUp(w), me.runs # << >>, SameQueues,
         me' \in MeType => Types'
  PROVE  Inv'
<1>1. /\ me' \in MeType /\ Place' /\ me'.pc[1] = "cleanup" /\ me'.pc[2] = 1
  BY GiveUpOk DEF Inv, Types
<1>2. \A t \in Queues : t \in node'.on => node'.plane[t] = node'.size
  BY DEF Inv, Sized, SameQueues
<1>3. Sized' /\ Stopped'
  BY <1>1, <1>2, CalledNone DEF Sized, Stopped, Phase
<1> QED
  BY <1>1, <1>3 DEF Inv

LEMMA DiesInv ==
  ASSUME Inv, Dies, me.runs # << >>, SameQueues, me' \in MeType => Types'
  PROVE  Inv'
<1>1. /\ me' \in MeType /\ Place' /\ me'.pc[1] = "cleanup" /\ me'.why = "killed"
  BY DiesOk DEF Inv, Types
<1>2. \A t \in Queues : t \in node'.on => node'.plane[t] = node'.size
  BY DEF Inv, Sized, SameQueues
<1>3. Sized' /\ Stopped'
  BY <1>1, <1>2 DEF Sized, Stopped, Phase
<1> QED
  BY <1>1, <1>3 DEF Inv

(* Steps of others. *)
LEMMA OthersInv ==
  ASSUME Inv, me' = me, SameQueues, Types'
  PROVE  Inv'
<1>1. Place'
  BY DEF Inv, Place, Prog
<1>2. Sized' /\ Stopped'
  BY DEF Inv, Sized, Stopped, Phase, Prog, SameQueues
<1> QED
  BY <1>1, <1>2 DEF Inv
-----------------------------------------------------------------------------
(* The calls that set up the queues. *)

LEMMA SetupCall ==
  ASSUME Inv, NEW c, At(c), c \in Prepares
  PROVE  /\ Phase = "setup" /\ me.runs # << >> /\ Prog.setup[me.pc[2]] = c
         /\ me.pc[2] \in 1 .. Len(Prog.setup) /\ SetupPlan(Prog.setup)
<1>1. me \in MeType /\ Place /\ me.runs # << >>
  BY DEF Inv, Types, At, Exited
<1>2. PICK g : g = Prog /\ Plan(g) /\ Placed(me, g)
  BY <1>1, Planned DEF Place
<1>3. Phase \in Phases /\ me.pc[2] \in 1 .. Len(Part(g, Phase))
      /\ (Phase = "after" => g.after # << >>) /\ c = Part(g, Phase)[me.pc[2]]
  BY <1>1, <1>2, MeFields, BodyIs DEF Placed, Phase, At
<1>4. Phase # "fill"
  <2>1. c # "submit"
    BY DEF Prepares, Formats, Requests
  <2>2. <<"submit">>[1] = "submit" /\ Len(<<"submit">>) = 1
    OBVIOUS
  <2>3. ASSUME NEW x, x = <<"submit">>, me.pc[2] \in 1 .. Len(x) PROVE x[me.pc[2]] = "submit"
    BY <2>2, <2>3
  <2> QED
    BY <1>2, <1>3, <2>1, <2>3, PartOf
<1>5. Phase \notin {"loop", "after", "cleanup"}
  <2>1. /\ Phase = "loop" => Part(g, Phase) = g.loop
        /\ Phase = "after" => Part(g, Phase) = g.after
        /\ Phase = "cleanup" => Part(g, Phase) = g.cleanup
    BY <1>2, <1>3, PartOf
  <2>2. LoopPlan(g.loop) /\ AfterPlan(g.after) /\ CleanupPlan(g.cleanup)
    BY <1>2 DEF Plan
  <2>3. Phase # "loop"
    BY <1>3, <2>1, <2>2 DEF LoopPlan
  <2>4. Phase # "after"
    BY <1>3, <2>1, <2>2 DEF AfterPlan
  <2>5. Phase # "cleanup"
    BY <1>3, <2>1, <2>2 DEF CleanupPlan
  <2> QED
    BY <2>3, <2>4, <2>5
<1>6. Phase = "setup"
  BY <1>3, <1>4, <1>5 DEF Phases
<1> QED
  BY <1>1, <1>2, <1>3, <1>6, PartOf DEF Plan

(* What remains to be shown of a call of the set-up. *)
LEMMA SetupStep ==
  ASSUME Inv, NEW c, At(c), c \in Prepares, Advance(0), me' \in MeType => Types',
         NEW k, k = me.pc[2], NEW s, s = Prog.setup,
         \A t \in Queues : t \in node'.on => node'.plane[t] = node'.size,
         \A t \in Queues : Called(s, k + 1, Requests(t)) => node'.plane[t] = node'.size,
         \A t \in Queues : t \in node'.on => Called(s, k + 1, Requests(t))
  PROVE  Inv'
<1>1. me \in MeType /\ Place /\ c \notin Closes /\ c # "submit"
  BY DEF Inv, Types, Prepares, Closes, Formats, Requests
<1>2. Phase = "setup"
  BY SetupCall
<1>3. /\ me' \in MeType /\ Place' /\ Moves(me, me', Prog) /\ me.runs # << >>
      /\ Prog' = Prog
  BY <1>1, AdvanceOk
<1>4. /\ me'.runs = me.runs
      /\ \/ Phase' = Phase /\ me'.pc[2] = k + 1
         \/ Phase' # "setup" /\ me'.pc[2] = 1
  BY <1>1, <1>3, Onward
<1>5. Sized'
  BY <1>3, <1>4 DEF Sized
<1>6. Stopped'
  BY <1>2, <1>4, CalledNone DEF Stopped
<1> QED
  BY <1>3, <1>5, <1>6 DEF Inv

LEMMA SetupFacts ==
  ASSUME Inv, NEW c, At(c), c \in Prepares, NEW k, k = me.pc[2],
         NEW s, s = Prog.setup
  PROVE  /\ k \in Nat /\ k >= 1 /\ s[k] = c /\ SetupPlan(s) /\ k \in 1 .. Len(s)
         /\ \A t \in Queues : /\ Called(s, k, Requests(t)) => node.plane[t] = node.size
                              /\ t \in node.on => Called(s, k, Requests(t))
                              /\ t \in node.on => node.plane[t] = node.size
<1>1. /\ Phase = "setup" /\ me.runs # << >> /\ s[k] = c /\ k \in 1 .. Len(s)
      /\ SetupPlan(s)
  BY SetupCall
<1>2. Len(s) \in Nat
  BY <1>1 DEF SetupPlan, List
<1> QED
  BY <1>1, <1>2 DEF Inv, Sized

(* Opening the node and setting a format come before any request. *)
LEMMA NotRequested ==
  ASSUME NEW s, SetupPlan(s), NEW k \in 1 .. Len(s), s[k] \in Formats
  PROVE  \A t \in Queues : ~Called(s, k + 1, Requests(t))
<1>1. Len(s) \in Nat
  BY DEF SetupPlan, List
<1>2. SUFFICES ASSUME NEW t \in Queues, NEW j \in 1 .. k + 1 - 1, s[j] \in Requests(t)
               PROVE  FALSE
  BY DEF Called
<1>3. j \in 1 .. Len(s) /\ j <= k
  BY <1>1
<1> QED
  BY <1>1, <1>2, <1>3 DEF SetupPlan

LEMMA SetFormatInv ==
  ASSUME Inv, OpenNode \/ SetFormat
  PROVE  Inv'
<1>1. PICK c : c \in Formats /\ At(c) /\ Advance(0) /\ c \in Prepares
  BY DEF OpenNode, SetFormat, Call, Formats, Prepares
<1>2. PICK k, s : k = me.pc[2] /\ s = Prog.setup
  OBVIOUS
<1>3. /\ k \in Nat /\ k >= 1 /\ s[k] = c /\ SetupPlan(s) /\ k \in 1 .. Len(s)
      /\ \A t \in Queues : t \in node.on => Called(s, k, Requests(t))
  BY <1>1, <1>2, SetupFacts
<1>4. \A t \in Queues : ~Called(s, k + 1, Requests(t))
  BY <1>1, <1>3, NotRequested
<1>5. \A t \in Queues : t \notin node.on
  BY <1>3, <1>4, CalledNext
<1>6. node' \in NodeType /\ \A t \in Queues : t \notin node'.on
  <2>1. CASE OpenNode
    BY <2>1, Constants DEF OpenNode, ClosedNode, NodeType
  <2>2. CASE SetFormat
    <3>1. node' = [node EXCEPT !.size = 2] /\ node \in NodeType
      BY <2>2 DEF SetFormat, Inv, Types
    <3> QED
      BY <1>5, <3>1 DEF NodeType
  <2> QED
    BY <2>1, <2>2
<1>7. me' \in MeType => Types'
  BY <1>6 DEF OpenNode, SetFormat, Inv, Types, ProgTypes, MetaTypes, progVars, metaVars
<1> QED
  BY <1>1, <1>2, <1>4, <1>6, <1>7, SetupStep

(* REQBUFS of queue t with x buffers. *)
Grants(a, b, t, x) ==
  b = IF t = "OUT" THEN [a EXCEPT !.n.OUT = x, !.plane.OUT = a.size]
      ELSE [a EXCEPT !.n.CAP = x, !.plane.CAP = a.size]
LEMMA GrantsOk ==
  ASSUME NEW a \in NodeType, NEW b, NEW t \in Queues, NEW x \in 0 .. N,
         Grants(a, b, t, x)
  PROVE  /\ b \in NodeType /\ b.on = a.on /\ b.size = a.size
         /\ \A u \in Queues : b.plane[u] = IF u = t THEN a.size ELSE a.plane[u]
<1>1. /\ a.plane \in [OUT : 0 .. 2, CAP : 0 .. 2] /\ a.size \in 0 .. 2
      /\ a.n \in [OUT : 0 .. N, CAP : 0 .. N]
  BY DEF NodeType
<1>2. PICK n, pl : b = [a EXCEPT !.n = n, !.plane = pl]
                   /\ n = (IF t = "OUT" THEN [a.n EXCEPT !.OUT = x]
                                        ELSE [a.n EXCEPT !.CAP = x])
                   /\ pl = (IF t = "OUT" THEN [a.plane EXCEPT !.OUT = a.size]
                                         ELSE [a.plane EXCEPT !.CAP = a.size])
  <2>1. CASE t = "OUT"
    BY <2>1 DEF Grants, NodeType
  <2>2. CASE t = "CAP"
    BY <2>2 DEF Grants, NodeType
  <2> QED
    BY <2>1, <2>2 DEF Queues
<1>3. n \in [OUT : 0 .. N, CAP : 0 .. N]
  BY <1>1, <1>2
<1>4. pl \in [OUT : 0 .. 2, CAP : 0 .. 2]
  BY <1>1, <1>2
<1>5. \A u \in Queues : pl[u] = IF u = t THEN a.size ELSE a.plane[u]
  BY <1>1, <1>2 DEF Queues
<1>6. b \in NodeType /\ b.on = a.on /\ b.size = a.size /\ b.plane = pl
  BY <1>2, <1>3, <1>4 DEF NodeType
<1> QED
  BY <1>5, <1>6

LEMMA RequestBuffersInv ==
  ASSUME Inv, RequestBuffers
  PROVE  Inv'
<1>1. PICK c, t, x : /\ t \in Queues /\ x \in 0 .. N /\ c \in Requests(t) /\ At(c)
                     /\ Grants(node, node', t, x)
  <2>1. 2 \in 0 .. N /\ N \in 0 .. N /\ \A g \in 2 .. N : g \in 0 .. N
    BY Constants
  <2>2. \/ \E c \in {"mapOut", "reqOut", "reqOne"}, x \in 0 .. N :
             At(c) /\ node' = [node EXCEPT !.n.OUT = x, !.plane.OUT = node.size]
        \/ \E x \in 0 .. N :
             At("mapCap") /\ node' = [node EXCEPT !.n.CAP = x, !.plane.CAP = node.size]
    BY <2>1 DEF RequestBuffers, Call
  <2>3. \/ \E c \in Requests("OUT"), x \in 0 .. N : At(c) /\ Grants(node, node', "OUT", x)
        \/ \E c \in Requests("CAP"), x \in 0 .. N : At(c) /\ Grants(node, node', "CAP", x)
    BY <2>2 DEF Requests, Grants
  <2>4. "OUT" \in Queues /\ "CAP" \in Queues
    BY DEF Queues
  <2> QED
    BY ONLY <2>3, <2>4
<1>2. c \in Prepares /\ Advance(0) /\ node \in NodeType
  BY <1>1 DEF RequestBuffers, Prepares, Requests, Queues, Inv, Types
<1>3. PICK k, s : k = me.pc[2] /\ s = Prog.setup
  OBVIOUS
<1>4. /\ k \in Nat /\ k >= 1 /\ s[k] = c /\ SetupPlan(s) /\ k \in 1 .. Len(s)
      /\ \A u \in Queues : /\ Called(s, k, Requests(u)) => node.plane[u] = node.size
                           /\ u \in node.on => Called(s, k, Requests(u))
                           /\ u \in node.on => node.plane[u] = node.size
  BY <1>1, <1>2, <1>3, SetupFacts
<1>5. /\ node' \in NodeType /\ node'.on = node.on /\ node'.size = node.size
      /\ \A u \in Queues : node'.plane[u] = IF u = t THEN node.size ELSE node.plane[u]
  BY <1>1, <1>2, GrantsOk
<1>6. \A u \in Queues \ {t} : c \notin Requests(u)
  BY <1>1 DEF Requests, Queues
<1>7. \A u \in Queues : Called(s, k + 1, Requests(u)) => node'.plane[u] = node'.size
  BY <1>4, <1>5, <1>6, CalledNext
<1>8. me' \in MeType => Types'
  BY <1>5 DEF RequestBuffers, Inv, Types, ProgTypes, MetaTypes, progVars, metaVars
<1>9. \A u \in Queues : /\ u \in node'.on => node'.plane[u] = node'.size
                        /\ u \in node'.on => Called(s, k + 1, Requests(u))
  BY <1>4, <1>5, CalledNext
<1> QED
  BY <1>1, <1>2, <1>3, <1>7, <1>8, <1>9, SetupStep

LEMMA StreamOnInv ==
  ASSUME Inv, StreamOn
  PROVE  Inv'
<1>1. PICK t \in Queues : At(OnCall(t)) /\ node' = [node EXCEPT !.on = @ \cup {t}]
  BY DEF StreamOn, Call, OnCall, Queues
<1>2. PICK c : c = OnCall(t)
  OBVIOUS
<1>3. c \in Prepares /\ Advance(0) /\ node \in NodeType /\ At(c)
  BY <1>1, <1>2 DEF StreamOn, Prepares, OnCall, Inv, Types
<1>4. PICK k, s : k = me.pc[2] /\ s = Prog.setup
  OBVIOUS
<1>5. /\ k \in Nat /\ k >= 1 /\ s[k] = c /\ SetupPlan(s) /\ k \in 1 .. Len(s)
      /\ \A u \in Queues : /\ Called(s, k, Requests(u)) => node.plane[u] = node.size
                           /\ u \in node.on => Called(s, k, Requests(u))
                           /\ u \in node.on => node.plane[u] = node.size
  BY <1>3, <1>4, SetupFacts
<1>6. Called(s, k, Requests(t))
  BY <1>2, <1>5 DEF SetupPlan, Called
<1>7. /\ node' \in NodeType /\ node'.on = node.on \cup {t} /\ node'.size = node.size
      /\ node'.plane = node.plane
  BY <1>1, <1>3 DEF NodeType
<1>8. \A u \in Queues : c \notin Requests(u)
  BY <1>2 DEF OnCall, Requests
<1>9. \A u \in Queues : Called(s, k + 1, Requests(u)) <=> Called(s, k, Requests(u))
  BY <1>5, <1>8, CalledNext
<1>10. mem' \in [Cells -> Pixels]
  <2>1. mem \in [Cells -> Pixels] /\ Blank \in Pixels
    BY Constants DEF Inv, Types
  <2>2. mem' = mem \/ mem' = [mem EXCEPT ![<<"surface", 0>>] = Blank]
    BY DEF StreamOn
  <2> QED
    BY <2>1, <2>2
<1>11. me' \in MeType => Types'
  BY <1>7, <1>10 DEF StreamOn, Inv, Types, ProgTypes, MetaTypes, progVars, metaVars
<1>12. \A u \in Queues :
         /\ u \in node'.on => node'.plane[u] = node'.size
         /\ Called(s, k + 1, Requests(u)) => node'.plane[u] = node'.size
         /\ u \in node'.on => Called(s, k + 1, Requests(u))
  BY <1>5, <1>6, <1>7, <1>9
<1> QED
  BY <1>3, <1>4, <1>11, <1>12, SetupStep
-----------------------------------------------------------------------------
(* The calls that leave formats, buffers and streaming alone. *)
OrdinaryCalls ==
  {"backend", "ctrl", "csv", "fmtViv", "heap", "tryMeta", "qCaps", "qCap0",
   "export", "seqCtrl", "dqCap", "dqOut", "readMeta", "row", "qCap", "verify",
   "openViv", "mapViv", "reqUser", "mapSlots", "qVivs", "qViv", "onViv", "dqViv",
   "remap", "offCap", "offViv", "closeMeta"}
LEMMA OrdinaryAre == \A c \in OrdinaryCalls : Ordinary(c) /\ c # "submit"
  BY DEF OrdinaryCalls, Ordinary, Closes, Prepares, Formats, Requests

OtherTypes == /\ viv \in VivType /\ mem \in [Cells -> Pixels]
              /\ errs \in 0 .. MaxErrors /\ rate \in Nat
LEMMA CallInv ==
  ASSUME Inv, NEW c \in OrdinaryCalls, At(c), Advance(0),
         node' \in NodeType, SameQueues, ProgTypes', MetaTypes', OtherTypes'
  PROVE  Inv'
<1>1. me' \in MeType => Types'
  BY DEF Types, OtherTypes
<1>2. Ordinary(c) /\ c # "submit"
  BY OrdinaryAre
<1> QED
  BY <1>1, <1>2, StepOk

LEMMA Kept ==
  ASSUME Inv
  PROVE  /\ node \in NodeType /\ ProgTypes /\ MetaTypes /\ OtherTypes
         /\ UNCHANGED node => node' \in NodeType /\ SameQueues
         /\ UNCHANGED progVars => ProgTypes'
         /\ UNCHANGED <<log, meta, drain>> => MetaTypes'
         /\ UNCHANGED <<viv, mem, errs, rate>> => OtherTypes'
  BY DEF Inv, Types, SameQueues, ProgTypes, MetaTypes, OtherTypes, progVars

LEMMA PlainInv ==
  ASSUME Inv, Plain \/ Export
  PROVE  Inv'
<1>1. PICK c \in OrdinaryCalls : At(c) /\ Advance(0)
  BY DEF Plain, Export, Call, OrdinaryCalls
<1>2. UNCHANGED <<progVars, node, viv, mem, metaVars, drain>>
  BY DEF Plain, Export
<1>3. node' \in NodeType /\ SameQueues /\ ProgTypes' /\ MetaTypes' /\ OtherTypes'
  BY <1>2, Kept DEF metaVars
<1> QED
  BY ONLY Inv, <1>1, <1>3, CallInv

LEMMA FillHeapInv ==
  ASSUME Inv, FillHeap
  PROVE  Inv'
<1>1. "heap" \in OrdinaryCalls /\ At("heap") /\ Advance(0)
  BY DEF FillHeap, Call, OrdinaryCalls
<1>2. UNCHANGED <<progVars, node, viv, metaVars, drain>>
  BY DEF FillHeap
<1>3. node' \in NodeType /\ SameQueues /\ ProgTypes' /\ MetaTypes'
  BY <1>2, Kept DEF metaVars
<1>4. mem' \in [Cells -> Pixels]
  <2>1. mem \in [Cells -> Pixels]
    BY DEF Inv, Types
  <2>2. PICK h : h = <<"fixture", 0, 0>>
    OBVIOUS
  <2>3. h \in Pixels
    BY <2>2 DEF Pixels
  <2>4. mem' = [c \in DOMAIN mem |-> IF c[1] = "heap" THEN h ELSE mem[c]]
    BY <2>2 DEF FillHeap
  <2> QED
    BY <2>1, <2>3, <2>4
<1>5. OtherTypes'
  BY <1>2, <1>4, Kept DEF OtherTypes, metaVars
<1> QED
  BY ONLY Inv, <1>1, <1>3, <1>5, CallInv

LEMMA OpenMetaInv ==
  ASSUME Inv, OpenMeta
  PROVE  Inv'
<1>1. "tryMeta" \in OrdinaryCalls /\ At("tryMeta") /\ Advance(0)
  BY DEF OpenMeta, Call, OrdinaryCalls
<1>2. UNCHANGED <<progVars, node, viv, mem, log, errs, rate, drain>>
  BY DEF OpenMeta
<1>3. node' \in NodeType /\ SameQueues /\ ProgTypes' /\ OtherTypes'
  BY <1>2, Kept
<1>4. MetaTypes'
  <2>1. PICK ok \in BOOLEAN : meta' = [open |-> ok, from |-> Len(log), pos |-> Len(log)]
    BY DEF OpenMeta
  <2>2. MetaTypes /\ Len(log) \in Nat
    BY Kept DEF MetaTypes
  <2>3. meta' \in MetaType /\ meta'.pos = Len(log)
    BY <2>1, <2>2 DEF MetaType
  <2> QED
    BY <1>2, <2>2, <2>3 DEF MetaTypes
<1> QED
  BY ONLY Inv, <1>1, <1>3, <1>4, CallInv

LEMMA QueueCapturesInv ==
  ASSUME Inv, QueueCaptures
  PROVE  Inv'
<1>1. PICK c \in OrdinaryCalls : At(c) /\ Advance(0)
  BY DEF QueueCaptures, Call, OrdinaryCalls
<1>2. UNCHANGED <<progVars, viv, mem, metaVars, drain>>
  BY DEF QueueCaptures
<1>3. ProgTypes' /\ MetaTypes' /\ OtherTypes' /\ node \in NodeType
  BY <1>2, Kept DEF metaVars
<1>4. PICK q : q \in Seq(Idx) /\ node' = [node EXCEPT !.capQ = q]
  <2>1. \A k \in 1 .. N : k - 1 \in Idx
    BY Constants DEF Idx
  <2>2. PICK z : z = [k \in 1 .. N |-> k - 1]
    OBVIOUS
  <2>3. z \in Seq(Idx)
    BY <2>1, <2>2, Constants
  <2>4. node.capQ \in Seq(Idx)
    BY <1>3 DEF NodeType
  <2>5. node.capQ \o z \in Seq(Idx)
    BY <2>3, <2>4
  <2>6. Append(node.capQ, 0) \in Seq(Idx)
    BY <2>4, Constants
  <2>7. \/ node' = [node EXCEPT !.capQ = node.capQ \o z]
        \/ node' = [node EXCEPT !.capQ = Append(node.capQ, 0)]
    BY <2>2 DEF QueueCaptures
  <2> QED
    BY <2>5, <2>6, <2>7
<1>5. node' \in NodeType /\ SameQueues
  BY <1>3, <1>4 DEF NodeType, SameQueues
<1> QED
  BY ONLY Inv, <1>1, <1>3, <1>5, CallInv

LEMMA SetSequenceInv ==
  ASSUME Inv, SetSequence
  PROVE  Inv'
<1>1. "seqCtrl" \in OrdinaryCalls /\ At("seqCtrl") /\ Advance(0)
  BY DEF SetSequence, Call, OrdinaryCalls
<1>2. UNCHANGED <<progVars, viv, mem, metaVars, drain>>
  BY DEF SetSequence
<1>3. ProgTypes' /\ MetaTypes' /\ OtherTypes' /\ node \in NodeType
  BY <1>2, Kept DEF metaVars
<1>4. cur.viv.seq \in Pixels
  BY Kept DEF ProgTypes, CurType, FillType
<1>5. node' = [node EXCEPT !.seq = cur.viv.seq]
  BY DEF SetSequence
<1>6. node' \in NodeType /\ SameQueues
  BY <1>3, <1>4, <1>5 DEF NodeType, SameQueues
<1> QED
  BY ONLY Inv, <1>1, <1>3, <1>6, CallInv

LEMMA SeqFacts ==
  ASSUME NEW S, NEW q \in Seq(S)
  PROVE  /\ Len(q) \in Nat /\ DOMAIN q = 1 .. Len(q) /\ \A k \in 1 .. Len(q) : q[k] \in S
         /\ q # << >> => Head(q) \in S /\ Tail(q) \in Seq(S)
         /\ \A x \in S : Append(q, x) \in Seq(S)
  OBVIOUS

(* Finished buffers add rows to the log. *)
LEMMA FinishOk ==
  ASSUME log \in Seq(Rows), node \in NodeType, NEW S, S \subseteq DOMAIN node.capDone,
         Finish(S)
  PROVE  log' \in Seq(Rows) /\ Len(log) <= Len(log')
<1>1. PICK s \in ByIndex(WithRow(S)) :
        log' = log \o [a \in DOMAIN s |->
                         [own |-> TRUE, id |-> node.capDone[s[a]].id,
                          dropped |-> node.capDone[s[a]].dropped]]
  BY DEF Finish
<1>2. s \in [1 .. Cardinality(WithRow(S)) -> WithRow(S)] /\ WithRow(S) \subseteq S
  BY DEF ByIndex, WithRow
<1>3. PICK L : L = Len(node.capDone) /\ L \in Nat /\ DOMAIN node.capDone = 1 .. L
               /\ \A k \in 1 .. L : node.capDone[k] \in DoneType
  <2>1. node.capDone \in Seq(DoneType)
    BY DEF NodeType
  <2> QED
    BY <2>1, SeqFacts
<1>4. Cardinality(WithRow(S)) \in Nat
  <2>1. IsFiniteSet(1 .. L) /\ WithRow(S) \subseteq 1 .. L
    <3>1. 1 \in Int /\ L \in Int
      BY <1>3
    <3> QED
      BY <1>2, <1>3, <3>1, FS_Interval
  <2>2. IsFiniteSet(WithRow(S))
    BY <2>1, FS_Subset
  <2> QED
    BY <2>2, FS_CardinalityType
<1>5. PICK rs : rs = [a \in DOMAIN s |-> [own |-> TRUE, id |-> node.capDone[s[a]].id,
                                          dropped |-> node.capDone[s[a]].dropped]]
  OBVIOUS
<1>6. \A a \in DOMAIN s : s[a] \in 1 .. L
  BY <1>2, <1>3
<1>7. \A a \in DOMAIN s : rs[a] \in Rows
  <2>1. \A b \in DoneType :
          [own |-> TRUE, id |-> b.id, dropped |-> b.dropped] \in Rows
    BY FrameIdsAreIds DEF DoneType, Rows
  <2> QED
    BY <1>3, <1>5, <1>6, <2>1, Zenon
<1>8. rs \in Seq(Rows)
  BY <1>2, <1>4, <1>5, <1>7
<1> QED
  BY <1>1, <1>5, <1>8

LEMMA LogGrows ==
  ASSUME Inv, log' \in Seq(Rows), Len(log) <= Len(log'), UNCHANGED <<meta, drain>>
  PROVE  MetaTypes'
<1>1. MetaTypes /\ Len(log) \in Nat /\ Len(log') \in Nat
  BY Kept DEF MetaTypes
<1>2. meta.pos \in Nat /\ drain.from + drain.got \in Nat
  BY <1>1 DEF MetaTypes, MetaType, DrainType
<1> QED
  BY <1>1, <1>2 DEF MetaTypes

LEMMA DequeueCaptureInv ==
  ASSUME Inv, DequeueCapture
  PROVE  Inv'
<1>1. "dqCap" \in OrdinaryCalls /\ At("dqCap") /\ Advance(0)
  BY DEF DequeueCapture, Call, OrdinaryCalls
<1>2. UNCHANGED <<stamp, slot, viv, mem, meta, errs, rate, drain>>
  BY DEF DequeueCapture
<1>3. OtherTypes' /\ node \in NodeType /\ ProgTypes /\ MetaTypes
  BY <1>2, Kept
<1>4. /\ node.capDone \in Seq(DoneType) /\ node.capDone # << >>
      /\ node' = [node EXCEPT !.capDone = Tail(@)]
      /\ cur' = [cur EXCEPT !.cap = Head(node.capDone)]
  BY <1>3 DEF DequeueCapture, NodeType
<1>5. Head(node.capDone) \in DoneType /\ Tail(node.capDone) \in Seq(DoneType)
      /\ {1} \subseteq DOMAIN node.capDone
  BY <1>4
<1>6. node' \in NodeType /\ SameQueues
  BY <1>3, <1>4, <1>5 DEF NodeType, SameQueues
<1>7. ProgTypes'
  <2>1. Head(node.capDone) \in CapType
    BY <1>5, FrameIdsAreIds
  <2>2. cur' \in CurType
    BY <1>3, <1>4, <2>1 DEF ProgTypes, CurType
  <2> QED
    BY <1>2, <1>3, <2>2 DEF ProgTypes
<1>8. MetaTypes'
  <2>1. log' \in Seq(Rows) /\ Len(log) <= Len(log')
    BY <1>3, <1>5, FinishOk DEF MetaTypes, DequeueCapture
  <2> QED
    BY <1>2, <2>1, LogGrows
<1> QED
  BY ONLY Inv, <1>1, <1>3, <1>6, <1>7, <1>8, CallInv

LEMMA DequeueOutputInv ==
  ASSUME Inv, DequeueOutput
  PROVE  Inv'
<1>1. "dqOut" \in OrdinaryCalls /\ At("dqOut") /\ Advance(0)
  BY DEF DequeueOutput, Call, OrdinaryCalls
<1>2. UNCHANGED <<stamp, slot, viv, mem, metaVars, drain>>
  BY DEF DequeueOutput
<1>3. OtherTypes' /\ node \in NodeType /\ ProgTypes /\ MetaTypes'
  BY <1>2, Kept DEF metaVars
<1>4. /\ node.outDone \in Seq([idx : Idx]) /\ node.outDone # << >>
      /\ node' = [node EXCEPT !.outDone = Tail(@)]
      /\ cur' = [cur EXCEPT !.out = Head(node.outDone).idx]
  BY <1>3 DEF DequeueOutput, NodeType
<1>5. Head(node.outDone) \in [idx : Idx] /\ Tail(node.outDone) \in Seq([idx : Idx])
  BY ONLY <1>4, SeqFacts
<1>6. node' \in NodeType /\ SameQueues
  BY <1>3, <1>4, <1>5 DEF NodeType, SameQueues
<1>7. ProgTypes'
  <2>1. cur' \in CurType
    BY <1>3, <1>4, <1>5 DEF ProgTypes, CurType
  <2> QED
    BY <1>2, <1>3, <2>1 DEF ProgTypes
<1> QED
  BY ONLY Inv, <1>1, <1>3, <1>6, <1>7, CallInv

LEMMA ReadMetaInv ==
  ASSUME Inv, ReadMeta
  PROVE  Inv'
<1>1. "readMeta" \in OrdinaryCalls /\ At("readMeta") /\ Advance(0)
  BY DEF ReadMeta, Call, OrdinaryCalls
<1>2. UNCHANGED <<stamp, slot, node, viv, mem, log, errs, rate, drain>>
  BY DEF ReadMeta
<1>3. OtherTypes' /\ node' \in NodeType /\ SameQueues /\ ProgTypes /\ MetaTypes
  BY <1>2, Kept
<1>4. /\ meta \in MetaType /\ meta.pos \in Nat /\ meta.open \in BOOLEAN
      /\ log \in Seq(Rows) /\ Len(log) \in Nat /\ meta.pos <= Len(log)
  BY <1>3 DEF MetaTypes, MetaType
<1>5. PICK r, x : /\ cur' = [cur EXCEPT !.read = meta.open, !.row = r]
                  /\ meta' = [meta EXCEPT !.pos = x]
                  /\ r = (IF meta.open THEN log[meta.pos + 1] ELSE NoRow)
                  /\ x = (IF meta.open THEN meta.pos + 1 ELSE meta.pos)
                  /\ meta.open => meta.pos < Len(log)
  BY DEF ReadMeta
<1>6. r \in Rows /\ x \in Nat /\ x <= Len(log)
  <2>1. CASE meta.open
    <3>1. meta.pos + 1 \in 1 .. Len(log) /\ r = log[meta.pos + 1] /\ x = meta.pos + 1
      BY <1>4, <1>5, <2>1
    <3> QED
      BY <1>4, <3>1
  <2>2. CASE ~meta.open
    BY <1>4, <1>5, <2>2, Constants
  <2> QED
    BY <2>1, <2>2
<1>7. ProgTypes'
  <2>1. cur' \in CurType
    BY <1>3, <1>4, <1>5, <1>6 DEF ProgTypes, CurType
  <2> QED
    BY <1>2, <1>3, <2>1 DEF ProgTypes
<1>8. MetaTypes'
  <2>1. meta' \in MetaType /\ meta'.pos = x
    BY <1>4, <1>5, <1>6 DEF MetaType
  <2> QED
    BY <1>2, <1>3, <1>6, <2>1 DEF MetaTypes
<1> QED
  BY ONLY Inv, <1>1, <1>3, <1>7, <1>8, CallInv

LEMMA WriteRowInv ==
  ASSUME Inv, WriteRow
  PROVE  Inv'
<1>1. "row" \in OrdinaryCalls /\ At("row") /\ Advance(0)
  BY DEF WriteRow, Call, OrdinaryCalls
<1>2. UNCHANGED <<stamp, slot, node, viv, mem, metaVars, drain>>
  BY DEF WriteRow
<1>3. OtherTypes' /\ node' \in NodeType /\ SameQueues /\ ProgTypes /\ MetaTypes'
  BY <1>2, Kept DEF metaVars
<1>4. cur.cap.idx \in Idx /\ cur.out \in Idx /\ cur.viv.idx \in Idx
  BY <1>3 DEF ProgTypes, CurType, CapType, FillType
<1>5. PICK a, b : a = [NoCap EXCEPT !.idx = cur.cap.idx]
                  /\ b = [NoFill EXCEPT !.idx = cur.viv.idx]
  OBVIOUS
<1>6. a \in CapType /\ b \in FillType
  BY <1>4, <1>5, Constants DEF CapType, FillType
<1>7. cur' = [Fresh EXCEPT !.cap = a, !.out = cur.out, !.viv = b]
  BY <1>5 DEF WriteRow, Fresh
<1>8. cur' \in CurType
  BY <1>4, <1>6, <1>7, Constants DEF CurType
<1>9. ProgTypes'
  BY <1>2, <1>3, <1>8 DEF ProgTypes
<1> QED
  BY ONLY Inv, <1>1, <1>3, <1>9, CallInv

LEMMA RequeueCaptureInv ==
  ASSUME Inv, RequeueCapture
  PROVE  Inv'
<1>1. "qCap" \in OrdinaryCalls /\ At("qCap") /\ Advance(0)
  BY DEF RequeueCapture, Call, OrdinaryCalls
<1>2. UNCHANGED <<progVars, viv, mem, metaVars, drain>>
  BY DEF RequeueCapture
<1>3. ProgTypes' /\ MetaTypes' /\ OtherTypes' /\ node \in NodeType /\ ProgTypes
  BY <1>2, Kept DEF metaVars
<1>4. cur.cap.idx \in Idx /\ node.capQ \in Seq(Idx)
  BY <1>3 DEF ProgTypes, CurType, CapType, NodeType
<1>5. PICK q : q \in Seq(Idx) /\ node' = [node EXCEPT !.capQ = q]
  <2>1. Append(node.capQ, cur.cap.idx) \in Seq(Idx)
    BY <1>4
  <2> QED
    BY <2>1 DEF RequeueCapture
<1>6. node' \in NodeType /\ SameQueues
  BY <1>3, <1>5 DEF NodeType, SameQueues
<1> QED
  BY ONLY Inv, <1>1, <1>3, <1>6, CallInv

LEMMA VerifyInv ==
  ASSUME Inv, Verify
  PROVE  Inv'
<1>1. "verify" \in OrdinaryCalls /\ At("verify") /\ me.runs # << >>
  BY DEF Verify, Call, OrdinaryCalls, At, Exited
<1>2. UNCHANGED <<progVars, node, viv, mem, metaVars, drain>>
  BY DEF Verify
<1>3. node' \in NodeType /\ SameQueues /\ ProgTypes' /\ MetaTypes' /\ OtherTypes'
  BY <1>2, Kept DEF metaVars
<1>4. CASE Advance(0)
  BY ONLY Inv, <1>1, <1>3, <1>4, CallInv
<1>5. CASE GiveUp("mismatch")
  <2>1. me' \in MeType => Types'
    BY <1>3 DEF Types, OtherTypes
  <2>2. "mismatch" \in Whys
    BY DEF Whys
  <2> QED
    BY <1>1, <1>3, <1>5, <2>1, <2>2, GiveUpInv
<1> QED
  BY <1>4, <1>5 DEF Verify
-----------------------------------------------------------------------------
(* The camera's calls. *)

LEMMA VivInv ==
  ASSUME Inv, NEW c \in OrdinaryCalls, At(c), Advance(0), viv' \in VivType, ProgTypes',
         UNCHANGED <<node, mem, metaVars, drain>>
  PROVE  Inv'
<1>1. node' \in NodeType /\ SameQueues /\ MetaTypes'
  BY Kept DEF metaVars
<1>2. OtherTypes'
  BY Kept DEF OtherTypes, metaVars
<1> QED
  BY ONLY Inv, c \in OrdinaryCalls, At(c), Advance(0), ProgTypes', <1>1, <1>2, CallInv

LEMMA CameraInv ==
  ASSUME Inv, OpenViv \/ RequestViv \/ StreamOnViv \/ StopViv
  PROVE  Inv'
<1>1. PICK c \in OrdinaryCalls : At(c) /\ Advance(0)
  BY DEF OpenViv, RequestViv, StreamOnViv, StopViv, Call, OrdinaryCalls
<1>2. UNCHANGED <<progVars, node, mem, metaVars, drain>>
  BY DEF OpenViv, RequestViv, StreamOnViv, StopViv
<1>3. ProgTypes' /\ viv \in VivType
  BY <1>2, Kept DEF OtherTypes
<1>4. viv' \in VivType
  <2>1. CASE OpenViv
    BY <2>1, Constants DEF OpenViv, VivType
  <2>2. CASE RequestViv
    <3>1. PICK g : g \in 0 .. N /\ viv' = [viv EXCEPT !.n = g]
      BY <2>2, Constants DEF RequestViv
    <3> QED
      BY <1>3, <3>1 DEF VivType
  <2>3. CASE StreamOnViv
    BY <1>3, <2>3 DEF StreamOnViv, VivType
  <2>4. CASE StopViv
    <3>1. << >> \in Seq(FillType)
      OBVIOUS
    <3> QED
      BY <1>3, <2>4, <3>1 DEF StopViv, VivType
  <2> QED
    BY <2>1, <2>2, <2>3, <2>4
<1> QED
  BY ONLY Inv, <1>1, <1>2, <1>3, <1>4, VivInv

LEMMA DequeueVivInv ==
  ASSUME Inv, DequeueViv
  PROVE  Inv'
<1>1. "dqViv" \in OrdinaryCalls /\ At("dqViv") /\ Advance(0)
  BY DEF DequeueViv, Call, OrdinaryCalls
<1>2. UNCHANGED <<stamp, slot, node, mem, metaVars, drain>>
  BY DEF DequeueViv
<1>3. ProgTypes /\ viv \in VivType
  BY Kept DEF OtherTypes
<1>4. PICK q : q = viv.done /\ q \in Seq(FillType) /\ q # << >>
  BY <1>3 DEF DequeueViv, VivType
<1>5. Head(q) \in FillType /\ Tail(q) \in Seq(FillType)
  BY <1>4, SeqFacts
<1>6. viv' \in VivType
  BY <1>3, <1>4, <1>5 DEF DequeueViv, VivType
<1>7. cur' \in CurType
  BY <1>3, <1>4, <1>5 DEF DequeueViv, CurType, ProgTypes
<1>8. ProgTypes'
  BY <1>2, <1>3, <1>7 DEF ProgTypes
<1> QED
  BY ONLY Inv, <1>1, <1>2, <1>6, <1>8, VivInv

(* There are enough addresses for the regions of all slots. *)
LEMMA SlotAddrs ==
  /\ (CHOOSE f \in [Idx -> Addrs] : Injective(f)) \in [Idx -> Addrs]
  /\ Injective(CHOOSE f \in [Idx -> Addrs] : Injective(f))
<1>1. PICK C : C = Cardinality(Addrs) /\ C \in Nat /\ C > N
               /\ ExistsBijection(1 .. C, Addrs)
  BY ToolsAssumption, FS_CardinalityType
<1>2. PICK g \in [1 .. C -> Addrs] : \A a, b \in 1 .. C : g[a] = g[b] => a = b
  BY <1>1 DEF ExistsBijection, Bijection, Injection, IsInjective
<1>3. PICK f : f = [i \in Idx |-> g[i + 1]]
  OBVIOUS
<1>4. \A i \in Idx : i + 1 \in 1 .. C
  BY <1>1, Constants DEF Idx
<1>5. f \in [Idx -> Addrs]
  BY <1>2, <1>3, <1>4
<1>6. Injective(f)
  <2>1. ASSUME NEW a \in Idx, NEW b \in Idx, f[a] = f[b] PROVE a = b
    <3>1. g[a + 1] = g[b + 1]
      BY <1>3, <2>1
    <3>2. a + 1 = b + 1
      BY <1>2, <1>4, <3>1
    <3> QED
      BY <3>2, Constants DEF Idx
  <2> QED
    BY <1>5, <2>1 DEF Injective
<1> QED
  BY <1>5, <1>6

LEMMA MapSlotsInv ==
  ASSUME Inv, MapSlots
  PROVE  Inv'
<1>1. "mapSlots" \in OrdinaryCalls /\ At("mapSlots") /\ Advance(0)
  BY DEF MapSlots, Call, OrdinaryCalls
<1>2. UNCHANGED <<cur, stamp, node, viv, mem, metaVars, drain>>
  BY DEF MapSlots
<1>3. ProgTypes /\ viv' \in VivType
  BY <1>2, Kept DEF OtherTypes
<1>4. PICK f : f \in [Idx -> Addrs] /\ slot' = [slot EXCEPT !.addr = f]
  BY SlotAddrs DEF MapSlots
<1>5. f \in [Idx -> Addrs \cup {0}]
  BY <1>4
<1>6. slot' \in SlotType
  BY <1>3, <1>4, <1>5 DEF ProgTypes, SlotType
<1>7. ProgTypes'
  BY <1>2, <1>3, <1>6 DEF ProgTypes
<1> QED
  BY ONLY Inv, <1>1, <1>2, <1>3, <1>7, VivInv

LEMMA RemapInv ==
  ASSUME Inv, Remap
  PROVE  Inv'
<1>1. "remap" \in OrdinaryCalls /\ At("remap") /\ me.runs # << >>
  BY DEF Remap, Call, OrdinaryCalls, At, Exited
<1>2. UNCHANGED <<cur, stamp, node, viv, mem, metaVars, drain>>
  BY DEF Remap
<1>3. ProgTypes /\ viv' \in VivType
  BY <1>2, Kept DEF OtherTypes
<1>4. CASE GiveUp("refused") /\ UNCHANGED slot
  <2>1. node' \in NodeType /\ SameQueues /\ ProgTypes' /\ MetaTypes' /\ OtherTypes'
    BY <1>2, <1>4, Kept DEF metaVars, progVars
  <2>2. me' \in MeType => Types'
    BY <2>1 DEF Types, OtherTypes
  <2>3. "refused" \in Whys
    BY DEF Whys
  <2> QED
    BY <1>1, <1>4, <2>1, <2>2, <2>3, GiveUpInv
<1>5. CASE Advance(0) /\ \E a \in Addrs : slot' = [slot EXCEPT !.addr[cur.viv.idx] = a]
  <2>1. PICK a \in Addrs : slot' = [slot EXCEPT !.addr[cur.viv.idx] = a]
    BY <1>5
  <2>2. cur.viv.idx \in Idx /\ slot.addr \in [Idx -> Addrs \cup {0}]
    BY <1>3 DEF ProgTypes, CurType, FillType, SlotType
  <2>3. PICK f : f = [slot.addr EXCEPT ![cur.viv.idx] = a]
    OBVIOUS
  <2>4. f \in [Idx -> Addrs \cup {0}] /\ slot' = [slot EXCEPT !.addr = f]
    BY <2>1, <2>2, <2>3
  <2>5. slot' \in SlotType
    BY <1>3, <2>4 DEF ProgTypes, SlotType
  <2>6. ProgTypes'
    BY <1>2, <1>3, <2>5 DEF ProgTypes
  <2> QED
    BY ONLY Inv, <1>1, <1>2, <1>3, <1>5, <2>6, VivInv
<1> QED
  BY <1>4, <1>5 DEF Remap, FreeAddrs

LEMMA QueueVivOk ==
  ASSUME Inv, NEW is \in Seq(Idx), NEW warm \in BOOLEAN, QueueViv(is, warm)
  PROVE  ProgTypes' /\ viv' \in VivType
<1>1. ProgTypes /\ viv \in VivType /\ Len(is) \in Nat /\ DOMAIN is = 1 .. Len(is)
  BY Kept DEF OtherTypes
<1>2. viv.qbufs \in Nat /\ viv.q \in Seq(FillType) /\ Len(viv.q) \in Nat
  BY <1>1 DEF VivType
<1>3. slot.addr \in [Idx -> Addrs \cup {0}] /\ slot.pin \in [Idx -> Addrs \cup {0}]
      /\ slot.faults \in [Idx -> BOOLEAN] /\ stamp \in [Idx -> Ids] /\ slot \in SlotType
  BY <1>1 DEF ProgTypes, SlotType
<1>4. \A k \in DOMAIN is : is[k] \in Idx /\ <<0, viv.qbufs + k - 1>> \in Ids
  BY <1>1, <1>2 DEF Ids
<1>5. viv' \in VivType
  <2>1. PICK r : r = [k \in DOMAIN is |->
                       [idx |-> is[k], id |-> <<0, viv.qbufs + k - 1>>,
                        addr |-> slot.addr[is[k]], seq |-> Blank]]
    OBVIOUS
  <2>2. \A k \in DOMAIN is : r[k] \in FillType
    BY <1>3, <1>4, <2>1, Constants DEF FillType
  <2>3. r \in Seq(FillType)
    BY <1>1, <2>1, <2>2
  <2>4. PICK q : q = viv.q \o r /\ q \in Seq(FillType)
    <3>1. viv.q \o r \in Seq(FillType)
      BY <1>2, <2>3
    <3> QED
      BY <3>1
  <2>5. viv' = [viv EXCEPT !.qbufs = viv.qbufs + Len(is), !.q = q]
    BY <2>1, <2>4 DEF QueueViv
  <2> QED
    <3>1. viv.qbufs + Len(is) \in Nat
      BY <1>1, <1>2
    <3> QED
      BY <1>1, <2>4, <2>5, <3>1 DEF VivType
<1>6. stamp' \in [Idx -> Ids]
  <2>1. ASSUME NEW s \in Idx, \E k \in DOMAIN is : is[k] = s
        PROVE  <<0, viv.qbufs + (CHOOSE k \in DOMAIN is : is[k] = s) - 1>> \in Ids
    BY <1>4, <2>1
  <2> QED
    BY <1>3, <2>1 DEF QueueViv
<1>7. slot' \in SlotType
  <2>1. PICK p, f :
          /\ slot' = [slot EXCEPT !.pin = p, !.faults = f]
          /\ p = [s \in Idx |-> IF \E k \in DOMAIN is : is[k] = s
                                THEN slot.addr[s] ELSE slot.pin[s]]
          /\ f = [s \in Idx |-> IF \E k \in DOMAIN is : is[k] = s
                                THEN ~warm /\ slot.pin[s] # slot.addr[s]
                                ELSE slot.faults[s]]
    BY DEF QueueViv
  <2>2. p \in [Idx -> Addrs \cup {0}]
    BY <1>3, <2>1
  <2>3. f \in [Idx -> BOOLEAN]
    BY <1>3, <2>1, Zenon
  <2> QED
    BY <1>3, <2>1, <2>2, <2>3 DEF SlotType
<1>8. cur' = cur
  BY DEF QueueViv
<1> QED
  BY <1>1, <1>5, <1>6, <1>7, <1>8 DEF ProgTypes

LEMMA QueueVivInv ==
  ASSUME Inv, QueueSlots \/ RequeueViv
  PROVE  Inv'
<1>1. PICK c \in OrdinaryCalls : At(c) /\ Advance(0)
  BY DEF QueueSlots, RequeueViv, Call, OrdinaryCalls
<1>2. \E is \in Seq(Idx), warm \in BOOLEAN : QueueViv(is, warm)
  <2>1. \A k \in 1 .. N : k - 1 \in Idx
    BY Constants DEF Idx
  <2>2. PICK z : z = [k \in 1 .. N |-> k - 1] /\ z \in Seq(Idx)
    <3>1. [k \in 1 .. N |-> k - 1] \in Seq(Idx)
      BY <2>1, Constants
    <3> QED
      BY <3>1
  <2>3. cur.viv.idx \in Idx
    BY Kept DEF ProgTypes, CurType, FillType
  <2>4. PICK y : y = <<cur.viv.idx>> /\ y \in Seq(Idx)
    <3>1. <<cur.viv.idx>> \in Seq(Idx)
      BY <2>3
    <3> QED
      BY <3>1
  <2>5. QueueViv(z, TRUE) \/ QueueViv(y, FALSE)
    BY <2>2, <2>4, Zenon DEF QueueSlots, RequeueViv
  <2> QED
    BY <2>2, <2>4, <2>5, Zenon
<1>3. UNCHANGED <<node, mem, metaVars, drain>>
  BY <1>2 DEF QueueViv
<1>4. ProgTypes' /\ viv' \in VivType
  BY <1>2, QueueVivOk
<1> QED
  BY ONLY Inv, <1>1, <1>3, <1>4, VivInv
-----------------------------------------------------------------------------
(* The cleanup, and the calls that fail. *)

LEMMA StopOutputInv ==
  ASSUME Inv, StopOutput
  PROVE  Inv'
<1>1. At("offOut") /\ Advance(0) /\ UNCHANGED <<progVars, viv, mem, metaVars, drain>>
  BY DEF StopOutput
<1>2. node' = [node EXCEPT !.on = @ \ {"OUT"}, !.outQ = << >>, !.outDone = << >>]
  BY DEF StopOutput
<1>3. /\ node \in NodeType /\ << >> \in Seq(InType) /\ << >> \in Seq([idx : Idx])
  BY Kept
<1>4. node' \in NodeType /\ SameQueues /\ "OUT" \notin node'.on
  BY <1>2, <1>3 DEF NodeType, SameQueues
<1>5. Ordinary("offOut")
  BY <1>4 DEF Ordinary, Closes, Prepares, Formats, Requests
<1>6. ProgTypes' /\ MetaTypes' /\ OtherTypes'
  BY <1>1, Kept DEF metaVars
<1>7. me' \in MeType => Types'
  BY <1>4, <1>6 DEF Types, OtherTypes
<1> QED
  BY <1>1, <1>4, <1>5, <1>7, StepOk

LEMMA StopCaptureInv ==
  ASSUME Inv, StopCapture
  PROVE  Inv'
<1>1. /\ "offCap" \in OrdinaryCalls /\ At("offCap") /\ Advance(0)
      /\ UNCHANGED <<progVars, viv, mem, meta, errs, rate, drain>>
      /\ Finish(DOMAIN node.capDone)
  BY DEF StopCapture, OrdinaryCalls
<1>2. node' = [node EXCEPT !.on = @ \ {"CAP"}, !.capQ = << >>, !.capDone = << >>]
  BY DEF StopCapture
<1>3. /\ node \in NodeType /\ << >> \in Seq(Idx) /\ << >> \in Seq(DoneType)
  BY Kept
<1>4. node' \in NodeType /\ SameQueues
  BY <1>2, <1>3 DEF NodeType, SameQueues
<1>5. MetaTypes'
  <2>1. log \in Seq(Rows)
    BY Kept DEF MetaTypes
  <2>2. log' \in Seq(Rows) /\ Len(log) <= Len(log')
    BY <1>1, <1>3, <2>1, FinishOk
  <2> QED
    BY <1>1, <2>2, LogGrows
<1>6. ProgTypes' /\ OtherTypes'
  BY <1>1, Kept
<1> QED
  BY ONLY Inv, <1>1, <1>4, <1>5, <1>6, CallInv

LEMMA CloseMetaInv ==
  ASSUME Inv, CloseMeta
  PROVE  Inv'
<1>1. /\ "closeMeta" \in OrdinaryCalls /\ At("closeMeta") /\ Advance(0)
      /\ UNCHANGED <<progVars, node, viv, mem, log, errs, rate, drain>>
      /\ meta' = [meta EXCEPT !.open = FALSE]
  BY DEF CloseMeta, OrdinaryCalls
<1>2. ProgTypes' /\ OtherTypes' /\ node' \in NodeType /\ SameQueues /\ MetaTypes
  BY <1>1, Kept
<1>3. meta' \in MetaType /\ meta'.pos = meta.pos
  BY <1>1, <1>2 DEF MetaTypes, MetaType
<1>4. MetaTypes'
  BY <1>1, <1>2, <1>3 DEF MetaTypes
<1> QED
  BY ONLY Inv, <1>1, <1>2, <1>4, CallInv

LEMMA FailsInv ==
  ASSUME Inv, Refused \/ Fails \/ Crashes \/ Killed
  PROVE  Inv'
<1>1. (\E w \in Whys : GiveUp(w)) \/ Dies
  BY DEF Refused, Fails, Whys, Crashes, Killed
<1>2. me.runs # << >> /\ UNCHANGED <<progVars, node, viv, mem, metaVars, drain>>
  BY DEF Refused, Fails, At, Exited, Crashes, Killed, Faults, Dies
<1>3. node' \in NodeType /\ SameQueues /\ ProgTypes' /\ MetaTypes' /\ OtherTypes'
  BY <1>2, Kept DEF metaVars
<1>4. me' \in MeType => Types'
  BY <1>3 DEF Types, OtherTypes
<1> QED
  BY <1>1, <1>2, <1>3, <1>4, GiveUpInv, DiesInv

(* Files are closed in the cleanup only. *)
LEMMA CloseCall ==
  ASSUME Inv, NEW c \in Closes, At(c)
  PROVE  /\ Phase = "cleanup" /\ me.runs # << >> /\ Body = Prog.cleanup
         /\ Prog.cleanup[me.pc[2]] = c /\ me.pc[2] \in 1 .. Len(Prog.cleanup)
<1>1. me \in MeType /\ Place /\ me.runs # << >>
  BY DEF Inv, Types, At, Exited
<1>2. PICK g : g = Prog /\ Plan(g) /\ Placed(me, g)
  BY <1>1, Planned DEF Place
<1>3. Phase \in Phases /\ me.pc[2] \in 1 .. Len(Part(g, Phase))
      /\ (Phase = "after" => g.after # << >>) /\ c = Part(g, Phase)[me.pc[2]]
  BY <1>1, <1>2, MeFields, BodyIs DEF Placed, Phase, At
<1>4. Phase # "fill"
  <2>1. c # "submit"
    BY DEF Closes
  <2>2. <<"submit">>[1] = "submit" /\ Len(<<"submit">>) = 1
    OBVIOUS
  <2>3. ASSUME NEW x, x = <<"submit">>, me.pc[2] \in 1 .. Len(x) PROVE x[me.pc[2]] = "submit"
    BY <2>2, <2>3
  <2> QED
    BY <1>2, <1>3, <2>1, <2>3, PartOf
<1>5. Phase \notin {"setup", "loop", "after"}
  BY <1>2, <1>3, PartOf DEF Plan, SetupPlan, LoopPlan, AfterPlan
<1>6. Phase = "cleanup"
  BY <1>3, <1>4, <1>5 DEF Phases
<1> QED
  BY <1>1, <1>2, <1>3, <1>6, PartOf, BodyIs

LEMMA NextRunTypes ==
  ASSUME Inv, NextRun
  PROVE  /\ cur' \in CurType /\ stamp' \in [Idx -> Ids] /\ errs' \in 0 .. MaxErrors
         /\ drain' \in DrainType /\ drain'.from = drain.from /\ drain'.got = drain.got
         /\ drain'.state = "starting" => drain.state = "starting"
<1>1. drain \in DrainType /\ errs \in 0 .. MaxErrors /\ 0 \in 0 .. MaxErrors
  BY ToolsAssumption DEF Inv, Types, MetaTypes
<1>2. errs' \in 0 .. MaxErrors
  BY <1>1 DEF NextRun
<1>3. cur' \in CurType /\ stamp' \in [Idx -> Ids]
  BY Constants DEF NextRun
<1>4. /\ drain' \in DrainType /\ drain'.from = drain.from /\ drain'.got = drain.got
      /\ drain'.state = "starting" => drain.state = "starting"
  BY <1>1 DEF NextRun, DrainType
<1> QED
  BY <1>2, <1>3, <1>4

LEMMA CloseInv ==
  ASSUME Inv, Close
  PROVE  Inv'
<1>1. /\ At("close") /\ "close" \in Closes /\ node' = ClosedNode
      /\ Finish(DOMAIN node.capDone) /\ UNCHANGED <<slot, viv, mem, meta, rate>>
  BY DEF Close, Closes
<1>2. Phase = "cleanup" /\ me.runs # << >>
  BY <1>1, CloseCall
<1>3. node' \in NodeType /\ node'.on = {}
  BY <1>1, Constants DEF ClosedNode
<1>4. log' \in Seq(Rows) /\ Len(log) <= Len(log')
  <2>1. log \in Seq(Rows) /\ node \in NodeType
    BY Kept DEF MetaTypes
  <2> QED
    BY <1>1, <2>1, FinishOk
<1>5. me \in MeType /\ Place /\ Types
  BY DEF Inv, Types
<1>6. CASE NextRun
  <2>1. /\ me' \in MeType /\ Place'
        /\ me'.runs = << >> \/ me'.pc = <<"setup", 1>>
    BY <1>2, <1>5, <1>6, NextRunOk
  <2>2. /\ cur' \in CurType /\ stamp' \in [Idx -> Ids] /\ errs' \in 0 .. MaxErrors
        /\ drain' \in DrainType /\ drain'.from = drain.from /\ drain'.got = drain.got
        /\ drain'.state = "starting" => drain.state = "starting"
    BY <1>6, NextRunTypes
  <2>3. MetaTypes'
    <3>1. MetaTypes /\ Len(log) \in Nat /\ Len(log') \in Nat
      BY <1>4, Kept DEF MetaTypes
    <3>2. meta.pos \in Nat /\ drain.from + drain.got \in Nat
      BY <3>1 DEF MetaTypes, MetaType, DrainType
    <3> QED
      BY <1>1, <1>4, <2>2, <3>1, <3>2 DEF MetaTypes
  <2>4. Types'
    BY <1>1, <1>3, <1>5, <2>1, <2>2, <2>3 DEF Types, ProgTypes
  <2>5. me'.runs # << >> => Phase' = "setup" /\ me'.pc[2] = 1
    BY <2>1 DEF Phase
  <2>6. Sized' /\ Stopped'
    BY <1>3, <2>5, CalledNone DEF Sized, Stopped
  <2> QED
    BY <2>1, <2>4, <2>6 DEF Inv
<1>7. CASE me.pc[2] # Len(Body) /\ Advance(0) /\ UNCHANGED <<cur, stamp, drain, errs>>
  <2>1. /\ me' \in MeType /\ Place' /\ Moves(me, me', Prog) /\ Prog' = Prog
    <3>1. "close" # "submit"
      OBVIOUS
    <3> QED
      BY <1>1, <1>5, <1>7, <3>1, AdvanceOk
  <2>2. Phase' # "setup"
    BY <1>2, <1>5, <2>1, Onward
  <2>3. MetaTypes'
    BY <1>1, <1>4, <1>7, LogGrows
  <2>4. Types'
    BY <1>1, <1>3, <1>5, <1>7, <2>1, <2>3 DEF Types, ProgTypes
  <2>5. Sized' /\ Stopped'
    BY <1>3, <2>2 DEF Sized, Stopped
  <2> QED
    BY <2>1, <2>4, <2>5 DEF Inv
<1> QED
  BY <1>6, <1>7 DEF Close

LEMMA CloseVivInv ==
  ASSUME Inv, CloseViv
  PROVE  Inv'
<1>1. /\ At("closeViv") /\ "closeViv" \in Closes /\ viv' = ClosedViv /\ NextRun
      /\ UNCHANGED <<slot, node, mem, log, meta, rate>>
  BY DEF CloseViv, Closes
<1>2. /\ me.runs # << >> /\ Prog.cleanup[me.pc[2]] = "closeViv"
      /\ me.pc[2] \in 1 .. Len(Prog.cleanup)
  BY <1>1, CloseCall
<1>3. me \in MeType /\ Place /\ Types
  BY DEF Inv, Types
<1>4. me' \in MeType /\ Place' /\ me'.runs = << >>
  <2>1. /\ me' \in MeType /\ Place'
        /\ me'.runs = << >> \/ Head(me.runs) = "runOne"
    BY <1>1, <1>2, <1>3, NextRunOk
  <2>2. Head(me.runs) # "runOne"
    BY <1>2, RunnerNeverClosesViv DEF Prog
  <2> QED
    BY <2>1, <2>2
<1>5. /\ cur' \in CurType /\ stamp' \in [Idx -> Ids] /\ errs' \in 0 .. MaxErrors
      /\ drain' \in DrainType /\ drain'.from = drain.from /\ drain'.got = drain.got
      /\ drain'.state = "starting" => drain.state = "starting"
  BY <1>1, NextRunTypes
<1>6. MetaTypes'
  BY <1>1, <1>3, <1>5 DEF MetaTypes, Types
<1>7. Types'
  BY <1>1, <1>3, <1>4, <1>5, <1>6, Constants DEF Types, ProgTypes
<1>8. Sized' /\ Stopped'
  BY <1>1, <1>4 DEF Inv, Sized, Stopped
<1> QED
  BY <1>4, <1>7, <1>8 DEF Inv
-----------------------------------------------------------------------------
(* Submitting a frame. *)

(* A frame is submitted before all frames have been completed. *)
LEMMA SubmitCall ==
  ASSUME Inv, At("submit")
  PROVE  /\ me.runs # << >> /\ Plan(Prog) /\ me.i \in Nat /\ me.sent \in Nat
         /\ Phase \in {"setup", "fill", "loop"} /\ Len(me.runs) \in 1 .. 2
         /\ Prog.depth \in Nat /\ Prog.frames \in Nat /\ Prog.frames <= Frames
         /\ Prog.depth = 0 => me.i < Frames
<1>1. me \in MeType /\ Place /\ me.runs # << >> /\ me.i \in Nat /\ me.sent \in Nat
  BY MeFields DEF Inv, Types, At, Exited
<1>2. PICK g : g = Prog /\ Plan(g) /\ Placed(me, g)
  BY <1>1, Planned DEF Place
<1>3. Phase \in Phases /\ me.pc[2] \in 1 .. Len(Part(g, Phase))
      /\ (Phase = "after" => g.after # << >>) /\ Part(g, Phase)[me.pc[2]] = "submit"
  BY <1>1, <1>2, MeFields, BodyIs DEF Placed, Phase, At
<1>4. Phase \notin {"after", "cleanup"}
  BY <1>2, <1>3, PartOf DEF Plan, AfterPlan, CleanupPlan
<1>5. g.depth \in Nat /\ g.frames \in Nat /\ g.frames <= Frames /\ Frames >= 1
      /\ Frames \in Nat
  BY <1>2, Constants DEF Plan
<1>6. /\ Phase = "setup" => me.i = 0
      /\ Phase = "fill" => g.depth # 0
      /\ Phase = "loop" => me.i < g.frames
  BY <1>2 DEF Placed, Phase
<1>7. g.depth = 0 => me.i < Frames
  BY <1>1, <1>3, <1>4, <1>5, <1>6 DEF Phases
<1>8. Len(me.runs) \in 1 .. 2
  BY <1>1, Planned, MainRuns
<1> QED
  BY <1>1, <1>2, <1>3, <1>4, <1>5, <1>7, <1>8 DEF Phases

LEMMA OutIndexOk ==
  ASSUME Inv, Call("submit"), Submits
  PROVE  OutIndex \in Idx /\ MineOut(OutIndex)
<1>1. At("submit") /\ MineOut(OutIndex)
  BY DEF Call, Accepts
<1>2. Plan(Prog) /\ me.i \in Nat /\ me.sent \in Nat
  BY <1>1, SubmitCall
<1>3. cur.out \in Nat /\ cur.viv.idx \in Nat
  BY Kept, Constants DEF ProgTypes, CurType, FillType
<1>4. me.i % N \in Nat
  BY <1>2, Constants
<1>5. OutIndex \in Nat
  BY <1>2, <1>3, <1>4 DEF OutIndex, Plan
<1>6. OutIndex < node.n.OUT /\ node.n.OUT \in Nat /\ node.n.OUT <= N
  BY <1>1, Kept, Constants DEF MineOut, NodeType
<1> QED
  BY <1>1, <1>5, <1>6, Constants DEF Idx

LEMMA SubmitInv ==
  ASSUME Inv, Submit
  PROVE  Inv'
<1>1. PICK no, cell, i, d :
        /\ no = IF Prog.depth > 0 THEN me.sent ELSE me.i
        /\ i = OutIndex /\ cell = <<Prog.mem, i>> /\ d = Drops(no)
        /\ mem' = Drawn(cell, no, d)
        /\ node' = [node EXCEPT !.outQ = Append(@,
              [idx |-> i, id |-> Id(no), seq |-> node.seq, cell |-> cell,
               dropped |-> d])]
        /\ stamp' = IF BothDevices THEN stamp
                    ELSE [stamp EXCEPT ![StampSlot(no)] = Id(no)]
  BY Zenon DEF Submit
<1>2. /\ Call("submit") /\ At("submit") /\ Submits /\ Advance(1)
      /\ UNCHANGED <<cur, slot, viv, metaVars, drain>>
  BY DEF Submit, Call
<1>3. /\ Plan(Prog) /\ me.i \in Nat /\ me.sent \in Nat /\ Len(me.runs) \in 1 .. 2
      /\ Prog.depth \in Nat /\ Prog.frames \in Nat /\ Prog.frames <= Frames
      /\ Prog.depth = 0 => me.i < Frames
  BY <1>2, SubmitCall
<1>4. no \in 0 .. Frames - 1
  BY <1>1, <1>2, <1>3, Constants DEF Submits
<1>5. Id(no) \in FrameIds /\ Id(no) \in Ids
  BY <1>3, <1>4, FrameIdsAreIds DEF Id, FrameIds
<1>6. i \in Idx /\ cell \in Cells
  BY <1>1, <1>2, <1>3, OutIndexOk DEF Cells, Plan
<1>7. d \in BOOLEAN
  BY <1>1, Zenon DEF Drops
<1>8. node \in NodeType /\ node.seq \in Pixels /\ node.outQ \in Seq(InType)
  BY Kept DEF NodeType
<1>9. node' \in NodeType /\ SameQueues
  <2>1. PICK b : b = [idx |-> i, id |-> Id(no), seq |-> node.seq, cell |-> cell,
                      dropped |-> d]
    OBVIOUS
  <2>2. b \in InType
    BY <1>5, <1>6, <1>7, <1>8, <2>1 DEF InType
  <2>3. PICK q : q = Append(node.outQ, b)
    OBVIOUS
  <2>4. q \in Seq(InType)
    BY <1>8, <2>2, <2>3, SeqFacts
  <2>5. node' = [node EXCEPT !.outQ = q]
    BY <1>1, <2>1, <2>3
  <2> QED
    BY <1>8, <2>4, <2>5 DEF NodeType, SameQueues
<1>10. mem' \in [Cells -> Pixels]
  <2>1. mem \in [Cells -> Pixels] /\ cur.viv.seq \in Pixels /\ cur.viv.idx \in Idx
    BY Kept DEF OtherTypes, ProgTypes, CurType, FillType
  <2>2. PICK w : w = Wanted(no)
    OBVIOUS
  <2>3. w \in Pixels
    <3>1. <<"fixture", 0, 0>> \in Pixels /\ <<"frame", Len(me.runs), no>> \in Pixels
      BY <1>3, <1>4, Constants DEF Pixels
    <3> QED
      BY <2>1, <2>2, <3>1 DEF Wanted
  <2>4. mem[<<"viv", cur.viv.idx>>] \in Pixels
    BY <2>1 DEF Cells
  <2>5. \/ mem' = [mem EXCEPT ![cell] = w, ![<<"surface", 0>>] = w]
        \/ mem' = [mem EXCEPT ![cell] = IF Prog.index = "camera"
                                        THEN mem[<<"viv", cur.viv.idx>>] ELSE w]
        \/ mem' = mem
    BY <1>1, <2>2, Zenon DEF Drawn
  <2> QED
    BY <2>1, <2>3, <2>4, <2>5
<1>11. ProgTypes'
  <2>1. stamp' \in [Idx -> Ids]
    BY <1>1, <1>5, Kept DEF ProgTypes
  <2> QED
    BY <1>2, <2>1, Kept DEF ProgTypes
<1>12. me' \in MeType => Types'
  BY <1>2, <1>9, <1>10, <1>11 DEF Inv, Types, MetaTypes, metaVars
<1>13. Ordinary("submit")
  BY DEF Ordinary, Closes, Prepares, Formats, Requests
<1> QED
  BY <1>2, <1>9, <1>12, <1>13, StepOk

LEMMA SubmitNoneInv ==
  ASSUME Inv, SubmitNone
  PROVE  Inv'
<1>1. /\ At("submit") /\ ~Submits /\ Advance(0)
      /\ UNCHANGED <<progVars, node, viv, mem, metaVars, drain>>
  BY DEF SubmitNone, Call
<1>2. node' \in NodeType /\ SameQueues /\ ProgTypes' /\ MetaTypes' /\ OtherTypes'
  BY <1>1, Kept DEF metaVars
<1>3. me' \in MeType => Types'
  BY <1>2 DEF Types, OtherTypes
<1>4. Ordinary("submit")
  BY DEF Ordinary, Closes, Prepares, Formats, Requests
<1>5. Prog.depth # 0
  BY <1>1 DEF Submits
<1> QED
  BY <1>1, <1>2, <1>3, <1>4, <1>5, StepOk
-----------------------------------------------------------------------------
(* The devices' own steps and the drain. *)

LEMMA RunJobInv ==
  ASSUME Inv, RunJob
  PROVE  Inv'
<1>1. PICK in, err, c, px :
        /\ in = Head(node.outQ) /\ c = Head(node.capQ) /\ err \in BOOLEAN
        /\ px = (IF err THEN Blank ELSE mem[in.cell])
        /\ err => errs < MaxErrors
        /\ node' = [node EXCEPT !.outQ = Tail(@), !.capQ = Tail(@),
              !.outDone = Append(@, [idx |-> in.idx]),
              !.capDone = Append(@, [idx |-> c, id |-> in.id, seq |-> in.seq,
                            dropped |-> in.dropped, err |-> err, pixels |-> px])]
        /\ errs' = errs + (IF err THEN 1 ELSE 0)
  BY Zenon DEF RunJob
<1>2. /\ node.outQ # << >> /\ node.capQ # << >>
      /\ UNCHANGED <<me, progVars, viv, mem, log, meta, rate, drain>>
  BY DEF RunJob
<1>3. /\ node \in NodeType /\ node.outQ \in Seq(InType) /\ node.capQ \in Seq(Idx)
      /\ node.outDone \in Seq([idx : Idx]) /\ node.capDone \in Seq(DoneType)
      /\ mem \in [Cells -> Pixels] /\ errs \in 0 .. MaxErrors /\ Types
  BY DEF Inv, Types, NodeType
<1>4. /\ in \in InType /\ c \in Idx /\ Tail(node.outQ) \in Seq(InType)
      /\ Tail(node.capQ) \in Seq(Idx)
  BY <1>1, <1>2, <1>3, SeqFacts
<1>5. /\ in.idx \in Idx /\ in.id \in FrameIds /\ in.seq \in Pixels /\ in.cell \in Cells
      /\ in.dropped \in BOOLEAN
  BY <1>4 DEF InType
<1>6. px \in Pixels
  <2>1. mem[in.cell] \in Pixels /\ Blank \in Pixels
    BY <1>3, <1>5, Constants
  <2> QED
    BY <1>1, <2>1, Zenon
<1>7. errs' \in 0 .. MaxErrors
  BY <1>1, <1>3, ToolsAssumption
<1>8. PICK a, b : /\ a = [idx |-> in.idx]
                  /\ b = [idx |-> c, id |-> in.id, seq |-> in.seq,
                          dropped |-> in.dropped, err |-> err, pixels |-> px]
  OBVIOUS
<1>9. a \in [idx : Idx] /\ b \in DoneType
  BY <1>1, <1>4, <1>5, <1>6, <1>8 DEF DoneType
<1>10. PICK q, r : q = Append(node.outDone, a) /\ r = Append(node.capDone, b)
  OBVIOUS
<1>11. q \in Seq([idx : Idx]) /\ r \in Seq(DoneType)
  BY ONLY <1>3, <1>9, <1>10, SeqFacts
<1>12. node' = [node EXCEPT !.outQ = Tail(@), !.capQ = Tail(@), !.outDone = q,
                            !.capDone = r]
  BY <1>1, <1>8, <1>10
<1>13. node' \in NodeType /\ SameQueues
  BY <1>3, <1>4, <1>11, <1>12 DEF NodeType, SameQueues
<1>14. Types'
  BY <1>2, <1>3, <1>7, <1>13 DEF Types, ProgTypes, MetaTypes, progVars
<1> QED
  BY <1>2, <1>13, <1>14, OthersInv

LEMMA VividInv ==
  ASSUME Inv, VividFill \/ VividSkip
  PROVE  Inv'
<1>1. UNCHANGED <<me, progVars, node, metaVars, drain>>
  BY DEF VividFill, VividSkip
<1>2. Types /\ viv \in VivType /\ mem \in [Cells -> Pixels] /\ viv.seq \in Nat
      /\ viv.q \in Seq(FillType) /\ viv.done \in Seq(FillType) /\ viv.skips \in Nat
  BY DEF Inv, Types, VivType
<1>3. viv' \in VivType /\ mem' \in [Cells -> Pixels]
  <2>1. CASE VividFill
    <3>1. PICK s, h : /\ s = <<"camera", 0, viv.seq>> /\ h = Head(viv.q)
                      /\ mem' = [mem EXCEPT ![<<"viv", h.idx>>] = s]
                      /\ viv' = [viv EXCEPT !.seq = @ + 1, !.q = Tail(@),
                                   !.done = Append(@, [h EXCEPT !.seq = s])]
                      /\ viv.q # << >>
      BY <2>1 DEF VividFill
    <3>2. s \in Pixels
      BY <1>2, <3>1 DEF Pixels
    <3>3. h \in FillType /\ Tail(viv.q) \in Seq(FillType)
      BY <1>2, <3>1, SeqFacts
    <3>4. PICK b : b = [h EXCEPT !.seq = s] /\ b \in FillType
      <4>1. [h EXCEPT !.seq = s] \in FillType
        BY <3>2, <3>3 DEF FillType
      <4> QED
        BY <4>1
    <3>5. PICK d : d = Append(viv.done, b)
      OBVIOUS
    <3>6. d \in Seq(FillType)
      BY <1>2, <3>4, <3>5, SeqFacts
    <3>7. viv' = [viv EXCEPT !.seq = viv.seq + 1, !.q = Tail(viv.q), !.done = d]
      BY <3>1, <3>4, <3>5
    <3>8. viv.seq + 1 \in Nat
      BY <1>2
    <3>9. viv' \in VivType
      BY <1>2, <3>3, <3>6, <3>7, <3>8 DEF VivType
    <3>10. mem' \in [Cells -> Pixels]
      BY <1>2, <3>1, <3>2
    <3> QED
      BY <3>9, <3>10
  <2>2. CASE VividSkip
    <3>1. /\ mem' = mem
          /\ viv' = [viv EXCEPT !.seq = viv.seq + 1, !.skips = viv.skips + 1]
      BY <2>2 DEF VividSkip
    <3>2. viv.seq + 1 \in Nat /\ viv.skips + 1 \in Nat
      BY <1>2
    <3> QED
      BY <1>2, <3>1, <3>2 DEF VivType
  <2> QED
    BY <2>1, <2>2
<1>4. Types'
  BY <1>1, <1>2, <1>3 DEF Types, ProgTypes, MetaTypes, progVars, metaVars
<1>5. SameQueues
  BY <1>1 DEF SameQueues
<1> QED
  BY <1>1, <1>4, <1>5, OthersInv

LEMMA PublishForeignInv ==
  ASSUME Inv, PublishForeign
  PROVE  Inv'
<1>1. /\ UNCHANGED <<me, progVars, node, viv, mem, meta, errs, rate, drain>>
      /\ log' = Append(log, NoRow)
  BY DEF PublishForeign
<1>2. log \in Seq(Rows) /\ NoRow \in Rows /\ Types
  BY Constants DEF Inv, Types, MetaTypes
<1>3. log' \in Seq(Rows) /\ Len(log) <= Len(log')
  BY <1>1, <1>2
<1>4. MetaTypes'
  BY <1>1, <1>3, LogGrows
<1>5. Types' /\ SameQueues
  BY <1>1, <1>2, <1>4 DEF Types, ProgTypes, progVars, SameQueues
<1> QED
  BY <1>1, <1>5, OthersInv

LEMMA DrainInv ==
  ASSUME Inv, DrainOpen \/ DrainFails \/ DrainRead
  PROVE  Inv'
<1>1. UNCHANGED <<progVars, node, viv, mem, metaVars>>
  BY DEF DrainOpen, DrainFails, DrainRead
<1>2. /\ Types /\ log \in Seq(Rows) /\ Len(log) \in Nat /\ drain \in DrainType
      /\ drain.from \in Nat /\ drain.got \in Nat /\ drain.from + drain.got <= Len(log)
      /\ drain.state = "starting" => drain.got = 0
  BY DEF Inv, Types, MetaTypes, DrainType
<1>3. SameQueues
  BY <1>1 DEF SameQueues
<1>4. ASSUME drain' \in DrainType, drain'.from + drain'.got <= Len(log),
             drain'.state = "starting" => drain'.got = 0
      PROVE  me' \in MeType => Types'
  BY <1>1, <1>2, <1>4 DEF Types, ProgTypes, MetaTypes, progVars, metaVars
<1>5. CASE DrainRead
  <2>1. PICK st : /\ st \in {"reading", "done"}
                  /\ drain' = [drain EXCEPT !.got = drain.got + 1, !.state = st]
                  /\ drain.from + drain.got < Len(log) /\ me' = me
    BY <1>5 DEF DrainRead
  <2>2. /\ drain' \in DrainType /\ drain'.from = drain.from
        /\ drain'.got = drain.got + 1 /\ drain'.state # "starting"
    <3>1. drain.got + 1 \in Nat
      BY <1>2
    <3> QED
      BY <1>2, <2>1, <3>1 DEF DrainType
  <2>3. Types'
    BY <1>2, <1>4, <2>1, <2>2 DEF Types
  <2> QED
    BY <1>3, <2>1, <2>3, OthersInv
<1>6. CASE DrainOpen
  <2>1. /\ drain' = [drain EXCEPT !.state = "reading", !.from = Len(log)] /\ me' = me
        /\ drain.state = "starting"
    BY <1>6 DEF DrainOpen
  <2>2. drain' \in DrainType /\ drain'.from = Len(log) /\ drain'.got = 0
        /\ drain'.state # "starting"
    BY <1>2, <2>1 DEF DrainType
  <2>3. Types'
    BY <1>2, <1>4, <2>1, <2>2 DEF Types
  <2> QED
    BY <1>3, <2>1, <2>3, OthersInv
<1>7. CASE DrainFails
  <2>1. /\ drain' = [drain EXCEPT !.state = "killed"]
        /\ me' = [me EXCEPT !.runs = << >>, !.pc = <<"cleanup", 1>>]
    BY <1>7 DEF DrainFails
  <2>2. /\ drain' \in DrainType /\ drain'.from = drain.from /\ drain'.got = drain.got
        /\ drain'.state # "starting"
    BY <1>2, <2>1 DEF DrainType
  <2>3. me' \in MeType /\ me'.runs = << >>
    <3>1. <<"cleanup", 1>> \in Phases \X Nat /\ me \in MeType
      BY <1>2 DEF Phases, Types
    <3> QED
      BY <2>1, <3>1 DEF MeType
  <2>4. Types'
    BY <1>2, <1>4, <2>2, <2>3
  <2>5. Place' /\ Sized' /\ Stopped'
    BY <1>1, <2>3 DEF Inv, Place, Sized, Stopped
  <2> QED
    BY <2>4, <2>5 DEF Inv
<1> QED
  BY <1>5, <1>6, <1>7

LEMMA StutterInv ==
  ASSUME Inv, UNCHANGED vars
  PROVE  Inv'
<1>1. /\ UNCHANGED <<me, progVars, node, viv, mem, log, meta, errs, rate, drain>>
  BY DEF vars, progVars
<1>2. Types' /\ SameQueues
  BY <1>1 DEF Inv, Types, ProgTypes, MetaTypes, progVars, SameQueues
<1> QED
  BY <1>1, <1>2, OthersInv

LEMMA NextInv == Inv /\ [Next]_vars => Inv'
<1> SUFFICES ASSUME Inv, [Next]_vars PROVE Inv'
  OBVIOUS
<1>1. CASE Program
  BY <1>1, SetFormatInv, PlainInv, RequestBuffersInv, FillHeapInv, OpenMetaInv,
     QueueCapturesInv, StreamOnInv, SubmitInv, SubmitNoneInv, SetSequenceInv,
     DequeueCaptureInv, DequeueOutputInv, ReadMetaInv, WriteRowInv,
     RequeueCaptureInv, VerifyInv, CameraInv, MapSlotsInv, QueueVivInv,
     DequeueVivInv, RemapInv, StopOutputInv, StopCaptureInv, CloseMetaInv,
     CloseInv, CloseVivInv, FailsInv DEF Program
<1>2. CASE Next /\ ~Program
  BY <1>2, FailsInv, RunJobInv, VividInv, PublishForeignInv, DrainInv DEF Next
<1> QED
  BY <1>1, <1>2, StutterInv

LEMMA InvHolds == Spec => []Inv
  BY InitInv, NextInv, PTL DEF Spec
-----------------------------------------------------------------------------
(* The theorems. *)

(* Type correctness of the tools and of the devices as they drive them:    *)
(* whatever fails, indices stay within the arrays the programs keep, the   *)
(* frame counters within the frames asked for and the readers of metadata  *)
(* within the rows published.                                              *)
THEOREM TypeCorrect == Spec => []TypeOK
<1>1. Inv => TypeOK
  <2> SUFFICES ASSUME Inv PROVE TypeOK
    OBVIOUS
  <2>1. /\ me.sent \in 0 .. Frames /\ me.i \in 0 .. Frames
        /\ me.why \in {"none", "error", "refused", "mismatch", "killed"}
    BY MeFields DEF Inv, Types, Whys
  <2>2. /\ stamp \in [Idx -> Ids] /\ slot \in SlotType
        /\ mem \in [{"own", "viv", "heap", "surface"} \X Idx -> Pixels]
    BY DEF Inv, Types, ProgTypes, Cells
  <2>3. /\ node.on \subseteq {"OUT", "CAP"} /\ node.size \in {1, 2}
        /\ \A q \in {"OUT", "CAP"} : node.n[q] \in 0 .. N
    BY DEF Inv, Types, NodeType, Queues
  <2>4. ASSUME NEW T, NEW q \in Seq(T), \A b \in T : b.idx \in Idx
        PROVE  \A k \in DOMAIN q : q[k].idx \in Idx
    BY <2>4
  <2>5. /\ \A k \in DOMAIN node.outQ : node.outQ[k].idx \in Idx
        /\ \A k \in DOMAIN node.capDone : node.capDone[k].idx \in Idx
        /\ \A k \in DOMAIN node.outDone : node.outDone[k].idx \in Idx
        /\ \A k \in DOMAIN viv.q : viv.q[k].idx \in Idx
        /\ \A k \in DOMAIN viv.done : viv.done[k].idx \in Idx
    <3>1. /\ node.outQ \in Seq(InType) /\ node.capDone \in Seq(DoneType)
          /\ node.outDone \in Seq([idx : Idx])
          /\ viv.q \in Seq(FillType) /\ viv.done \in Seq(FillType)
      BY DEF Inv, Types, NodeType, VivType
    <3>2. /\ \A b \in InType : b.idx \in Idx
          /\ \A b \in DoneType : b.idx \in Idx
          /\ \A b \in [idx : Idx] : b.idx \in Idx
          /\ \A b \in FillType : b.idx \in Idx
      BY DEF InType, DoneType, FillType
    <3> QED
      BY ONLY <2>4, <3>1, <3>2
  <2>6. /\ Held(node.outQ, node.outDone) \subseteq Idx
        /\ Held(<< >>, node.capDone) \subseteq Idx
        /\ Held(viv.q, viv.done) \subseteq Idx
    BY <2>5 DEF Held
  <2>7. \A k \in DOMAIN node.capQ : node.capQ[k] \in Idx
    <3>1. node.capQ \in Seq(Idx)
      BY DEF Inv, Types, NodeType
    <3> QED
      BY <3>1
  <2>8. /\ log \in Seq(Rows) /\ meta.pos \in 0 .. Len(log)
        /\ drain.from + drain.got \in 0 .. Len(log) /\ errs \in 0 .. MaxErrors
    BY DEF Inv, Types, MetaTypes, MetaType, DrainType
  <2> QED
    BY <2>1, <2>2, <2>3, <2>6, <2>7, <2>8 DEF TypeOK, SlotType
<1> QED
  BY <1>1, InvHolds, PTL

(* vpipe_device_run never processes a frame larger than the buffers of its *)
(* job: every tool sets its formats before it requests buffers, and starts *)
(* a queue after its buffers were requested.                               *)
THEOREM JobFitsHolds == Spec => []JobFits
<1>1. Inv => JobFits
  <2> SUFFICES ASSUME Inv, node.on = {"OUT", "CAP"}
               PROVE  node.plane.OUT >= node.size /\ node.plane.CAP >= node.size
    BY DEF JobFits
  <2>1. node.plane["OUT"] = node.size /\ node.plane["CAP"] = node.size
    BY DEF Inv, Sized, Queues
  <2>2. node.size \in {1, 2}
    BY DEF Inv, Types, NodeType
  <2> QED
    BY <2>1, <2>2
<1> QED
  BY <1>1, InvHolds, PTL

(* Only a close closes the node. *)
LEMMA OpenKept ==
  ASSUME Inv, Next, ~Close, node.open
  PROVE  node'.open
<1>1. node \in NodeType
  BY DEF Inv, Types
<1>2. CASE Program
  <2>1. CASE RequestBuffers
    <3>1. \/ \E x : node' = [node EXCEPT !.n.OUT = x, !.plane.OUT = node.size]
          \/ \E x : node' = [node EXCEPT !.n.CAP = x, !.plane.CAP = node.size]
      BY <2>1 DEF RequestBuffers
    <3> QED
      BY <1>1, <3>1 DEF NodeType
  <2>2. CASE OpenNode
    BY <2>2 DEF OpenNode, ClosedNode
  <2>3. CASE SetFormat \/ QueueCaptures \/ StreamOn \/ Submit
    BY <1>1, <2>3 DEF SetFormat, QueueCaptures, StreamOn, Submit, NodeType
  <2>4. CASE SetSequence \/ DequeueCapture \/ DequeueOutput \/ RequeueCapture
    BY <1>1, <2>4 DEF SetSequence, DequeueCapture, DequeueOutput, RequeueCapture,
       NodeType
  <2>5. CASE StopOutput \/ StopCapture
    BY <1>1, <2>5 DEF StopOutput, StopCapture, NodeType
  <2>6. CASE QueueSlots \/ RequeueViv
    BY <2>6 DEF QueueSlots, RequeueViv, QueueViv
  <2>7. CASE \/ Plain \/ FillHeap \/ OpenMeta \/ Export \/ SubmitNone \/ ReadMeta
             \/ WriteRow \/ Verify \/ OpenViv \/ RequestViv \/ MapSlots \/ StreamOnViv
             \/ DequeueViv \/ Remap \/ StopViv \/ CloseMeta \/ CloseViv \/ Refused
             \/ Crashes
    BY <2>7 DEF Plain, FillHeap, OpenMeta, Export, SubmitNone, ReadMeta, WriteRow,
       Verify, OpenViv, RequestViv, MapSlots, StreamOnViv, DequeueViv, Remap,
       StopViv, CloseMeta, CloseViv, Refused, Crashes, Dies
  <2> QED
    BY <1>2, <2>1, <2>2, <2>3, <2>4, <2>5, <2>6, <2>7 DEF Program
<1>3. CASE RunJob
  <2>1. PICK in, err :
          node' = [node EXCEPT !.outQ = Tail(@), !.capQ = Tail(@),
              !.outDone = Append(@, [idx |-> in.idx]),
              !.capDone = Append(@, [idx |-> Head(node.capQ), id |-> in.id,
                            seq |-> in.seq, dropped |-> in.dropped, err |-> err,
                            pixels |-> IF err THEN Blank ELSE mem[in.cell]])]
    BY <1>3, Zenon DEF RunJob
  <2> QED
    BY <1>1, <2>1 DEF NodeType
<1>4. CASE \/ Fails \/ Killed \/ VividFill \/ VividSkip \/ PublishForeign
           \/ DrainOpen \/ DrainFails \/ DrainRead
  BY <1>4 DEF Fails, Killed, Dies, VividFill, VividSkip, PublishForeign, DrainOpen, DrainFails,
     DrainRead
<1> QED
  BY <1>2, <1>3, <1>4 DEF Next

(* A tool that is not killed closes the node with OUTPUT stopped,          *)
(* whichever of its calls fails: its cleanup calls STREAMOFF first, and    *)
(* nothing starts the queue again.  vpipe-fixture-feed is the exception.   *)
THEOREM StopsBeforeCloseHolds == Spec => StopsBeforeClose
<1>1. Inv /\ [Next]_vars =>
        [node.open /\ ~node'.open /\ "OUT" \in node.on
           => Head(me.runs) = "fixtureFeed" \/ me.why = "killed"]_vars
  <2> SUFFICES ASSUME Inv, Next, node.open, ~node'.open,
                      Head(me.runs) # "fixtureFeed", me.why # "killed"
               PROVE  "OUT" \notin node.on
    OBVIOUS
  <2>1. Close
    BY OpenKept
  <2>2. At("close") /\ "close" \in Closes
    BY <2>1 DEF Close, Closes
  <2>3. /\ Phase = "cleanup" /\ me.runs # << >> /\ Prog.cleanup[me.pc[2]] = "close"
        /\ me.pc[2] \in 1 .. Len(Prog.cleanup)
    BY <2>2, CloseCall
  <2>4. StopsFirst(Prog.cleanup)
    BY <2>3, Planned DEF Inv, Types
  <2>5. Called(Prog.cleanup, me.pc[2], {"offOut"})
    BY <2>3, <2>4 DEF StopsFirst, Called
  <2> QED
    BY <2>3, <2>5 DEF Inv, Stopped
<1> QED
  BY <1>1, InvHolds, PTL DEF Spec, StopsBeforeClose
=============================================================================
