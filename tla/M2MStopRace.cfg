\* STREAMOFF while the work item runs a job of the same context.
SPECIFICATION Spec
CONSTANTS
  c1 = c1
  c2 = c2
  Ctxs <- OneCtx
  NoCtx = NoCtx
  Index = {0, 1}
  NoBuf = NoBuf
  Ctls = {0, 1}
  Backends = {"FIXTURE"}
  NoRow = NoRow
  MaxFrames = 2
  MaxSets = 0
  Allow = {"StopWhileRunning"}
INVARIANT
  PairStable
