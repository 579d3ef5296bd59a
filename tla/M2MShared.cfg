\* Two contexts share the device.
SPECIFICATION Spec
CONSTANTS
  c1 = c1
  c2 = c2
  Ctxs <- TwoCtxs
  NoCtx = NoCtx
  Index = {0}
  NoBuf = NoBuf
  Ctls = {0}
  Backends = {"FIXTURE"}
  NoRow = NoRow
  MaxFrames = 2
  MaxSets = 0
  Allow = {"JobFails"}
INVARIANT
  OneRowPerFrame
PROPERTIES
  JobsComplete
  ImplementsNode
