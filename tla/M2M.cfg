\* One context, two buffers a queue.
SPECIFICATION Spec
CONSTANTS
  c1 = c1
  c2 = c2
  Ctxs <- OneCtx
  NoCtx = NoCtx
  Index = {0, 1}
  NoBuf = NoBuf
  Ctls = {0, 1}
  Backends = {"FIXTURE", "VCAM"}
  NoRow = NoRow
  MaxFrames = 2
  MaxSets = 1
  Allow = {"StartFails", "JobFails"}
INVARIANTS
  TypeOK
  QueuedControlsUsed
  ProducerPaired
  PairStable
  BufferOwnership
PROPERTIES
  JobsComplete
  ImplementsNode
