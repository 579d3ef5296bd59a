\* One context, two framebuffers and two exports.
SPECIFICATION Spec
CONSTANTS
  c1 = c1
  Ctxs <- OneCtx
  Sizes = {3, 5}
  DefaultSize = 3
  PageSize = 4
  DropRates = {0, 2}
  MaxStarts = 2
  MaxExports = 2
  MaxMaps = 1
  MaxFrames = 3
INVARIANTS
  TypeOK
  RefsCounted
  NoFbUseAfterFree
  StartedWhileStreaming
  PreparedFramesFit
  DropCadence
  SurfaceShowsLast
PROPERTY
  SurfaceFrozen
