\* One context that may be closed while it streams.
SPECIFICATION Spec
CONSTANTS
  c1 = c1
  Ctxs <- OneCtx
  Sizes = {3}
  DefaultSize = 3
  PageSize = 4
  DropRates = {0}
  MaxStarts = 1
  MaxExports = 0
  MaxMaps = 0
  MaxFrames = 1
INVARIANT NoSourceUseAfterFree
