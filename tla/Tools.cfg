\* Every program of user/ with three buffers a queue.
SPECIFICATION Spec
CONSTANTS
  N = 3
  Frames = 4
  Addrs <- SomeAddrs
  DropRates = {1, 3}
  MaxErrors = 1
  MaxForeign = 1
  MaxSkips = 1
INVARIANTS
  TypeOK
  JobFits
  RecordsOfTransit
  PixelsOfFrame
  RowOfFrame
PROPERTIES
  NeverRefused
  StopsBeforeClose
  ToolEnds
  UsesNode
CHECK_DEADLOCK FALSE
