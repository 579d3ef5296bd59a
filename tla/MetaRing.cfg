SPECIFICATION Spec
CONSTANTS
  Rows = {0, 1, 2, 3, 4}
  RowsAt <- NthRow
  NoRow = NoRow
  Nothing = Nothing
  RingSize = 2
  Publishers = {p1}
  NoOne = NoOne
  t1 = t1
  t2 = t2
  f1 = f1
  f2 = f2
  Threads = {t1, t2}
  Files = {f1, f2}
  FileOf <- OwnFile
  MayFault = {t2}
  MaxRows = 4
INVARIANTS
  TypeOK
  RingWindow
  DeliveredWasPublished
  WaitStaysTrue
  StatsWithinRing
PROPERTIES
  SkipsOnlyOverwritten
  ReadsReturn
  ImplementsStream
CHECK_DEADLOCK FALSE
