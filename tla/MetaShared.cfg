\* Two threads read through one file descriptor.
SPECIFICATION Safety
CONSTANTS
  Rows = {0, 1, 2}
  RowsAt <- NthRow
  NoRow = NoRow
  Nothing = Nothing
  RingSize = 3
  Publishers = {p1}
  NoOne = NoOne
  t1 = t1
  t2 = t2
  f1 = f1
  f2 = f2
  Threads = {t1, t2}
  Files = {f1}
  FileOf <- OneFile
  MayFault = {}
  MaxRows = 2
INVARIANT
  NormalizedEntries
CHECK_DEADLOCK FALSE
