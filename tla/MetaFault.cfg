\* One thread whose reads may fail in copy_to_user.
SPECIFICATION Safety
CONSTANTS
  Rows = {0, 1, 2, 3}
  RowsAt <- NthRow
  NoRow = NoRow
  Nothing = Nothing
  RingSize = 2
  Publishers = {p1}
  NoOne = NoOne
  t1 = t1
  t2 = t2
  f1 = f1
  f2 = f2
  Threads = {t1}
  Files = {f1}
  FileOf <- OneFile
  MayFault = {t1}
  MaxRows = 3
PROPERTY
  GapsFlagged
CHECK_DEADLOCK FALSE
