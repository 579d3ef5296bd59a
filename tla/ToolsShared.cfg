\* Another context publishes one row while a program runs.
SPECIFICATION Spec
CONSTANTS
  N = 2
  Frames = 2
  Addrs <- SomeAddrs
  DropRates = {0}
  MaxErrors = 0
  MaxForeign = 1
  MaxSkips = 0
INVARIANT OwnEntries
CHECK_DEADLOCK FALSE
