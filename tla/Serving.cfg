\* Two calls of the kernel, two open files of two bytes, every way to start and to end.
SPECIFICATION FairServingSpec
CONSTANTS
  Calls = {c1, c2}
  Handles = {h1, h2}
  Length = 2
  MaxLen = 2
  Nobody = Nobody
INVARIANTS ReadsOwnOffset ExitZeroIsClean
PROPERTIES SignalEnds
CHECK_DEADLOCK FALSE
