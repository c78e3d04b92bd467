\* A cache that holds one of two segments of two chunks, whose hints are too small.
SPECIFICATION SegSpec
CONSTANTS
  Keys = {k1, k2}
  Callers = {r1, r2}
  Evictors = {e1}
  Lengths = {0, 1, 2}
  MaxLength = 2
  MaxSize = 2
  Faults = {}
  Hint = 1
  HintExact = FALSE
  Crashes = TRUE
  Free = Free
  Returned = Returned
  NoKey = NoKey
INVARIANTS ServesWholeSegment
SYMMETRY Symmetry
PROPERTIES SizeKnownOnceServed
