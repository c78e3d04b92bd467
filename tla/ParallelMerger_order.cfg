\* Reads and seeks over segments whose hints are exact or too large.
SPECIFICATION FairMergerSpec
CONSTANTS
  N = 4
  Offset <- MCOffset
  Hint <- MCHint
  MaxRead = 5
  Faults = {"read", "fill"}
INVARIANTS Aligned CopiesInOrder OneGoroutineEach
PROPERTIES EndsAtEnd MergerReadReturns
CHECK_DEADLOCK FALSE
