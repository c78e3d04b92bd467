\* Seeks where the hints are too large: AdaptiveParallelMergerResource.go:17.
SPECIFICATION FairMergerSpec
CONSTANTS
  N = 4
  Offset <- MCOffset
  Hint <- MCHint
  MaxRead = 5
  Faults = {}
PROPERTIES SeekReturns
CHECK_DEADLOCK FALSE
