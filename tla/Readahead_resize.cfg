\* cacheLowWater = cacheMinSize, as by default: CircularBuffer.go:277.
SPECIFICATION RaheadSpec
CONSTANTS
  InitialSize = 2
  MaxCapacity = 4
  Length = 5
  LowWater = 2
  MaxRead = 3
PROPERTIES ResizeKeepsContents
CHECK_DEADLOCK FALSE
