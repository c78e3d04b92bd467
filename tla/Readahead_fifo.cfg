\* A buffer that is never resized while it is full.
SPECIFICATION FairRaheadSpec
CONSTANTS
  InitialSize = 2
  MaxCapacity = 4
  Length = 5
  LowWater = 1
  MaxRead = 3
INVARIANTS InOrder
PROPERTIES ImplementsFifo WokenByReadahead
CHECK_DEADLOCK FALSE
