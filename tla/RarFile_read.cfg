\* A file of 5 bytes in one to five volumes, whole, broken or encrypted.
SPECIFICATION FairRarSpec
CONSTANTS
  Archives <- MCArchives
  BufferSize = 2
  MaxFaults = 1
  Length = 5
  Name = "movie"
  BlockSize = 3
  MaxRead = 3
INVARIANTS EOFIsWhole OnlyPasswordIsLost
PROPERTIES ImplementsSeqFile CallReturns
CHECK_DEADLOCK FALSE
