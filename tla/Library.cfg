\* Three nzb files, two of one name, created, scanned, added and removed.
SPECIFICATION FairLibSpec
CONSTANTS
  Files = {"n1", "n2", "n3"}
  Nzbs <- MCNzbs
  MayHold <- MCMayHold
  NzbBlacklist <- MCNzbBlacklist
  FileBlacklist <- MCFileBlacklist
  FlatteningDepth = 1
  Similar <- MCSimilar
  KnownSizes = {700, 750}
  OverheadMin = 20
  OverheadMax = 45
  TryReadBytes = 1
  TryReadPercentage = 0
  HealthyThreshold = 100
  Attempts <- MCAttempts
  Sizeless <- MCSizeless
  Spelling <- MCSpelling
  Folder = Folder
  Nobody = Nobody
INVARIANTS OneOfAName ShowsTheTracked TreesWellFormed KeptApart VolumesFollow
PROPERTIES ParsedOnce NewFilesNotified ScanReturns
CHECK_DEADLOCK FALSE
