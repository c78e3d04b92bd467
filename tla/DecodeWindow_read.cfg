\* Solid and other archives of two files, read through windows of 3 and 4 bytes.
SPECIFICATION DwSpec
CONSTANTS
  MinWindow = 3
  MaxQueued = 2
  Windows <- MCWindows
  Versions = {"29", "50"}
  MaxRead = 2
  MaxBytes = 6
  MaxMatch = 2
  MaxMatches = 1
  MaxFilters = 3
  MaxFiles = 2
INVARIANTS DeliversThePacked RefusesTheBroken
CHECK_DEADLOCK FALSE
