\* Two requests next to a service that adds and removes files.
SPECIFICATION FairDavSpec
CONSTANTS
  Requests = {"r1", "r2"}
  Paths <- MCPaths
  Targets <- MCTargets
  Length = 2
  Sizes = {0, 1, 2}
  Folder = Folder
INVARIANTS GetGivesTheRange
PROPERTIES ListIsOfOneMoment StuckOnlyByDeepList
CHECK_DEADLOCK FALSE
