\* Every Read and every eviction ends, on a disk where everything may fail, crashes included.
SPECIFICATION FairSegSpec
CONSTANTS
  Keys = {k1}
  Callers = {r1, r2}
  Evictors = {e1}
  Lengths = {0, 1}
  MaxLength = 1
  MaxSize = 1
  Faults = {"copy", "rename", "remove"}
  Hint = 1
  HintExact = FALSE
  Crashes = TRUE
  Free = Free
  Returned = Returned
  NoKey = NoKey
INVARIANTS CallersAreExclusive
PROPERTIES GivesUpOnlyCached ReadReturns EvictReturns
