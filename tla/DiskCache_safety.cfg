\* Callers that fill an item once after a miss, as FullCacheResource does; items that do
\* not fit, and copies and renames that fail.
SPECIFICATION Spec
CONSTANTS
  Keys = {k1, k2, k3}
  Callers = {c1, c2}
  Evictors = {e1, e2}
  Lengths = {1, 2}
  MaxLength = 2
  MaxSize = 1
  Faults = {"copy", "rename"}
  Free = Free
  Returned = Returned
  NoKey = NoKey
SYMMETRY Symmetry
INVARIANTS Accounting IndexedHasFile ReadersProtected NoTornFile NoOrphan SettledBound
