SPECIFICATION Spec
CONSTANTS
  f1 = f1
  f2 = f2
  d1 = d1
  d2 = d2
  k1 = k1
  BackupIds = {b1, b2}
  Files <- MCFiles
  Destinations <- MCDestinations
  Buckets = {k1}
  Place <- MCPlace
  Requests <- MCRequests
  Restores = {r1}
  None = None
  MaxCounts = {1}
SYMMETRY Symmetry
INVARIANTS TypeOK CompletedHasData RestoresOwnData NoneForgotten
PROPERTIES KeepsNewest
CHECK_DEADLOCK FALSE
