SPECIFICATION Spec
CONSTANTS
  Ops = {p1, p2}
  Containers = {c1}
  NoRow = NoRow
  NoOp = NoOp
  MinTtl = 6
  TtlInput = 0
  MinBeat = 1
  IntervalInput = 1
  RoundTrip = 1
  Jitter = 1
  MaxTime = 9
SYMMETRY OpSymmetry
INVARIANTS
  MutualExclusion
  WritesUnderLock
PROPERTY
  LeaseRefinement
CHECK_DEADLOCK FALSE
