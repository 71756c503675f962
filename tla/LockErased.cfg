SPECIFICATION Spec
CONSTANTS
  Ops = {p1, p2, p3}
  Kinds = {"recreate", "git", "app", "sync"}
  App = App
  Prev = Prev
  Absent = Absent
  NoRow = NoRow
  NoOp = NoOp
  None = None
  Erased = Erased
  MaxIds = 5
  MaxRows = 3
  MaxFaults = 0
  MaxCrashes = 0
  MaxLosses = 0
INVARIANT
  OneAtATime
CHECK_DEADLOCK FALSE
SYMMETRY OpSymmetry
