SPECIFICATION AllSpec
CONSTANTS
  Ops = {p1, p2, p3}
  Kinds = {"atomic","sync","delete","image","source","start","stop","rm"}
  App = App
  Prev = Prev
  Absent = Absent
  NoRow = NoRow
  NoOp = NoOp
  None = None
  Erased = Erased
  MaxIds = 5
  MaxRows = 3
  MaxFaults = 1
  MaxCrashes = 0
  MaxLosses = 0
INVARIANT
  StartingIsUnderWay
PROPERTY
  SyncShows
CHECK_DEADLOCK FALSE
SYMMETRY OpSymmetry
