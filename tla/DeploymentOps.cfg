SPECIFICATION FairSpec
CONSTANTS
  Ops = {p1, p2}
  Kinds = {"atomic", "recreate", "git", "app"}
  App = App
  Prev = Prev
  Absent = Absent
  NoRow = NoRow
  NoOp = NoOp
  None = None
  Erased = Erased
  MaxIds = 5
  MaxRows = 3
  MaxFaults = 1
  MaxCrashes = 1
  MaxLosses = 1
INVARIANTS
  TypeOK
  SuccessIsDeployed
PROPERTIES
  DeployedKept
  NoneBlocked
CHECK_DEADLOCK FALSE
