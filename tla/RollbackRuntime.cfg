SPECIFICATION Spec
CONSTANTS
  Absent = Absent
  NoRef = NoRef
  Old = Old
  Stale = Stale
  New = New
  Again = Again
  App = App
  Temp = Temp
  AppCut = AppCut
  Prev = Prev
  Target = Target
  MaxFaults = 3
  MaxDbFaults = 2
INVARIANTS
  OutcomeTruth
  RecordsTruth
  OneFaultRecovers
CHECK_DEADLOCK FALSE
