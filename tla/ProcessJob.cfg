SPECIFICATION FairJobSpec
CONSTANTS
  Streams = {s1, s2}
  MaxLogs = 2
  MaxLines = 4
INVARIANTS
  JobTypeOK
  CancelHonoured
  StreamComplete
PROPERTIES
  OutcomeFinal
  EndsWithRunner
CHECK_DEADLOCK FALSE
