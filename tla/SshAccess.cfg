SPECIFICATION FairSpec
CONSTANTS
  Requests = {r1, r2}
  Desired <- MCDesired
  Bases <- MCBases
  NoFile = NoFile
  None = None
  MaxFaults = 2
INVARIANT NotLockedOut
PROPERTIES AnswersTrue TemporaryEnds
CHECK_DEADLOCK FALSE
