SPECIFICATION FairSpec
CONSTANTS
  Execs = {e1, e2}
  Streams = {s1}
  Bounded = {e1, s1}
  Tracked = {s1}
  None = None
INVARIANTS OneAtATime TimedOutNeverRuns RunsBounded ExecTruth
PROPERTY ExecAnswered
