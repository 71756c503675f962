SPECIFICATION Spec
CONSTANTS
  Execs = {e1, e2}
  Streams = {s1}
  Bounded = {e1, s1}
  Tracked = {s1}
  None = None
INVARIANT StreamTruth
