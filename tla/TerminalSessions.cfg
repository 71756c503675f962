SPECIFICATION Spec
CONSTANTS
  Users = {u1, u2}
  Servers = {s1}
  Ids = {i1}
  Sockets = {k1, k2}
  Tickets = {t1, t2}
  None = None
  MaxChanges = 1
SYMMETRY Symmetry
INVARIANTS TypeOK OwnShell LoneSocketServed NoneAttachedToGone NoShellLost OutdatedExplained
CHECK_DEADLOCK FALSE
