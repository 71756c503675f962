SPECIFICATION Spec
CONSTANTS
  Clients = {r1, r2, r3}
  NoAccount = NoAccount
  Accounts = {a, b}
  MaxConns = 4
  MaxRequests = 4
SYMMETRY Symmetry
INVARIANTS OwnAccount NothingLeaks WaitersServed
PROPERTY HandedCurrent
