------------------------- MODULE MCSshConnections -------------------------
EXTENDS SshConnections, TLC

Symmetry == Permutations(Clients) \cup Permutations(Accounts)
=============================================================================
