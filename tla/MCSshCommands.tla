--------------------------- MODULE MCSshCommands ---------------------------
\* The instances of SshCommands for TLC; two calls of a kind differ in whether
\* they have timeouts, so that there is no symmetry to use.
EXTENDS SshCommands
=============================================================================
