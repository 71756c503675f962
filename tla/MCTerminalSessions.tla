-------------------------- MODULE MCTerminalSessions --------------------------
(* Instances of TerminalSessions for TLC. *)
EXTENDS TerminalSessions, TLC

Symmetry == Permutations(Users) \cup Permutations(Sockets) \cup Permutations(Tickets)
              \cup Permutations(Ids) \cup Permutations(Servers)
=============================================================================
