------------------------------ MODULE MCBackups ------------------------------
(* Instances of Backups for TLC: two destinations share one bucket; backups *)
(* are asked for that share all, only the bucket, or only their name.       *)
EXTENDS Backups, TLC

CONSTANTS f1, f2, d1, d2, k1

MCFiles == {f1, f2}
MCDestinations == {d1, d2}
MCPlace == [d \in MCDestinations |-> k1]

MCRequests ==
  {[file |-> f1, dest |-> d1, full |-> FALSE], [file |-> f2, dest |-> d2, full |-> TRUE],
   [file |-> f1, dest |-> None, full |-> TRUE]}

Symmetry == Permutations(BackupIds) \cup Permutations(Restores)
=============================================================================
