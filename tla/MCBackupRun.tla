----------------------------- MODULE MCBackupRun -----------------------------
(* Instances of BackupRun for TLC. *)
EXTENDS BackupRun, TLC

TwoOfThree == [threshold |-> 2, total |-> 3]
OneOfTwo == [threshold |-> 1, total |-> 2]

OneTopology == {TwoOfThree, OneOfTwo}

\* A backup directory, none, and one with a retention count of zero.
Destinations == {[backupDir |-> TRUE, keepValid |-> TRUE], [backupDir |-> FALSE, keepValid |-> FALSE],
                 [backupDir |-> TRUE, keepValid |-> FALSE]}

\* Runners, administrators and keys are interchangeable.
Symmetry == Permutations(Runners) \cup Permutations(Admins) \cup Permutations(Keys)
=============================================================================
