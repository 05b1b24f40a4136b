---- MODULE MCBackupRun ----
\* The instance of BackupRun that TLC checks.
EXTENDS BackupRun, TLC

Symmetry == Permutations(Remotes) \cup Permutations(Schedules)
====
