--------------------------- MODULE MCBackupCache ---------------------------
(* Instances of BackupCache for TLC. *)
EXTENDS BackupCache
=============================================================================
