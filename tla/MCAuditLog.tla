---------------------------- MODULE MCAuditLog ----------------------------
(* Instances of AuditLog for TLC. *)
EXTENDS AuditLog

CONSTANTS e1, e2, f1, f2

\* The file to import has the records of two events.
TwoRecords == <<f1, f2>>
=============================================================================
