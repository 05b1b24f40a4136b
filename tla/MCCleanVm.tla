----------------------------- MODULE MCCleanVm -----------------------------
(* Instances of CleanVm for TLC. *)
EXTENDS CleanVm
=============================================================================
