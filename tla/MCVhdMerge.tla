----------------------------- MODULE MCVhdMerge -----------------------------
(* Instances of VhdMerge for TLC. *)
EXTENDS VhdMerge
=============================================================================
