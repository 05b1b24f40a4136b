---------------------------- MODULE MCMergeQueue ----------------------------
(* Instances of MergeQueue for TLC. *)
EXTENDS MergeQueue

CONSTANT v1

\* Two backups of one VM.
TwoOfOne == <<v1, v1>>
=============================================================================
