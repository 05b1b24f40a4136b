----------------------------- MODULE ChainMerge -----------------------------
(***************************************************************************)
(* What the merge of a chain of VHDs promises to the readers of a backup   *)
(* repository, whatever fails while it runs: the blocks of the merged disk *)
(* reach the ancestor one after the other and none is ever taken back; the *)
(* ancestor takes the place of the target in one step, once it has them    *)
(* all; nothing else is deleted before that, unless the whole chain is     *)
(* given up, which only a fragile one may be and never once published.     *)
(***************************************************************************)
CONSTANTS
    Blocks,  \* the blocks of the merged disk
    Others,  \* the VHDs of the chain that are not the ancestor
    Fragile  \* an interrupted merge may be unrecoverable

VARIABLES
    merged,     \* the blocks that are stored in the ancestor
    published,  \* the target leads to the ancestor
    discarded,  \* the ancestor was deleted
    kept        \* the other VHDs whose data still exists

vars == <<merged, published, discarded, kept>>

Init ==
    /\ merged \in SUBSET Blocks
    /\ published = FALSE
    /\ discarded = FALSE
    /\ kept = Others

MergeBlock ==
    /\ ~published
    /\ ~discarded
    /\ \E b \in Blocks \ merged : merged' = merged \cup {b}
    /\ UNCHANGED <<published, discarded, kept>>

\* Publishing a VHD file replaces the file of the target.
Publish ==
    /\ ~published
    /\ ~discarded
    /\ merged = Blocks
    /\ published' = TRUE
    /\ \E v \in SUBSET kept : kept' = kept \ v
    /\ UNCHANGED <<merged, discarded>>

Discard ==
    /\ Fragile
    /\ ~published
    /\ discarded' = TRUE
    /\ UNCHANGED <<merged, published, kept>>

Delete ==
    /\ published \/ discarded
    /\ \E v \in kept : kept' = kept \ {v}
    /\ UNCHANGED <<merged, published, discarded>>

Next == MergeBlock \/ Publish \/ Discard \/ Delete

Spec == Init /\ [][Next]_vars
=============================================================================
