------------------------------ MODULE VhdMerge ------------------------------
(***************************************************************************)
(* The merge of a chain of VHDs of a backup repository into its oldest     *)
(* member (packages/vhd-lib/merge.js, class Merger, and the mergeBlock of  *)
(* Vhd/VhdDirectory.js and Vhd/VhdFile.js), with a crash or a failed       *)
(* operation between any two of its I/O steps and the resumption of the    *)
(* merge from its state file.                                              *)
(*                                                                         *)
(* The chain is [ancestor, child_1, ..., child_n]; VHD 0 is the ancestor   *)
(* and VHD n, the last child, is the merge target.  The content of a block *)
(* is abstracted to the VHD that wrote it.                                 *)
(***************************************************************************)
EXTENDS Integers, FiniteSets

CONSTANTS
    NBlocks,      \* maxTableEntries of the VHDs
    NChildren,    \* number of children in the chain
    Concurrency,  \* mergeBlockConcurrency
    Transfer,     \* how a block gets from a child to the ancestor, see below
    MaxFaults,    \* bound: crashes, failures and lost acknowledgements
    MaxLost,      \* bound: state files whose write failed (a mere warning)
    None          \* no file, no block, no VHD

(***************************************************************************)
(* "move": VHD directories of one compression, the file is renamed;        *)
(* "copy": VHD directories of different compressions, the file is written; *)
(* "file": VHD files, the block is written in place.                       *)
(***************************************************************************)
Transfers == {"move", "copy", "file"}

Blocks   == 0 .. (NBlocks - 1)
Vhds     == 0 .. NChildren
Children == 1 .. NChildren
Target   == NChildren

\* The states a merge state file can hold.
MergeState == [step : {"mergeBlocks", "cleanupVhds"}, currentBlock : 0 .. NBlocks]

ASSUME MergeAssumption ==
    /\ NBlocks \in Nat \ {0}
    /\ NChildren \in Nat \ {0}
    /\ Concurrency \in Nat \ {0}
    /\ Transfer \in Transfers
    /\ Transfer = "file" => Concurrency = 1
    /\ MaxFaults \in Nat
    /\ MaxLost \in Nat
    /\ None \notin Int \cup MergeState

VARIABLES
    (* The chain as it was when the merge was asked for. *)
    original,   \* original[v]: the blocks in the allocation table of v
    (* The repository. *)
    bat,        \* allocation table of the ancestor, on disk
    content,    \* content[b]: whose block is stored as b in the ancestor
    left,       \* left[v]: the blocks still stored in child v
    footer,     \* the VHD whose uuid is in the footer of the ancestor
    sealed,     \* a VHD file ends with a copy of its footer
    alias,      \* alias[v]: the data that the path of v leads to
    data,       \* the VHDs whose data still exists
    stateFile,  \* .<ancestor>.merge.json
    (* The process that merges. *)
    pc,         \* the step merge() is at
    resuming,   \* #isResuming
    state,      \* #state
    table,      \* allocation table of the ancestor, in memory
    todo,       \* blocks of toMerge that asyncEach has not started
    op,         \* op[b]: progress of mergeBlock(b)
    throttle,   \* #lastStateWrittenAt # 0
    pending,    \* state writes started by writeStateThrottled, not awaited
    (* What went wrong so far. *)
    faults, lost

disk   == <<bat, content, left, footer, sealed, alias, data>>
memory == <<resuming, state, table, todo, op, throttle>>
vars   == <<original, disk, stateFile, pc, memory, pending, faults, lost>>

-----------------------------------------------------------------------------
(* The disk that the chain represents. *)

InChildren(b) == \E v \in Children : b \in original[v]

\* The youngest child that has block b: VhdSynthetic's #getVhdWithBlock.
Latest(v, b) ==
    /\ v \in Children
    /\ b \in original[v]
    /\ \A w \in Children : b \in original[w] => w <= v

\* The block b of the merged disk is the one that VHD v wrote.
Overlay(b, v) ==
    IF InChildren(b) THEN Latest(v, b)
    ELSE v = (IF b \in original[0] THEN 0 ELSE None)

ChildBlocks == {b \in Blocks : InChildren(b)}

Running  == {"started", "allocated", "moved", "done"}
OpStates == Running \cup {"none", "failed"}
Steps    == {"idle", "firstState", "blocks", "finalState", "bat", "footer", "endFooter",
             "cleanState", "rename", "oldTarget", "children", "unlinkState", "done", "failing"}

\* The blocks of the set `merging`: a block whose merge failed never leaves it.
Merging == {b \in Blocks : op[b] # "none"}

-----------------------------------------------------------------------------
(* No process: what a crash leaves in memory, and what merge() starts from. *)

NoMemory ==
    /\ resuming' = FALSE
    /\ state' = None
    /\ table' = {}
    /\ todo' = {}
    /\ op' = [b \in Blocks |-> "none"]
    /\ throttle' = FALSE

Init ==
    /\ original \in [Vhds -> SUBSET Blocks]
    /\ bat = original[0]
    /\ content = [b \in Blocks |-> IF b \in original[0] THEN 0 ELSE None]
    /\ left = [v \in Children |-> original[v]]
    /\ footer = 0
    /\ sealed = TRUE
    /\ alias = [v \in Vhds |-> v]
    /\ data = Vhds
    /\ stateFile = None
    /\ pc = "idle"
    /\ resuming = FALSE
    /\ state = None
    /\ table = {}
    /\ todo = {}
    /\ op = [b \in Blocks |-> "none"]
    /\ throttle = FALSE
    /\ pending = {}
    /\ faults = 0
    /\ lost = 0

-----------------------------------------------------------------------------
(* The state file: a failed write, or removal, is only a warning. *)

SaveState(file) ==
    \/ stateFile' = file /\ UNCHANGED lost
    \/ lost < MaxLost /\ lost' = lost + 1 /\ UNCHANGED stateFile

\* A write that writeStateThrottled started reaches the repository, or fails.
LandState ==
    \E file \in pending :
        /\ pending' = pending \ {file}
        /\ SaveState(file)
        /\ UNCHANGED <<original, disk, pc, memory, faults>>

-----------------------------------------------------------------------------
(* merge() and openVhds() *)

\* Not the code, only for checking that the properties can fail: the loop that
\* builds toMerge runs one block too far, or starts one block too late.
ToMergeTooFar(from) == {b \in 0 .. NBlocks : b >= from}
ToMergeTooLate(from) == {b \in ChildBlocks : b > from}

ToMerge(from) == {b \in ChildBlocks : b >= from}

\* No state file: the merge begins, from the first block of the children.  The
\* parent must still end with its footer, and have the uuid that the children
\* name as their parent's.
Open ==
    /\ pc = "idle"
    /\ stateFile = None
    /\ alias[0] # None
    /\ sealed
    /\ footer = 0
    /\ table' = bat
    /\ \E c \in 0 .. NBlocks :
        /\ c = NBlocks \/ c \in ChildBlocks
        /\ \A b \in ChildBlocks : c <= b
        /\ state' = [step |-> "mergeBlocks", currentBlock |-> c]
    /\ pc' = "firstState"
    /\ UNCHANGED <<original, disk, stateFile, resuming, todo, op, throttle, pending, faults, lost>>

\* A state file: the merge resumes where it says.
Resume ==
    /\ pc = "idle"
    /\ stateFile # None
    /\ alias[0] # None
    /\ resuming' = TRUE
    /\ state' = stateFile
    /\ \/ /\ stateFile.step = "mergeBlocks"
          /\ table' = bat
          /\ todo' = ToMerge(stateFile.currentBlock)
          /\ pc' = "blocks"
       \/ /\ stateFile.step = "cleanupVhds"
          /\ pc' = "cleanState"
          /\ UNCHANGED <<table, todo>>
    /\ UNCHANGED <<original, disk, stateFile, op, throttle, pending, faults, lost>>

\* Not the code: the state file is only looked for beside an existing ancestor.
KeepState == FALSE /\ UNCHANGED vars

\* cleanVm() does not resume the merge of an ancestor that is not there any
\* more: it deletes the state file.
DropState ==
    /\ pc \in {"idle", "done"}
    /\ stateFile # None
    /\ alias[0] = None
    /\ stateFile' = None
    /\ UNCHANGED <<original, disk, pc, memory, pending, faults, lost>>

\* Not the code: cleanVm() reads the footer at the end of an ancestor whose merge
\* was interrupted.
DiscardInterrupted ==
    /\ pc = "idle"
    /\ alias[0] # None
    /\ ~sealed
    /\ alias' = [alias EXCEPT ![0] = None]
    /\ data' = data \ {0}
    /\ UNCHANGED <<original, bat, content, left, footer, sealed, stateFile, pc, memory, pending,
                   faults, lost>>

\* Without a state file, cleanVm() takes an ancestor that does not end with its
\* footer for broken and deletes it.
Discard ==
    /\ pc = "idle"
    /\ stateFile = None
    /\ alias[0] # None
    /\ ~sealed
    /\ alias' = [alias EXCEPT ![0] = None]
    /\ data' = data \ {0}
    /\ UNCHANGED <<original, bat, content, left, footer, sealed, stateFile, pc, memory, pending,
                   faults, lost>>

\* cleanVm() deletes the children whose ancestor is missing, in any order.
DiscardChild(v) ==
    /\ pc = "idle"
    /\ stateFile = None
    /\ alias[0] = None
    /\ alias[v] = v
    /\ alias' = [alias EXCEPT ![v] = None]
    /\ data' = data \ {v}
    /\ UNCHANGED <<original, bat, content, left, footer, sealed, stateFile, pc, memory, pending,
                   faults, lost>>

WriteFirstState ==
    /\ pc = "firstState"
    /\ SaveState(state)
    /\ todo' = ToMerge(state.currentBlock)
    /\ pc' = "blocks"
    /\ UNCHANGED <<original, disk, resuming, state, table, op, throttle, pending, faults>>

-----------------------------------------------------------------------------
(* mergeBlocks(): asyncEach over toMerge, in order, Concurrency at a time. *)

StartBlock(b) ==
    /\ pc = "blocks"
    /\ b \in todo
    /\ \A c \in todo : b <= c
    /\ Cardinality(Merging) < Concurrency
    /\ todo' = todo \ {b}
    /\ op' = [op EXCEPT ![b] = "started"]
    /\ UNCHANGED <<original, disk, stateFile, pc, resuming, state, table, throttle, pending, faults, lost>>

\* Not the code: the block is looked up from the oldest child on.
RenameOldestBlock(b) ==
    \E v \in Children :
        /\ b \in left[v]
        /\ \A w \in Children : b \in left[w] => v <= w
        /\ left' = [left EXCEPT ![v] = @ \ {b}]
        /\ content' = [content EXCEPT ![b] = v]

\* VhdDirectory.mergeBlock: the file of the block is renamed from the directory
\* of the child to that of the ancestor.
RenameBlock(b) ==
    \E v \in Children :
        /\ Latest(v, b)
        /\ b \in left[v]
        /\ left' = [left EXCEPT ![v] = @ \ {b}]
        /\ content' = [content EXCEPT ![b] = v]

\* A block that was not in the ancestor also needs its bit in the table.
MoveBlock(b) ==
    /\ Transfer = "move"
    /\ op[b] = "started"
    /\ RenameBlock(b)
    /\ table' = table \cup {b}
    /\ op' = [op EXCEPT ![b] = IF b \in table THEN "done" ELSE "moved"]
    /\ UNCHANGED <<original, bat, footer, sealed, alias, data, stateFile, pc, resuming, state,
                   todo, throttle, pending, faults, lost>>

WriteBlockTable(b) ==
    /\ op[b] = "moved"
    /\ bat' = table
    /\ op' = [op EXCEPT ![b] = "done"]
    /\ UNCHANGED <<original, content, left, footer, sealed, alias, data, stateFile, pc, resuming,
                   state, table, todo, throttle, pending, faults, lost>>

\* ENOENT while resuming: the block was moved before; it is looked up in the
\* ancestor, and its bit is set in memory only.
FindMovedBlock(b) ==
    /\ Transfer = "move"
    /\ op[b] = "started"
    /\ resuming
    /\ \E v \in Children : Latest(v, b) /\ b \notin left[v]
    /\ content[b] # None
    /\ table' = table \cup {b}
    /\ op' = [op EXCEPT ![b] = "done"]
    /\ UNCHANGED <<original, disk, stateFile, pc, resuming, state, todo, throttle, pending, faults, lost>>

\* ENOENT otherwise: mergeBlock throws.
MissBlock(b) ==
    /\ Transfer = "move"
    /\ op[b] = "started"
    /\ \E v \in Children : Latest(v, b) /\ b \notin left[v]
    /\ ~resuming \/ content[b] = None
    /\ op' = [op EXCEPT ![b] = "failed"]
    /\ pc' = "failing"
    /\ UNCHANGED <<original, disk, stateFile, resuming, state, table, todo, throttle, pending, faults, lost>>

\* The remote handler retries a rename it had no answer for (pRetry in
\* @xen-orchestra/fs): the file moves and the answer is ENOENT.
MoveBlockUnacknowledged(b) ==
    /\ Transfer = "move"
    /\ op[b] = "started"
    /\ faults < MaxFaults
    /\ RenameBlock(b)
    /\ faults' = faults + 1
    /\ IF resuming
       THEN /\ table' = table \cup {b}
            /\ op' = [op EXCEPT ![b] = "done"]
            /\ UNCHANGED pc
       ELSE /\ op' = [op EXCEPT ![b] = "failed"]
            /\ pc' = "failing"
            /\ UNCHANGED table
    /\ UNCHANGED <<original, bat, footer, sealed, alias, data, stateFile, resuming, state, todo,
                   throttle, pending, lost>>

\* Not the code: the block is looked up from the oldest child on.
CopyOldestData(b) ==
    \E v \in Children :
        /\ b \in original[v]
        /\ \A w \in Children : b \in original[w] => v <= w
        /\ content' = [content EXCEPT ![b] = v]

\* writeEntireBlock(await child.readBlock(b))
CopyData(b) == \E v \in Children : Latest(v, b) /\ content' = [content EXCEPT ![b] = v]

\* VhdAbstract.mergeBlock into a directory: the block is written to the
\* ancestor and its bit is set in memory only.
CopyBlock(b) ==
    /\ Transfer = "copy"
    /\ op[b] = "started"
    /\ CopyData(b)
    /\ table' = table \cup {b}
    /\ op' = [op EXCEPT ![b] = "done"]
    /\ UNCHANGED <<original, bat, left, footer, sealed, alias, data, stateFile, pc, resuming, state,
                   todo, throttle, pending, faults, lost>>

\* VhdAbstract.mergeBlock into a file: a block that was not there gets its entry
\* of the table on disk first, then its data.
AllocateBlock(b) ==
    /\ Transfer = "file"
    /\ op[b] = "started"
    /\ table' = table \cup {b}
    /\ bat' = bat \cup {b}
    /\ op' = [op EXCEPT ![b] = "allocated"]
    /\ UNCHANGED <<original, content, left, footer, sealed, alias, data, stateFile, pc, resuming,
                   state, todo, throttle, pending, faults, lost>>

\* The data of a block that was not there goes where the file ends, over its
\* footer.
WriteBlock(b) ==
    /\ Transfer = "file"
    /\ op[b] = "allocated"
    /\ CopyData(b)
    /\ sealed' = (sealed /\ content[b] # None)
    /\ op' = [op EXCEPT ![b] = "done"]
    /\ UNCHANGED <<original, bat, left, footer, alias, data, stateFile, pc, resuming, state, table,
                   todo, throttle, pending, faults, lost>>

\* Not the code: currentBlock is the block that just ended.
LastBlock(b, c) == c = b

\* currentBlock is the least block of `merging`, the one that just ended included.
CurrentBlock(b, c) == c \in Merging /\ \A d \in Merging : c <= d

\* mergeBlock returns.  The state is written if it never was or was more than
\* 10 s ago.
FinishBlock(b) ==
    /\ op[b] = "done"
    /\ \E c \in Blocks :
        /\ CurrentBlock(b, c)
        /\ state' = [step |-> "mergeBlocks", currentBlock |-> c]
    /\ op' = [op EXCEPT ![b] = "none"]
    /\ \/ pending' = pending \cup {state'} /\ throttle' = TRUE
       \/ throttle /\ UNCHANGED <<pending, throttle>>
    /\ UNCHANGED <<original, disk, stateFile, pc, resuming, table, todo, faults, lost>>

\* Not the code: asyncEach does not wait for the blocks that are being merged.
EndBlocksEarly ==
    /\ pc = "blocks"
    /\ todo = {}
    /\ pc' = "finalState"
    /\ UNCHANGED <<original, disk, stateFile, memory, pending, faults, lost>>

EndBlocks ==
    /\ pc = "blocks"
    /\ todo = {}
    /\ Merging = {}
    /\ pc' = "finalState"
    /\ UNCHANGED <<original, disk, stateFile, memory, pending, faults, lost>>

MergeBlock(b) ==
    \/ StartBlock(b)
    \/ MoveBlock(b)
    \/ WriteBlockTable(b)
    \/ FindMovedBlock(b)
    \/ MissBlock(b)
    \/ CopyBlock(b)
    \/ AllocateBlock(b)
    \/ WriteBlock(b)
    \/ FinishBlock(b)

-----------------------------------------------------------------------------
(* The end of mergeBlocks(), updateHeaders(), step_cleanVhds(), cleanup(). *)

WriteFinalState ==
    /\ pc = "finalState"
    /\ SaveState(state)
    /\ pc' = "bat"
    /\ UNCHANGED <<original, disk, memory, pending, faults>>

\* Not the code: updateHeaders does not write the table.
WriteNoTable ==
    /\ pc = "bat"
    /\ pc' = "footer"
    /\ UNCHANGED <<original, disk, stateFile, memory, pending, faults, lost>>

WriteTable ==
    /\ pc = "bat"
    /\ bat' = table
    /\ pc' = "footer"
    /\ UNCHANGED <<original, content, left, footer, sealed, alias, data, stateFile, memory, pending,
                   faults, lost>>

\* A file has its footer at the start, which is written first, and at the end.
WriteFooter ==
    /\ pc = "footer"
    /\ footer' = Target
    /\ IF Transfer = "file"
       THEN sealed' = FALSE /\ pc' = "endFooter"
       ELSE UNCHANGED sealed /\ pc' = "cleanState"
    /\ UNCHANGED <<original, bat, content, left, alias, data, stateFile, memory, pending, faults, lost>>

\* Not the code: writeFooter writes the start of the file only.
WriteNoEndFooter ==
    /\ pc = "endFooter"
    /\ pc' = "cleanState"
    /\ UNCHANGED <<original, disk, stateFile, memory, pending, faults, lost>>

WriteEndFooter ==
    /\ pc = "endFooter"
    /\ sealed' = TRUE
    /\ pc' = "cleanState"
    /\ UNCHANGED <<original, bat, content, left, footer, alias, data, stateFile, memory, pending,
                   faults, lost>>

WriteCleanState ==
    /\ pc = "cleanState"
    /\ state' = [step |-> "cleanupVhds", currentBlock |-> state.currentBlock]
    /\ SaveState(state')
    /\ pc' = "rename"
    /\ UNCHANGED <<original, disk, resuming, table, todo, op, throttle, pending, faults>>

\* handler.rename(parent, mergeTargetChild): an alias takes the place of the
\* other, the data it led to stays; a file replaces the file.
RenameChain ==
    /\ alias' = [alias EXCEPT ![Target] = 0, ![0] = None]
    /\ data' = IF Transfer = "file" THEN data \ {Target} ELSE data
    /\ UNCHANGED <<original, bat, content, left, footer, sealed, stateFile, memory, pending, lost>>

RenameAncestor ==
    /\ pc = "rename"
    /\ RenameChain
    /\ pc' = IF Transfer = "file" THEN "children" ELSE "oldTarget"
    /\ UNCHANGED faults

\* ENOENT after a retried rename: while resuming, it is taken for the success of
\* the previous run; otherwise it is thrown.
RenameUnacknowledged ==
    /\ pc = "rename"
    /\ faults < MaxFaults
    /\ RenameChain
    /\ pc' = IF resuming THEN "children" ELSE "failing"
    /\ faults' = faults + 1

\* Not the code: the alias of the target is resolved after the rename.
UnlinkNewTarget ==
    /\ pc = "oldTarget"
    /\ pc' = "children"
    /\ data' = data \ {alias[Target]}
    /\ UNCHANGED <<original, bat, content, left, footer, sealed, alias, stateFile, memory, pending,
                   faults, lost>>

\* The former data of the target; a failure is only a warning.
UnlinkOldTarget ==
    /\ pc = "oldTarget"
    /\ pc' = "children"
    /\ \/ data' = data \ {Target} /\ UNCHANGED faults
       \/ faults < MaxFaults /\ faults' = faults + 1 /\ UNCHANGED data
    /\ UNCHANGED <<original, bat, content, left, footer, sealed, alias, stateFile, memory, pending,
                   lost>>

\* VhdAbstract.unlink of the children between the ancestor and the target: the
\* data, then the alias.
UnlinkChildData(v) ==
    /\ pc = "children"
    /\ v \in Children \ {Target}
    /\ v \in data
    /\ data' = data \ {v}
    /\ alias' = IF Transfer = "file" THEN [alias EXCEPT ![v] = None] ELSE alias
    /\ UNCHANGED <<original, bat, content, left, footer, sealed, stateFile, pc, memory, pending,
                   faults, lost>>

UnlinkChildAlias(v) ==
    /\ pc = "children"
    /\ v \in Children \ {Target}
    /\ v \notin data
    /\ alias[v] # None
    /\ alias' = [alias EXCEPT ![v] = None]
    /\ UNCHANGED <<original, bat, content, left, footer, sealed, data, stateFile, pc, memory, pending,
                   faults, lost>>

EndChildren ==
    /\ pc = "children"
    /\ \A v \in Children \ {Target} : alias[v] = None
    /\ pc' = "unlinkState"
    /\ UNCHANGED <<original, disk, stateFile, memory, pending, faults, lost>>

Cleanup ==
    /\ pc = "unlinkState"
    /\ SaveState(None)
    /\ pc' = "done"
    /\ UNCHANGED <<original, disk, memory, pending, faults>>

-----------------------------------------------------------------------------
(* Crashes and failures. *)

\* The process stops: what it had not written is lost.
Crash ==
    /\ pc \notin {"idle", "done"}
    /\ faults < MaxFaults
    /\ faults' = faults + 1
    /\ pc' = "idle"
    /\ NoMemory
    /\ pending' = {}
    /\ UNCHANGED <<original, disk, stateFile, lost>>

\* An operation of mergeBlock fails: asyncEach rejects and starts no other
\* block, the one that is being merged beside goes on.
BlockFails(b) ==
    /\ op[b] \in Running
    /\ faults < MaxFaults
    /\ faults' = faults + 1
    /\ op' = [op EXCEPT ![b] = "failed"]
    /\ pc' = "failing"
    /\ UNCHANGED <<original, disk, stateFile, resuming, state, table, todo, throttle, pending, lost>>

\* Another awaited operation fails and merge() throws.
StepFails ==
    /\ pc \in {"bat", "footer", "endFooter", "rename", "children"}
    /\ faults < MaxFaults
    /\ faults' = faults + 1
    /\ pc' = "failing"
    /\ UNCHANGED <<original, disk, stateFile, memory, pending, lost>>

\* The failed merge is over; a state write it started may still be under way.
Quit ==
    /\ pc = "failing"
    /\ \A b \in Blocks : op[b] \notin Running
    /\ pc' = "idle"
    /\ NoMemory
    /\ UNCHANGED <<original, disk, stateFile, pending, faults, lost>>

-----------------------------------------------------------------------------

\* What the process does as long as nothing goes wrong.
Progress ==
    \/ Open
    \/ Resume
    \/ DropState
    \/ Discard
    \/ \E v \in Children : DiscardChild(v)
    \/ WriteFirstState
    \/ \E b \in Blocks : MergeBlock(b)
    \/ EndBlocks
    \/ WriteFinalState
    \/ WriteTable
    \/ WriteFooter
    \/ WriteEndFooter
    \/ WriteCleanState
    \/ RenameAncestor
    \/ UnlinkOldTarget
    \/ \E v \in Children : UnlinkChildData(v) \/ UnlinkChildAlias(v)
    \/ EndChildren
    \/ Cleanup
    \/ Quit

Fault ==
    \/ \E b \in Blocks : MoveBlockUnacknowledged(b) \/ BlockFails(b)
    \/ RenameUnacknowledged
    \/ StepFails
    \/ Crash

Next == Progress \/ LandState \/ Fault

Spec == Init /\ [][Next]_vars

\* cleanVm() runs after every backup and resumes what it finds; a write that was
\* started ends.
FairSpec == Spec /\ WF_vars(Progress) /\ WF_vars(LandState)

-----------------------------------------------------------------------------
(* Properties *)

\* What the repository holds and what merge() keeps in memory have their types:
\* a checkpoint may be NBlocks, no block may.
TypeOK ==
    /\ original \in [Vhds -> SUBSET Blocks]
    /\ bat \in SUBSET Blocks
    /\ content \in [Blocks -> Vhds \cup {None}]
    /\ left \in [Children -> SUBSET Blocks]
    /\ footer \in {0, Target}
    /\ sealed \in BOOLEAN
    /\ alias \in [Vhds -> Vhds \cup {None}]
    /\ data \in SUBSET Vhds
    /\ stateFile \in MergeState \cup {None}
    /\ pc \in Steps
    /\ resuming \in BOOLEAN
    /\ state \in MergeState \cup {None}
    /\ table \in SUBSET Blocks
    /\ todo \in SUBSET Blocks
    /\ op \in [Blocks -> OpStates]
    /\ throttle \in BOOLEAN
    /\ pending \in SUBSET MergeState
    /\ faults \in 0 .. MaxFaults
    /\ lost \in 0 .. MaxLost

\* Block b of the merged disk is stored in the ancestor.
Stored(b) == Overlay(b, content[b])

\* Block b of the merged disk is still where the last VHD that had it left it.
InPlace(b) == \E v \in Children : Latest(v, b) /\ b \in left[v] /\ v \in data

\* cleanVm() deleted the ancestor.
Discarded == 0 \notin data

\* No block of the merged disk is ever gone, whatever crashes or fails: it is in
\* the ancestor, or in the child it comes from, whose data still exists.  The one
\* exception is a VHD file whose state file could not be written: a merge that is
\* then interrupted, after a block took the place of the footer at the end of the
\* file, makes cleanVm() delete the whole chain.
NoBlockLost ==
    IF Discarded THEN Transfer = "file" /\ lost > 0
    ELSE \A b \in Blocks : Stored(b) \/ InPlace(b)

\* The rename of step_cleanVhds() took place: the path of the target leads to the
\* ancestor.
Published == alias[Target] = 0

\* The ancestor takes the place of the target only when every block of the
\* merged disk is stored in it.
PublishedIsStored == Published => \A b \in Blocks : Stored(b)

\* The ancestor takes the place of the target only when it can be read: its
\* allocation table, on disk, names exactly the blocks of the merged disk (a block
\* that is stored but not named reads as zeroes), and a file ends with its footer.
PublishedIsReadable ==
    Published => /\ 0 \in data
                 /\ sealed
                 /\ bat = {b \in Blocks : ~Overlay(b, None)}

\* A state file, and a state write under way, claim no block that is not merged.
CheckpointIsMerged ==
    \A file \in {stateFile} \cup pending :
        file # None => \A b \in ChildBlocks :
            file.step = "cleanupVhds" \/ b < file.currentBlock => Stored(b)

\* Once faults stop, the merge ends: its target is published, or cleanVm() gave
\* the chain up, and no state file is left.
EventuallyPublished == <>[](stateFile = None /\ (Published \/ Discarded))

\* The merge is one of its abstract specification: the blocks that are stored in
\* the ancestor only get more, the ancestor is published once it has them all,
\* the data of the other VHDs is deleted after that, and the chain is given up
\* only as a file whose state could not be written.
Abstract == INSTANCE ChainMerge WITH
    Blocks <- Blocks,
    Others <- Children,
    Fragile <- Transfer = "file" /\ MaxLost > 0,
    merged <- {b \in Blocks : Stored(b)},
    published <- Published,
    discarded <- Discarded,
    kept <- data \cap Children

ImplementsChainMerge == Abstract!Spec
=============================================================================
