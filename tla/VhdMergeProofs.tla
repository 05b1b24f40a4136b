--------------------------- MODULE VhdMergeProofs ---------------------------
(***************************************************************************)
(* Theorems about VhdMerge, for every number of blocks, of children, of    *)
(* concurrent blocks and of faults, and every transfer.                    *)
(***************************************************************************)
EXTENDS VhdMerge, WellFoundedInduction, TLAPS

-----------------------------------------------------------------------------
(* Type correctness.  TypeOK needs to know when #state is defined and when   *)
(* mergeBlock runs.                                                          *)

HasState == pc # "idle" => state # None

OpsRun == pc \notin {"blocks", "failing"} => \A b \in Blocks : op[b] = "none"

TypeInv == TypeOK /\ HasState /\ OpsRun

\* What no process has in memory is well typed.
LEMMA IdleOp == [b \in Blocks |-> "none"] \in [Blocks -> OpStates]
  BY DEF OpStates

LEMMA TypeInvInit == Init => TypeInv
<1> SUFFICES ASSUME Init PROVE TypeInv
  OBVIOUS
<1> USE MergeAssumption
<1>1. TypeOK
  <2>1. content \in [Blocks -> Vhds \cup {None}] /\ left \in [Children -> SUBSET Blocks]
    BY DEF Init, Vhds, Children
  <2>2. op \in [Blocks -> OpStates]
    BY IdleOp DEF Init
  <2>3. data \in SUBSET Vhds /\ alias \in [Vhds -> Vhds \cup {None}]
    BY DEF Init
  <2>4. pending \in SUBSET MergeState /\ table \in SUBSET Blocks /\ todo \in SUBSET Blocks
    BY DEF Init
  <2>5. original \in [Vhds -> SUBSET Blocks] /\ bat \in SUBSET Blocks
    BY DEF Init, Vhds
  <2>6. faults \in 0 .. MaxFaults /\ lost \in 0 .. MaxLost
    BY DEF Init
  <2>7. footer \in {0, Target} /\ sealed \in BOOLEAN /\ stateFile = None /\ state = None /\ pc \in Steps
    BY DEF Init, Steps
  <2>8. resuming \in BOOLEAN /\ throttle \in BOOLEAN
    BY DEF Init
  <2> QED
    BY <2>1, <2>2, <2>3, <2>4, <2>5, <2>6, <2>7, <2>8 DEF TypeOK
<1>2. HasState /\ OpsRun
  BY DEF Init, HasState, OpsRun
<1> QED
  BY <1>1, <1>2 DEF TypeInv

LEMMA TypeInvNext == TypeInv /\ [Next]_vars => TypeInv'
<1> SUFFICES ASSUME TypeInv, [Next]_vars PROVE TypeInv'
  OBVIOUS
<1> USE MergeAssumption DEF TypeInv, TypeOK, HasState, OpsRun, disk, memory, Steps, OpStates,
        Running, MergeState, Vhds, Children, Target
<1>1. CASE Open
  <2>1. state' \in MergeState
    BY <1>1 DEF Open
  <2>2. /\ pc' = "firstState"
        /\ table' = bat
        /\ UNCHANGED <<original, disk, stateFile, resuming, todo, op, throttle, pending, faults, lost>>
    BY <1>1 DEF Open
  <2>3. pc = "idle"
    BY <1>1 DEF Open
  <2> QED
    BY <2>1, <2>2, <2>3
<1>2. CASE Resume
  BY <1>2 DEF Resume, ToMerge, ChildBlocks
<1>3. CASE DropState
  BY <1>3 DEF DropState
<1>4. CASE WriteFirstState
  BY <1>4 DEF WriteFirstState, SaveState, ToMerge, ChildBlocks
<1>5. ASSUME NEW b \in Blocks, MergeBlock(b)
      PROVE  TypeInv'
  <2>1. CASE StartBlock(b)
    BY <2>1 DEF StartBlock
  <2>2. CASE MoveBlock(b)
    BY <2>2 DEF MoveBlock, RenameBlock
  <2>3. CASE WriteBlockTable(b)
    BY <2>3 DEF WriteBlockTable
  <2>4. CASE FindMovedBlock(b)
    BY <2>4 DEF FindMovedBlock
  <2>5. CASE MissBlock(b)
    BY <2>5 DEF MissBlock
  <2>6. CASE CopyBlock(b)
    BY <2>6 DEF CopyBlock, CopyData
  <2>7. CASE AllocateBlock(b)
    BY <2>7 DEF AllocateBlock
  <2>8. CASE WriteBlock(b)
    BY <2>8 DEF WriteBlock, CopyData
  <2>9. CASE FinishBlock(b)
    <3>1. state' \in MergeState
      BY <2>9 DEF FinishBlock, Blocks
    <3>2. pending' \in SUBSET MergeState /\ throttle' \in BOOLEAN
      BY <2>9, <3>1 DEF FinishBlock
    <3>3. op' \in [Blocks -> OpStates]
      BY <2>9 DEF FinishBlock
    <3>4. /\ pc \in {"blocks", "failing"}
          /\ UNCHANGED <<original, disk, stateFile, pc, resuming, table, todo, faults, lost>>
      BY <2>9 DEF FinishBlock
    <3> QED
      BY <3>1, <3>2, <3>3, <3>4
  <2> QED
    BY <1>5, <2>1, <2>2, <2>3, <2>4, <2>5, <2>6, <2>7, <2>8, <2>9 DEF MergeBlock
<1>6. CASE EndBlocks
  BY <1>6 DEF EndBlocks, Merging
<1>7. CASE WriteFinalState
  BY <1>7 DEF WriteFinalState, SaveState
<1>8. CASE WriteTable
  BY <1>8 DEF WriteTable
<1>9. CASE WriteFooter \/ WriteEndFooter
  BY <1>9 DEF WriteFooter, WriteEndFooter
<1>10. CASE WriteCleanState
  <2>1. state' \in MergeState
    BY <1>10 DEF WriteCleanState
  <2>2. stateFile' \in MergeState \cup {None} /\ lost' \in 0 .. MaxLost
    BY <1>10, <2>1 DEF WriteCleanState, SaveState
  <2>3. /\ pc = "cleanState"
        /\ pc' = "rename"
        /\ UNCHANGED <<original, disk, resuming, table, todo, op, throttle, pending, faults>>
    BY <1>10 DEF WriteCleanState
  <2> QED
    BY <2>1, <2>2, <2>3
<1>11. CASE RenameAncestor
  <2>1. alias' \in [Vhds -> Vhds \cup {None}]
    BY <1>11 DEF RenameAncestor, RenameChain
  <2>2. data' \in SUBSET Vhds
    BY <1>11 DEF RenameAncestor, RenameChain
  <2>3. pc' \in Steps /\ pc = "rename" /\ pc' \in {"children", "oldTarget"}
    BY <1>11 DEF RenameAncestor
  <2> QED
    BY <1>11, <2>1, <2>2, <2>3 DEF RenameAncestor, RenameChain
<1>12. CASE UnlinkOldTarget
  <2>1. data' \in SUBSET Vhds
    BY <1>12 DEF UnlinkOldTarget
  <2>2. faults' \in 0 .. MaxFaults
    BY <1>12 DEF UnlinkOldTarget
  <2> QED
    BY <1>12, <2>1, <2>2 DEF UnlinkOldTarget
<1>13. ASSUME NEW v \in Children, UnlinkChildData(v) \/ UnlinkChildAlias(v)
       PROVE  TypeInv'
  <2>1. CASE UnlinkChildData(v)
    BY <2>1 DEF UnlinkChildData
  <2>2. CASE UnlinkChildAlias(v)
    BY <2>2 DEF UnlinkChildAlias
  <2> QED
    BY <1>13, <2>1, <2>2
<1>14. CASE EndChildren
  BY <1>14 DEF EndChildren
<1>15. CASE Cleanup
  BY <1>15 DEF Cleanup, SaveState
<1>16. CASE Quit
  BY <1>16, IdleOp DEF Quit, NoMemory
<1>17. CASE LandState
  BY <1>17 DEF LandState, SaveState
<1>18. ASSUME NEW b \in Blocks, MoveBlockUnacknowledged(b)
       PROVE  TypeInv'
  <2>1. left' \in [Children -> SUBSET Blocks] /\ content' \in [Blocks -> Vhds \cup {None}]
    BY <1>18 DEF MoveBlockUnacknowledged, RenameBlock
  <2>2. table' \in SUBSET Blocks
    BY <1>18 DEF MoveBlockUnacknowledged
  <2>4. op' \in [Blocks -> OpStates]
    BY <1>18 DEF MoveBlockUnacknowledged
  <2>3. pc \in {"blocks", "failing"} /\ pc' \in {"blocks", "failing"}
    BY <1>18 DEF MoveBlockUnacknowledged
  <2> QED
    BY <1>18, <2>1, <2>2, <2>3, <2>4 DEF MoveBlockUnacknowledged
<1>19. ASSUME NEW b \in Blocks, BlockFails(b)
       PROVE  TypeInv'
  BY <1>19 DEF BlockFails
<1>20. CASE RenameUnacknowledged
  BY <1>20 DEF RenameUnacknowledged, RenameChain
<1>21. CASE StepFails
  BY <1>21 DEF StepFails
<1>22. CASE Crash
  <2>1. pending' \in SUBSET MergeState /\ faults' \in 0 .. MaxFaults
    BY <1>22 DEF Crash
  <2>2. resuming' \in BOOLEAN /\ throttle' \in BOOLEAN /\ state' = None
    BY <1>22 DEF Crash, NoMemory
  <2>3. table' \in SUBSET Blocks /\ todo' \in SUBSET Blocks /\ op' \in [Blocks -> OpStates]
    BY <1>22, IdleOp DEF Crash, NoMemory
  <2>4. pc' = "idle" /\ \A b \in Blocks : op'[b] = "none"
    BY <1>22 DEF Crash, NoMemory
  <2> QED
    BY <1>22, <2>1, <2>2, <2>3, <2>4 DEF Crash
<1>23. CASE UNCHANGED vars
  BY <1>23 DEF vars
<1>24. CASE Discard
  BY <1>24 DEF Discard
<1>25. ASSUME NEW v \in Children, DiscardChild(v)
       PROVE  TypeInv'
  BY <1>25 DEF DiscardChild
<1> QED
  BY <1>1, <1>2, <1>3, <1>4, <1>5, <1>6, <1>7, <1>8, <1>9, <1>10, <1>11, <1>12, <1>13,
     <1>14, <1>15, <1>16, <1>17, <1>18, <1>19, <1>20, <1>21, <1>22, <1>23,
     <1>24, <1>25
     DEF Next, Progress, Fault

\* Every variable keeps its type: in particular a step that writes to the state
\* of the merge (#state in merge.js) has one, and mergeBlock runs only in the step
\* mergeBlocks or while a failure is being reported.
THEOREM TypeCorrect == Spec => []TypeOK
<1>1. TypeInv => TypeOK
  BY DEF TypeInv
<1> QED
  BY <1>1, TypeInvInit, TypeInvNext, PTL DEF Spec

-----------------------------------------------------------------------------
(* Which steps write to what. *)

\* A step that writes a block of the ancestor writes the one of the youngest child
\* that has it; no other block leaves a child.
Merges(b, v) ==
    /\ op[b] # "none"
    /\ Latest(v, b)
    /\ content' = [content EXCEPT ![b] = v]
    /\ \/ left' = left
       \/ left' = [left EXCEPT ![v] = @ \ {b}]

LEMMA ContentFrame ==
  ASSUME [Next]_vars
  PROVE  /\ original' = original
         /\ \/ UNCHANGED <<content, left>>
            \/ \E b \in Blocks, v \in Children : Merges(b, v)
<1> USE DEF disk, memory, Merges
<1>1. ASSUME NEW b \in Blocks, MergeBlock(b) \/ MoveBlockUnacknowledged(b) \/ BlockFails(b)
      PROVE  /\ original' = original
             /\ UNCHANGED <<content, left>> \/ \E v \in Children : Merges(b, v)
  BY <1>1 DEF MergeBlock, StartBlock, MoveBlock, RenameBlock, WriteBlockTable, FindMovedBlock,
       MissBlock, CopyBlock, CopyData, AllocateBlock, WriteBlock, FinishBlock,
       MoveBlockUnacknowledged, BlockFails
<1>2. CASE Open \/ Resume \/ DropState \/ WriteFirstState \/ EndBlocks \/ LandState
  BY <1>2 DEF Open, Resume, DropState, WriteFirstState, EndBlocks, LandState
<1>3. CASE \/ WriteFinalState \/ WriteTable \/ WriteFooter \/ WriteEndFooter \/ WriteCleanState
          \/ EndChildren \/ Cleanup
  BY <1>3 DEF WriteFinalState, WriteTable, WriteFooter, WriteEndFooter, WriteCleanState,
       EndChildren, Cleanup
<1>4. CASE RenameAncestor \/ RenameUnacknowledged \/ UnlinkOldTarget
  BY <1>4 DEF RenameAncestor, RenameUnacknowledged, RenameChain, UnlinkOldTarget
<1>5. CASE Discard \/ \E v \in Children : UnlinkChildData(v) \/ UnlinkChildAlias(v) \/ DiscardChild(v)
  BY <1>5 DEF UnlinkChildData, UnlinkChildAlias, Discard, DiscardChild
<1>6. CASE Quit \/ StepFails \/ Crash \/ UNCHANGED vars
  BY <1>6 DEF Quit, StepFails, Crash, vars
<1> QED
  BY <1>1, <1>2, <1>3, <1>4, <1>5, <1>6 DEF Next, Progress, Fault

LEMMA DataFrame ==
  ASSUME [Next]_vars
  PROVE  \/ UNCHANGED <<alias, data>>
         \/ pc = "rename" /\ RenameChain
         \/ UnlinkOldTarget \/ Discard
         \/ \E v \in Children : UnlinkChildData(v) \/ UnlinkChildAlias(v) \/ DiscardChild(v)
<1> USE DEF disk, memory
<1>1. ASSUME NEW b \in Blocks, MergeBlock(b) \/ MoveBlockUnacknowledged(b) \/ BlockFails(b)
      PROVE  UNCHANGED <<alias, data>>
  BY <1>1 DEF MergeBlock, StartBlock, MoveBlock, WriteBlockTable, FindMovedBlock, MissBlock,
       CopyBlock, AllocateBlock, WriteBlock, FinishBlock, MoveBlockUnacknowledged, BlockFails
<1>2. CASE Open \/ Resume \/ DropState \/ WriteFirstState \/ EndBlocks \/ LandState
  BY <1>2 DEF Open, Resume, DropState, WriteFirstState, EndBlocks, LandState
<1>3. CASE \/ WriteFinalState \/ WriteTable \/ WriteFooter \/ WriteEndFooter \/ WriteCleanState
          \/ EndChildren \/ Cleanup
  BY <1>3 DEF WriteFinalState, WriteTable, WriteFooter, WriteEndFooter, WriteCleanState,
       EndChildren, Cleanup
<1>4. CASE RenameAncestor \/ RenameUnacknowledged
  BY <1>4 DEF RenameAncestor, RenameUnacknowledged
<1>5. CASE Quit \/ StepFails \/ Crash \/ UNCHANGED vars
  BY <1>5 DEF Quit, StepFails, Crash, vars
<1> QED
  BY <1>1, <1>2, <1>3, <1>4, <1>5 DEF Next, Progress, Fault

\* A block that is stored in the ancestor stays.
LEMMA StoredStable ==
  ASSUME TypeOK, [Next]_vars, NEW b \in Blocks, Stored(b)
  PROVE  Stored(b)'
<1>1. CASE UNCHANGED <<content, left>>
  BY <1>1, ContentFrame DEF Stored, Overlay, InChildren, Latest
<1>2. ASSUME NEW c \in Blocks, NEW v \in Children, Merges(c, v)
      PROVE  Stored(b)'
  <2>1. CASE b = c
    BY <1>2, <2>1, ContentFrame DEF Merges, TypeOK, Stored, Overlay, InChildren, Latest
  <2>2. CASE b # c
    BY <1>2, <2>2, ContentFrame DEF Merges, TypeOK, Stored, Overlay, InChildren, Latest
  <2> QED
    BY <2>1, <2>2
<1> QED
  BY <1>1, <1>2, ContentFrame

-----------------------------------------------------------------------------
(* The inductive invariant. *)

\* Until a block is in the ancestor, its last version is in the youngest child.
ContentInv ==
    \A b \in Blocks :
        /\ ~InChildren(b) => Stored(b)
        /\ \A v \in Children : Latest(v, b) => b \in left[v] \/ content[b] = v

AllMerged == \A b \in ChildBlocks : Stored(b)

\* The steps that come after every block is merged.
Late == {"finalState", "bat", "footer", "endFooter", "cleanState", "rename", "oldTarget",
         "children", "unlinkState", "done"}

StepInv ==
    /\ pc \in Late \/ Published => AllMerged
    /\ pc \in {"oldTarget", "children"} => Published

\* The ancestor loses its path when it is published, or when it is given up; only
\* then is data deleted.
DataInv ==
    /\ alias[0] = None <=> Published \/ Discarded
    /\ data # Vhds => Published \/ Discarded
    /\ Discarded => pc = "idle" /\ ~Published /\ Transfer = "file" /\ lost > 0

\* The steps after the footer is written.
Cleaning == {"cleanState", "rename", "oldTarget", "children", "unlinkState", "done"}

\* The steps at which blocks or the footer are written, and what leads to them.
Writing == {"firstState", "blocks", "finalState", "bat", "footer", "endFooter"}

\* The end of a file is missing only between the first block that is new to it and
\* its footer; a state file then says so, unless its write was lost.
SealInv ==
    /\ sealed \/ Transfer = "file"
    /\ pc \in Cleaning \/ Published => sealed
    /\ stateFile # None /\ stateFile.step = "cleanupVhds" => sealed
    /\ ~sealed => stateFile # None \/ lost > 0
    /\ \A file \in pending : file.step = "mergeBlocks"
    /\ pc \in Writing \/ Merging # {} =>
          /\ ~Published
          /\ state.step = "mergeBlocks"
          /\ stateFile # None => stateFile.step = "mergeBlocks"
          /\ pc = "firstState" \/ stateFile # None \/ lost > 0

\* A block of the children that is not merged waits, or is being merged; the
\* blocks that wait come after those that are being merged.
LoopInv ==
    /\ \A b \in Blocks : op[b] \in {"moved", "done"} => Stored(b)
    /\ pc = "blocks" => \A b \in Blocks : op[b] # "failed"
    /\ pc = "blocks" \/ Merging # {} =>
          \A b \in ChildBlocks : Stored(b) \/ b \in todo \/ op[b] \in {"started", "allocated", "failed"}
    /\ \A b \in Merging, c \in todo : b < c

Covered(file) ==
    \A b \in ChildBlocks :
        file.step = "cleanupVhds" \/ b < file.currentBlock => Stored(b)

CheckpointInv == \A file \in {stateFile, state} \cup pending : file # None => Covered(file)

SafetyInv ==
    TypeInv /\ ContentInv /\ StepInv /\ DataInv /\ SealInv /\ LoopInv /\ CheckpointInv

LEMMA SafetyInvInit == Init => SafetyInv
<1> SUFFICES ASSUME Init PROVE SafetyInv
  OBVIOUS
<1> USE MergeAssumption
<1>1. TypeInv
  BY TypeInvInit
<1>2. ContentInv
  BY DEF Init, ContentInv, InChildren, Latest, Stored, Overlay
<1>3. StepInv /\ DataInv
  BY DEF Init, StepInv, DataInv, Late, Published, Discarded, Vhds, Target
<1>4. LoopInv /\ SealInv
  BY DEF Init, LoopInv, Merging, SealInv, Cleaning, Writing, Published, Target, Vhds
<1>5. CheckpointInv
  BY DEF Init, CheckpointInv
<1> QED
  BY <1>1, <1>2, <1>3, <1>4, <1>5 DEF SafetyInv

LEMMA ContentInvNext ==
  ASSUME TypeInv, ContentInv, [Next]_vars
  PROVE  ContentInv'
<1> SUFFICES ASSUME NEW b \in Blocks
             PROVE  /\ ~InChildren(b)' => Stored(b)'
                    /\ \A v \in Children : Latest(v, b)' => b \in left'[v] \/ content'[b] = v
  BY DEF ContentInv
<1> USE DEF TypeInv
<1>1. ~InChildren(b)' => Stored(b)'
  BY StoredStable, ContentFrame DEF ContentInv, InChildren
<1>2. ASSUME NEW v \in Children, Latest(v, b)'
      PROVE  b \in left'[v] \/ content'[b] = v
  <2>1. Latest(v, b)
    BY <1>2, ContentFrame DEF Latest
  <2>2. CASE UNCHANGED <<content, left>>
    BY <2>1, <2>2 DEF ContentInv
  <2>3. ASSUME NEW c \in Blocks, NEW w \in Children, Merges(c, w)
        PROVE  b \in left'[v] \/ content'[b] = v
    <3>1. CASE b = c
      <4>1. v = w
        BY <2>1, <2>3, <3>1 DEF Merges, Latest, Children
      <4> QED
        BY <2>3, <3>1, <4>1 DEF Merges, TypeOK
    <3>2. CASE b # c
      BY <2>1, <2>3, <3>2 DEF Merges, TypeOK, ContentInv
    <3> QED
      BY <3>1, <3>2
  <2> QED
    BY <2>2, <2>3, ContentFrame
<1> QED
  BY <1>1, <1>2

\* Where the steps after the blocks begin.
LEMMA StepFrame ==
  ASSUME [Next]_vars
  PROVE  /\ pc' \in Late =>
              \/ pc \in Late
              \/ EndBlocks
              \/ Resume /\ stateFile.step = "cleanupVhds"
         /\ pc' \in {"oldTarget", "children"} =>
              pc \in {"oldTarget", "children"} \/ RenameChain
<1> USE DEF Late, disk, memory
<1>1. ASSUME NEW b \in Blocks, MergeBlock(b) \/ MoveBlockUnacknowledged(b) \/ BlockFails(b)
      PROVE  pc' = pc \/ pc' = "failing"
  BY <1>1 DEF MergeBlock, StartBlock, MoveBlock, WriteBlockTable, FindMovedBlock, MissBlock,
       CopyBlock, AllocateBlock, WriteBlock, FinishBlock, MoveBlockUnacknowledged, BlockFails
<1>2. CASE Open \/ Resume \/ DropState \/ WriteFirstState \/ EndBlocks \/ LandState
  BY <1>2 DEF Open, Resume, DropState, WriteFirstState, EndBlocks, LandState
<1>3. CASE \/ WriteFinalState \/ WriteTable \/ WriteFooter \/ WriteEndFooter \/ WriteCleanState
          \/ EndChildren \/ Cleanup
  BY <1>3 DEF WriteFinalState, WriteTable, WriteFooter, WriteEndFooter, WriteCleanState,
       EndChildren, Cleanup
<1>4. CASE RenameAncestor \/ RenameUnacknowledged \/ UnlinkOldTarget
  BY <1>4 DEF RenameAncestor, RenameUnacknowledged, UnlinkOldTarget
<1>5. CASE Discard \/ \E v \in Children : UnlinkChildData(v) \/ UnlinkChildAlias(v) \/ DiscardChild(v)
  BY <1>5 DEF UnlinkChildData, UnlinkChildAlias, Discard, DiscardChild
<1>6. CASE Quit \/ StepFails \/ Crash \/ UNCHANGED vars
  BY <1>6 DEF Quit, StepFails, Crash, vars
<1> QED
  BY <1>1, <1>2, <1>3, <1>4, <1>5, <1>6 DEF Next, Progress, Fault

LEMMA PublishedFrame ==
  ASSUME TypeOK, [Next]_vars
  PROVE  Published' <=> Published \/ (pc = "rename" /\ RenameChain)
<1> USE MergeAssumption DEF TypeOK, Published, Target, Vhds, Children
<1>1. CASE UNCHANGED <<alias, data>>
  <2>1. ~RenameChain \/ Published
    BY <1>1 DEF RenameChain
  <2> QED
    BY <1>1, <2>1
<1>2. CASE pc = "rename" /\ RenameChain
  BY <1>2 DEF RenameChain
<1>3. CASE UnlinkOldTarget
  BY <1>3 DEF UnlinkOldTarget
<1>4. ASSUME Discard \/ \E v \in Children : UnlinkChildData(v) \/ UnlinkChildAlias(v) \/ DiscardChild(v)
      PROVE  Published' <=> Published \/ (pc = "rename" /\ RenameChain)
  <2>1. alias'[Target] = 0 <=> alias[Target] = 0
    BY <1>4 DEF UnlinkChildData, UnlinkChildAlias, Discard, DiscardChild
  <2>2. ~(pc = "rename" /\ RenameChain) \/ alias'[Target] = 0
    BY DEF RenameChain
  <2> QED
    BY <2>1, <2>2
<1> QED
  BY <1>1, <1>2, <1>3, <1>4, DataFrame

LEMMA AllMergedStable ==
  ASSUME TypeOK, AllMerged, [Next]_vars
  PROVE  AllMerged'
  BY StoredStable, ContentFrame DEF AllMerged, ChildBlocks, InChildren

LEMMA StepInvNext ==
  ASSUME SafetyInv, [Next]_vars
  PROVE  StepInv'
<1> USE DEF SafetyInv, TypeInv
<1>1. ASSUME pc' \in Late PROVE AllMerged'
  <2>1. CASE pc \in Late
    BY <2>1, AllMergedStable DEF StepInv
  <2>2. CASE EndBlocks
    BY <2>2, AllMergedStable DEF EndBlocks, LoopInv, AllMerged, Merging, ChildBlocks
  <2>3. CASE Resume /\ stateFile.step = "cleanupVhds"
    <3>1. AllMerged
      BY <2>3 DEF Resume, CheckpointInv, Covered, AllMerged
    <3> QED
      BY <3>1, AllMergedStable
  <2> QED
    BY <1>1, <2>1, <2>2, <2>3, StepFrame
<1>2. ASSUME Published' PROVE AllMerged'
  BY <1>2, PublishedFrame, AllMergedStable DEF StepInv, Late
<1>3. ASSUME pc' \in {"oldTarget", "children"} PROVE Published'
  <2>1. CASE RenameChain
    BY <2>1, MergeAssumption DEF RenameChain, Published, TypeOK, Vhds, Target
  <2> QED
    BY <1>3, <2>1, StepFrame, PublishedFrame DEF StepInv
<1> QED
  BY <1>1, <1>2, <1>3 DEF StepInv

\* When nothing is renamed or deleted, what was given up stays so.
LEMMA DataStays ==
  ASSUME SafetyInv, [Next]_vars, UNCHANGED <<alias, data>>
  PROVE  DataInv'
<1> USE MergeAssumption DEF SafetyInv, TypeInv, TypeOK
<1>1. Published' = Published /\ Discarded' = Discarded /\ Vhds' = Vhds
  BY DEF Published, Discarded, Target, Vhds
<1>2. ASSUME Discarded PROVE pc' = "idle" /\ lost' \in {lost, lost + 1}
  <2>1. pc = "idle" /\ alias[0] = None
    BY <1>2 DEF DataInv
  <2>2. \A b \in Blocks : op[b] = "none"
    BY <2>1 DEF OpsRun
  <2>3. CASE LandState \/ DropState \/ UNCHANGED vars
    BY <2>1, <2>3 DEF LandState, DropState, SaveState, vars
  <2>4. CASE Discard \/ \E v \in Children : DiscardChild(v)
    BY <2>1, <2>4 DEF Discard, DiscardChild
  <2>5. ~Open /\ ~Resume /\ ~Crash /\ ~Quit /\ ~StepFails /\ ~RenameUnacknowledged /\ ~EndBlocks
    BY <2>1 DEF Open, Resume, Crash, Quit, StepFails, RenameUnacknowledged, EndBlocks
  <2>6. /\ ~WriteFirstState /\ ~WriteFinalState /\ ~WriteTable /\ ~WriteFooter /\ ~WriteEndFooter
        /\ ~WriteCleanState /\ ~RenameAncestor /\ ~UnlinkOldTarget /\ ~EndChildren /\ ~Cleanup
    BY <2>1 DEF WriteFirstState, WriteFinalState, WriteTable, WriteFooter, WriteEndFooter,
         WriteCleanState, RenameAncestor, UnlinkOldTarget, EndChildren, Cleanup
  <2>7. ASSUME NEW v \in Children PROVE ~UnlinkChildData(v) /\ ~UnlinkChildAlias(v)
    BY <2>1 DEF UnlinkChildData, UnlinkChildAlias
  <2>8. ASSUME NEW b \in Blocks PROVE ~MergeBlock(b) /\ ~MoveBlockUnacknowledged(b) /\ ~BlockFails(b)
    BY <2>1, <2>2 DEF MergeBlock, StartBlock, MoveBlock, WriteBlockTable, FindMovedBlock, MissBlock,
       CopyBlock, AllocateBlock, WriteBlock, FinishBlock, MoveBlockUnacknowledged, BlockFails, Running
  <2> QED
    BY <2>3, <2>4, <2>5, <2>6, <2>7, <2>8 DEF Next, Progress, Fault
<1>3. Discarded /\ lost > 0 => lost' > 0
  BY <1>2 DEF TypeOK
<1> QED
  BY <1>1, <1>2, <1>3 DEF DataInv

LEMMA DataInvNext ==
  ASSUME SafetyInv, [Next]_vars
  PROVE  DataInv'
<1> USE MergeAssumption DEF SafetyInv, TypeInv, TypeOK
<1>1. CASE UNCHANGED <<alias, data>>
  BY <1>1, DataStays
<1>2. CASE pc = "rename" /\ RenameChain
  <2>1. alias'[0] = None /\ Published'
    BY <1>2 DEF RenameChain, Published, Vhds, Target
  <2>2. ~Discarded'
    BY <1>2 DEF RenameChain, Discarded, DataInv, Target
  <2> QED
    BY <2>1, <2>2 DEF DataInv
<1>3. CASE UnlinkOldTarget
  <2>1. Published /\ ~Discarded /\ Published'
    BY <1>3, PublishedFrame DEF UnlinkOldTarget, StepInv, DataInv
  <2>2. ~Discarded' /\ alias' = alias
    BY <1>3, <2>1 DEF UnlinkOldTarget, Discarded, Target
  <2> QED
    BY <2>1, <2>2 DEF DataInv
<1>4. ASSUME NEW v \in Children, UnlinkChildData(v) \/ UnlinkChildAlias(v)
      PROVE  DataInv'
  <2>1. Published /\ ~Discarded /\ Published'
    BY <1>4, PublishedFrame DEF UnlinkChildData, UnlinkChildAlias, StepInv, DataInv
  <2>2. ~Discarded' /\ alias'[0] = alias[0]
    BY <1>4, <2>1 DEF UnlinkChildData, UnlinkChildAlias, Discarded, Children, Vhds
  <2> QED
    BY <2>1, <2>2 DEF DataInv
<1>5. CASE Discard
  <2>1. ~Published /\ Transfer = "file" /\ lost > 0
    BY <1>5 DEF Discard, SealInv
  <2>2. ~Published' /\ Discarded' /\ alias'[0] = None /\ pc' = "idle" /\ lost' = lost
    BY <1>5, <2>1, PublishedFrame DEF Discard, Discarded, Vhds
  <2> QED
    BY <2>1, <2>2 DEF DataInv
<1>6. ASSUME NEW v \in Children, DiscardChild(v)
      PROVE  DataInv'
  <2>1. pc' = pc /\ pc = "idle" /\ lost' = lost /\ alias'[0] = alias[0] /\ alias[0] = None
    BY <1>6 DEF DiscardChild, Children, Vhds
  <2>2. Discarded' = Discarded
    BY <1>6 DEF DiscardChild, Discarded, Children
  <2>3. Published' <=> Published
    BY <1>6, <2>1, PublishedFrame
  <2> QED
    BY <2>1, <2>2, <2>3 DEF DataInv
<1> QED
  BY <1>1, <1>2, <1>3, <1>4, <1>5, <1>6, DataFrame

\* What a step that writes no block leaves of the set `merging`.
LEMMA NoBlockInFlight ==
  ASSUME TypeInv, pc \notin {"blocks", "failing"}
  PROVE  Merging = {}
  BY DEF TypeInv, OpsRun, Merging

LEMMA SealInvNext ==
  ASSUME SafetyInv, TypeInv', [Next]_vars
  PROVE  SealInv'
<1> USE MergeAssumption DEF SafetyInv, TypeInv, SealInv, Cleaning, Writing, disk, memory
<1>0. Published' <=> Published \/ (pc = "rename" /\ RenameChain)
  BY PublishedFrame
<1>1. lost \in Nat /\ lost' \in Nat
  BY DEF TypeOK
<1>2. pc \notin {"blocks", "failing"} => Merging = {}
  BY NoBlockInFlight
<1>3. pc' \notin {"blocks", "failing"} => Merging' = {}
  BY DEF OpsRun, Merging
<1>4. CASE Open
  <2>1. ~Published
    BY <1>4 DEF Open, DataInv
  <2>2. ~Published' /\ pc' = "firstState" /\ state'.step = "mergeBlocks" /\ stateFile' = None
    BY <1>0, <1>4, <2>1 DEF Open
  <2> QED
    BY <1>3, <1>4, <2>1, <2>2 DEF Open
<1>5. CASE Resume
  <2>1. ~Published /\ ~Published'
    BY <1>0, <1>5 DEF Resume, DataInv
  <2>2. /\ UNCHANGED <<sealed, stateFile, pending, lost, op>>
        /\ state' = stateFile /\ stateFile # None /\ pc = "idle"
        /\ pc' \in {"blocks", "cleanState"}
        /\ pc' = "blocks" => stateFile.step = "mergeBlocks"
        /\ pc' = "cleanState" => stateFile.step = "cleanupVhds"
    BY <1>5 DEF Resume
  <2>3. Merging' = {}
    BY <1>2, <2>2 DEF Merging
  <2> QED
    BY <2>1, <2>2, <2>3
<1>6. CASE DropState
  <2>1. pc' = pc /\ pc \in {"idle", "done"} /\ alias[0] = None /\ stateFile' = None
        /\ UNCHANGED <<sealed, pending, lost>>
    BY <1>6 DEF DropState
  <2>2. sealed \/ lost > 0
    BY <2>1 DEF DataInv
  <2> QED
    BY <1>0, <1>3, <2>1, <2>2
<1>7. CASE Discard \/ \E v \in Children : DiscardChild(v)
  <2>1. pc' = pc /\ pc = "idle" /\ UNCHANGED <<sealed, stateFile, pending, lost>>
    BY <1>7 DEF Discard, DiscardChild
  <2> QED
    BY <1>0, <1>3, <2>1
<1>8. CASE WriteFirstState \/ WriteFinalState
  <2>1. /\ pc \in {"firstState", "finalState"} /\ pc' \in {"blocks", "bat"}
        /\ UNCHANGED <<sealed, pending, state, op>> /\ SaveState(state)
    BY <1>8 DEF WriteFirstState, WriteFinalState
  <2>2. state # None /\ state.step = "mergeBlocks" /\ ~Published /\ ~Published'
    BY <1>0, <2>1 DEF HasState
  <2>3. /\ stateFile' \in {state, stateFile}
        /\ stateFile' # None \/ lost' > 0
        /\ lost' >= lost /\ (stateFile # None => stateFile' # None)
    BY <1>1, <2>1, <2>2 DEF SaveState
  <2> QED
    BY <1>1, <2>1, <2>2, <2>3
<1>9. CASE LandState
  <2>1. PICK file \in pending : /\ pending' = pending \ {file} /\ SaveState(file)
                                /\ UNCHANGED <<sealed, pc, state, op>>
    BY <1>9 DEF LandState
  <2>2. file # None /\ file.step = "mergeBlocks" /\ Merging' = Merging
    BY <2>1 DEF TypeOK, Merging
  <2>3. /\ stateFile' \in {file, stateFile} /\ lost' >= lost
        /\ stateFile # None => stateFile' # None
    BY <1>1, <2>1, <2>2 DEF SaveState
  <2>4. Published' <=> Published
    BY <1>0, <1>9 DEF LandState, Published, Target
  <2> QED
    BY <1>1, <2>1, <2>2, <2>3, <2>4
<1>10. CASE EndBlocks \/ WriteTable
  <2>1. /\ pc \in Writing \ {"firstState"} /\ pc' \in Writing /\ pc # "rename"
        /\ UNCHANGED <<sealed, stateFile, state, pending, lost>>
    BY <1>10 DEF EndBlocks, WriteTable
  <2> QED
    BY <1>0, <2>1
<1>11. CASE WriteFooter
  <2>1. /\ pc = "footer" /\ pc' \in {"endFooter", "cleanState"}
        /\ pc' = "cleanState" => Transfer # "file" /\ sealed' = sealed
        /\ pc' = "endFooter" => Transfer = "file"
        /\ UNCHANGED <<stateFile, state, pending, lost>>
    BY <1>11 DEF WriteFooter
  <2> QED
    BY <1>0, <1>3, <2>1
<1>12. CASE WriteEndFooter
  <2>1. pc = "endFooter" /\ pc' = "cleanState" /\ sealed' /\ UNCHANGED <<stateFile, state, pending, lost>>
    BY <1>12 DEF WriteEndFooter
  <2> QED
    BY <1>3, <2>1
<1>13. CASE WriteCleanState \/ Cleanup \/ RenameAncestor \/ UnlinkOldTarget \/ EndChildren
  <2>1. pc \in Cleaning /\ pc' \in Cleaning /\ UNCHANGED <<sealed, pending>>
    BY <1>13 DEF WriteCleanState, Cleanup, RenameAncestor, RenameChain, UnlinkOldTarget, EndChildren
  <2> QED
    BY <1>3, <2>1
<1>14. ASSUME NEW v \in Children, UnlinkChildData(v) \/ UnlinkChildAlias(v)
       PROVE  SealInv'
  <2>1. pc = "children" /\ pc' = pc /\ UNCHANGED <<sealed, pending>>
    BY <1>14 DEF UnlinkChildData, UnlinkChildAlias
  <2> QED
    BY <1>3, <2>1
<1>15. CASE RenameUnacknowledged
  <2>1. /\ pc = "rename" /\ pc' \in {"children", "failing"}
        /\ UNCHANGED <<sealed, stateFile, pending, lost, op>>
    BY <1>15 DEF RenameUnacknowledged, RenameChain
  <2>2. Merging' = {}
    BY <1>2, <2>1 DEF Merging
  <2> QED
    BY <2>1, <2>2
<1>16. CASE StepFails
  <2>1. /\ pc \in {"bat", "footer", "endFooter", "rename", "children"} /\ pc' = "failing"
        /\ UNCHANGED <<sealed, stateFile, pending, lost, op, alias>>
    BY <1>16 DEF StepFails
  <2>2. Merging' = {} /\ Published' = Published
    BY <1>2, <2>1 DEF Merging, Published, Target
  <2> QED
    BY <2>1, <2>2
<1>17. CASE Quit \/ Crash
  <2>1. /\ pc' = "idle" /\ pending' \subseteq pending
        /\ UNCHANGED <<sealed, stateFile, lost, alias>>
    BY <1>17 DEF Quit, Crash
  <2>2. Published' = Published
    BY <2>1 DEF Published, Target
  <2> QED
    BY <1>3, <2>1, <2>2
<1>18. CASE UNCHANGED vars
  <2>1. UNCHANGED <<sealed, stateFile, state, pending, lost, pc, op, alias>>
    BY <1>18 DEF vars
  <2>2. Merging' = Merging /\ Published' = Published
    BY <2>1 DEF Merging, Published, Target
  <2> QED
    BY <2>1, <2>2
<1>19. ASSUME NEW b \in Blocks, MergeBlock(b) \/ MoveBlockUnacknowledged(b) \/ BlockFails(b)
       PROVE  SealInv'
  <2>1. /\ pc \in {"blocks", "failing"} /\ pc' \in {pc, "failing"}
        /\ pc = "blocks" \/ b \in Merging
        /\ UNCHANGED <<stateFile, lost, alias>>
    BY <1>19 DEF MergeBlock, StartBlock, MoveBlock, WriteBlockTable, FindMovedBlock, MissBlock, CopyBlock,
         AllocateBlock, WriteBlock, FinishBlock, MoveBlockUnacknowledged, BlockFails, Running, OpsRun, Merging
  <2>2. Published' = Published
    BY <2>1 DEF Published, Target
  <2>3. CASE FinishBlock(b)
    <3>1. /\ sealed' = sealed /\ state'.step = "mergeBlocks"
          /\ \A file \in pending' : file \in pending \/ file = state'
      BY <2>3 DEF FinishBlock
    <3> QED
      BY <2>1, <2>2, <3>1
  <2>4. CASE ~FinishBlock(b)
    <3>1. UNCHANGED <<state, pending>>
      BY <1>19, <2>4 DEF MergeBlock, StartBlock, MoveBlock, WriteBlockTable, FindMovedBlock, MissBlock,
         CopyBlock, AllocateBlock, WriteBlock, MoveBlockUnacknowledged, BlockFails
    <3>2. sealed' = sealed \/ WriteBlock(b)
      BY <1>19 DEF MergeBlock, StartBlock, MoveBlock, WriteBlockTable, FindMovedBlock, MissBlock,
         CopyBlock, AllocateBlock, FinishBlock, MoveBlockUnacknowledged, BlockFails
    <3>3. sealed' \/ Transfer = "file"
      BY <1>19, <3>2 DEF WriteBlock
    <3> QED
      BY <2>1, <2>2, <3>1, <3>3
  <2> QED
    BY <2>3, <2>4
<1> QED
  BY <1>4, <1>5, <1>6, <1>7, <1>8, <1>9, <1>10, <1>11, <1>12, <1>13, <1>14, <1>15, <1>16,
     <1>17, <1>18, <1>19 DEF Next, Progress, Fault

\* A step that is not one of mergeBlock starts it, ends it, or leaves it alone.
LEMMA LoopFrame ==
  ASSUME [Next]_vars
  PROVE  \/ \E b \in Blocks : MergeBlock(b) \/ MoveBlockUnacknowledged(b) \/ BlockFails(b)
         \/ Resume \/ WriteFirstState
         \/ op' = [b \in Blocks |-> "none"] /\ pc' = "idle"
         \/ UNCHANGED <<op, todo>> /\ (pc' = "blocks" => pc = "blocks")
<1> USE DEF disk, memory
<1>1. CASE Open \/ DropState \/ EndBlocks \/ LandState
  BY <1>1 DEF Open, DropState, EndBlocks, LandState
<1>2. CASE \/ WriteFinalState \/ WriteTable \/ WriteFooter \/ WriteEndFooter \/ WriteCleanState
          \/ EndChildren \/ Cleanup
  BY <1>2 DEF WriteFinalState, WriteTable, WriteFooter, WriteEndFooter, WriteCleanState,
       EndChildren, Cleanup
<1>3. CASE RenameAncestor \/ RenameUnacknowledged \/ UnlinkOldTarget
  BY <1>3 DEF RenameAncestor, RenameUnacknowledged, RenameChain, UnlinkOldTarget
<1>4. CASE Discard \/ \E v \in Children : UnlinkChildData(v) \/ UnlinkChildAlias(v) \/ DiscardChild(v)
  BY <1>4 DEF UnlinkChildData, UnlinkChildAlias, Discard, DiscardChild
<1>5. CASE Quit \/ Crash
  BY <1>5 DEF Quit, Crash, NoMemory
<1>6. CASE StepFails \/ UNCHANGED vars
  BY <1>6 DEF StepFails, vars
<1> QED
  BY <1>1, <1>2, <1>3, <1>4, <1>5, <1>6 DEF Next, Progress, Fault

\* The blocks from currentBlock on wait; those before it are merged.
LEMMA LoopStarts ==
  ASSUME TypeInv, TypeInv', [Next]_vars,
         NEW file \in MergeState, Covered(file), file.step = "mergeBlocks",
         todo' = ToMerge(file.currentBlock), \A b \in Blocks : op'[b] = "none"
  PROVE  LoopInv'
<1>1. Merging' = {}
  BY DEF Merging
<1>2. \A b \in ChildBlocks : Stored(b)' \/ b \in todo'
  BY StoredStable DEF Covered, ToMerge, TypeInv, ChildBlocks, Blocks, MergeState
<1>3. ChildBlocks' = ChildBlocks
  BY ContentFrame DEF ChildBlocks, InChildren
<1> QED
  BY <1>1, <1>2, <1>3 DEF LoopInv

\* The conjuncts of LoopInv for a step of mergeBlock(b) that starts no block.
LEMMA LoopGoesOn ==
  ASSUME SafetyInv, TypeInv', [Next]_vars, NEW b \in Blocks,
         op[b] # "none", todo' = todo,
         \A c \in Blocks \ {b} : op'[c] = op[c],
         op'[b] \in {"moved", "done"} => Stored(b)',
         op'[b] = "none" => Stored(b)',
         op'[b] = "failed" => pc' = "failing",
         pc' = "blocks" => pc = "blocks"
  PROVE  LoopInv'
<1> USE DEF SafetyInv, TypeInv
<1>1. Merging' \subseteq Merging /\ b \in Merging
  BY DEF Merging
<1>2. ChildBlocks' = ChildBlocks
  BY ContentFrame DEF ChildBlocks, InChildren
<1>3. \A c \in Blocks : op'[c] \in {"moved", "done"} => Stored(c)'
  BY StoredStable DEF LoopInv
<1>4. pc' = "blocks" => \A c \in Blocks : op'[c] # "failed"
  BY DEF LoopInv
<1>5. \A c \in ChildBlocks : Stored(c)' \/ c \in todo' \/ op'[c] \in {"started", "allocated", "failed"}
  <2> SUFFICES ASSUME NEW c \in ChildBlocks, ~Stored(c)', c \notin todo
               PROVE  op'[c] \in {"started", "allocated", "failed"}
    OBVIOUS
  <2>1. c \in Blocks /\ ~Stored(c)
    BY StoredStable DEF ChildBlocks
  <2>2. op[c] \in {"started", "allocated", "failed"}
    BY <1>1, <2>1 DEF LoopInv
  <2>3. CASE c = b
    BY <2>1, <2>3 DEF TypeOK, OpStates, Running
  <2> QED
    BY <2>1, <2>2, <2>3
<1>6. \A c \in Merging', d \in todo' : c < d
  BY <1>1 DEF LoopInv
<1> QED
  BY <1>2, <1>3, <1>4, <1>5, <1>6 DEF LoopInv

LEMMA LoopInvNext ==
  ASSUME SafetyInv, TypeInv', [Next]_vars
  PROVE  LoopInv'
<1> USE DEF SafetyInv, TypeInv
<1>1. ChildBlocks' = ChildBlocks
  BY ContentFrame DEF ChildBlocks, InChildren
<1>2. ASSUME NEW b \in Blocks, StartBlock(b)
      PROVE  LoopInv'
  <2>1. /\ Merging' = Merging \cup {b}
        /\ todo' = todo \ {b}
        /\ op' = [op EXCEPT ![b] = "started"]
        /\ pc = "blocks" /\ b \in todo /\ \A c \in todo : b <= c
    BY <1>2 DEF StartBlock, Merging, TypeOK
  <2>2. \A c \in Blocks : op'[c] \in {"moved", "done"} => Stored(c)'
    BY <2>1, StoredStable DEF LoopInv, TypeOK
  <2>3. \A c \in Blocks : op'[c] # "failed"
    BY <2>1 DEF LoopInv, TypeOK
  <2>4. \A c \in ChildBlocks : Stored(c)' \/ c \in todo' \/ op'[c] \in {"started", "allocated", "failed"}
    BY <2>1, StoredStable DEF LoopInv, TypeOK, ChildBlocks
  <2>5. \A c \in Merging', d \in todo' : c < d
    BY <2>1, MergeAssumption DEF LoopInv, TypeOK, Blocks
  <2> QED
    BY <1>1, <2>2, <2>3, <2>4, <2>5 DEF LoopInv
<1>3. ASSUME NEW b \in Blocks, NEW v \in Children, Merges(b, v)
      PROVE  Stored(b)'
  BY <1>3, ContentFrame DEF Merges, TypeOK, Stored, Overlay, InChildren, Latest
<1>4. ASSUME NEW b \in Blocks, MoveBlock(b) \/ MoveBlockUnacknowledged(b)
      PROVE  LoopInv'
  <2>1. Stored(b)'
    BY <1>3, <1>4 DEF MoveBlock, MoveBlockUnacknowledged, RenameBlock, Merges
  <2> QED
    BY <1>4, <2>1, LoopGoesOn DEF MoveBlock, MoveBlockUnacknowledged, TypeOK
<1>5. ASSUME NEW b \in Blocks, CopyBlock(b) \/ WriteBlock(b)
      PROVE  LoopInv'
  <2>1. Stored(b)'
    BY <1>3, <1>5 DEF CopyBlock, WriteBlock, CopyData, Merges
  <2> QED
    BY <1>5, <2>1, LoopGoesOn DEF CopyBlock, WriteBlock, TypeOK
<1>6. ASSUME NEW b \in Blocks, FindMovedBlock(b)
      PROVE  LoopInv'
  <2>1. Stored(b)
    BY <1>6 DEF FindMovedBlock, ContentInv, Stored, Overlay, InChildren, Latest
  <2>2. Stored(b)'
    BY <2>1, StoredStable
  <2> QED
    BY <1>6, <2>2, LoopGoesOn DEF FindMovedBlock, TypeOK
<1>7. ASSUME NEW b \in Blocks, WriteBlockTable(b) \/ FinishBlock(b)
      PROVE  LoopInv'
  <2>1. Stored(b)'
    BY <1>7, StoredStable DEF WriteBlockTable, FinishBlock, LoopInv
  <2> QED
    BY <1>7, <2>1, LoopGoesOn DEF WriteBlockTable, FinishBlock, TypeOK
<1>8. ASSUME NEW b \in Blocks, AllocateBlock(b) \/ MissBlock(b) \/ BlockFails(b)
      PROVE  LoopInv'
  BY <1>8, LoopGoesOn DEF AllocateBlock, MissBlock, BlockFails, TypeOK, Running
<1>9. CASE Resume
  <2>1. CASE stateFile.step = "mergeBlocks"
    <3>1. \A b \in Blocks : op'[b] = "none"
      BY <1>9 DEF Resume, OpsRun
    <3>2. stateFile \in MergeState /\ Covered(stateFile) /\ todo' = ToMerge(stateFile.currentBlock)
      BY <1>9, <2>1 DEF Resume, TypeOK, CheckpointInv
    <3> QED
      BY <2>1, <3>1, <3>2, LoopStarts
  <2>2. CASE stateFile.step = "cleanupVhds"
    BY <1>9, <2>2 DEF Resume, OpsRun, LoopInv, Merging
  <2> QED
    BY <1>9, <2>1, <2>2 DEF Resume
<1>10. CASE WriteFirstState
  <2>1. \A b \in Blocks : op'[b] = "none"
    BY <1>10 DEF WriteFirstState, OpsRun
  <2>2. state \in MergeState /\ Covered(state) /\ todo' = ToMerge(state.currentBlock)
    BY <1>10 DEF WriteFirstState, TypeOK, HasState, CheckpointInv
  <2>3. CASE state.step = "mergeBlocks"
    BY <2>1, <2>2, <2>3, LoopStarts
  <2>4. CASE state.step = "cleanupVhds"
    <3>1. Merging' = {}
      BY <2>1 DEF Merging
    <3>2. \A b \in ChildBlocks : Stored(b)'
      BY <2>2, <2>4, StoredStable DEF Covered, ChildBlocks
    <3> QED
      BY <1>1, <2>1, <3>1, <3>2 DEF LoopInv
  <2> QED
    BY <2>2, <2>3, <2>4 DEF MergeState
<1>11. CASE op' = [b \in Blocks |-> "none"] /\ pc' = "idle"
  BY <1>11 DEF LoopInv, Merging
<1>12. CASE UNCHANGED <<op, todo>> /\ (pc' = "blocks" => pc = "blocks")
  BY <1>1, <1>12, StoredStable DEF LoopInv, Merging, ChildBlocks
<1> QED
  BY <1>2, <1>4, <1>5, <1>6, <1>7, <1>8, <1>9, <1>10, <1>11, <1>12, LoopFrame DEF MergeBlock

\* A step that writes the state of the merge, in memory or not, writes one that is
\* there already, or removes it, or is one of four.
LEMMA CheckpointFrame ==
  ASSUME [Next]_vars
  PROVE  \/ {stateFile', state'} \cup pending' \subseteq {None, stateFile, state} \cup pending
         \/ Open \/ WriteCleanState
         \/ \E b \in Blocks : FinishBlock(b)
<1> USE DEF disk, memory
<1>1. ASSUME NEW b \in Blocks, MergeBlock(b) \/ MoveBlockUnacknowledged(b) \/ BlockFails(b)
      PROVE  FinishBlock(b) \/ UNCHANGED <<stateFile, state, pending>>
  BY <1>1 DEF MergeBlock, StartBlock, MoveBlock, WriteBlockTable, FindMovedBlock, MissBlock,
       CopyBlock, AllocateBlock, WriteBlock, MoveBlockUnacknowledged, BlockFails
<1>2. CASE Resume \/ DropState \/ WriteFirstState \/ EndBlocks
  BY <1>2 DEF Resume, DropState, WriteFirstState, EndBlocks, SaveState
<1>3. CASE LandState
  BY <1>3 DEF LandState, SaveState
<1>4. CASE WriteFinalState \/ WriteTable \/ WriteFooter \/ WriteEndFooter \/ EndChildren \/ Cleanup
  BY <1>4 DEF WriteFinalState, WriteTable, WriteFooter, WriteEndFooter, EndChildren, Cleanup, SaveState
<1>5. CASE RenameAncestor \/ RenameUnacknowledged \/ UnlinkOldTarget
  BY <1>5 DEF RenameAncestor, RenameUnacknowledged, RenameChain, UnlinkOldTarget
<1>6. CASE Discard \/ \E v \in Children : UnlinkChildData(v) \/ UnlinkChildAlias(v) \/ DiscardChild(v)
  BY <1>6 DEF UnlinkChildData, UnlinkChildAlias, Discard, DiscardChild
<1>7. CASE Quit \/ Crash
  BY <1>7 DEF Quit, Crash, NoMemory
<1>8. CASE StepFails \/ UNCHANGED vars
  BY <1>8 DEF StepFails, vars
<1> QED
  BY <1>1, <1>2, <1>3, <1>4, <1>5, <1>6, <1>7, <1>8 DEF Next, Progress, Fault

\* A state that is covered stays so.
LEMMA CoveredStable ==
  ASSUME TypeOK, [Next]_vars, NEW file, Covered(file)
  PROVE  /\ \A b \in ChildBlocks' : file.step = "cleanupVhds" \/ b < file.currentBlock => Stored(b)'
         /\ ChildBlocks' = ChildBlocks
<1>1. ChildBlocks' = ChildBlocks
  BY ContentFrame DEF ChildBlocks, InChildren
<1> QED
  BY <1>1, StoredStable DEF Covered, ChildBlocks

LEMMA CheckpointInvNext ==
  ASSUME SafetyInv, TypeInv', [Next]_vars
  PROVE  CheckpointInv'
<1> USE DEF SafetyInv, TypeInv
<1> SUFFICES ASSUME NEW file \in {stateFile', state'} \cup pending', file # None
             PROVE  Covered(file)'
  BY DEF CheckpointInv
<1>1. CASE file \in {stateFile, state} \cup pending
  BY <1>1, CoveredStable DEF CheckpointInv, Covered
<1>2. CASE Open
  <2>1. file = state' \/ file \in {stateFile} \cup pending
    BY <1>2 DEF Open
  <2>2. \A b \in ChildBlocks : ~(b < state'.currentBlock) /\ state'.step = "mergeBlocks"
    BY <1>2 DEF Open, ChildBlocks, Blocks
  <2>3. ChildBlocks' = ChildBlocks
    BY ContentFrame DEF ChildBlocks, InChildren
  <2> QED
    BY <1>1, <2>1, <2>2, <2>3 DEF Covered
<1>3. CASE WriteCleanState
  <2>1. \A b \in ChildBlocks' : Stored(b)'
    BY <1>3, AllMergedStable DEF WriteCleanState, StepInv, Late, AllMerged
  <2> QED
    BY <2>1 DEF Covered
<1>4. ASSUME NEW b \in Blocks, FinishBlock(b)
      PROVE  Covered(file)'
  <2>1. PICK c \in Merging : /\ \A d \in Merging : c <= d
                             /\ state' = [step |-> "mergeBlocks", currentBlock |-> c]
    BY <1>4 DEF FinishBlock, CurrentBlock
  <2>2. file = state' \/ file \in {stateFile} \cup pending
    BY <1>4 DEF FinishBlock
  <2>3. ASSUME NEW d \in ChildBlocks, d < c
        PROVE  Stored(d)
    <3>1. d \in Blocks /\ c \in Blocks /\ d \notin Merging
      BY <2>1, <2>3 DEF ChildBlocks, Merging, Blocks
    <3>2. op[d] = "none"
      BY <3>1 DEF Merging
    <3>3. Stored(d) \/ d \in todo
      BY <2>1, <3>2 DEF LoopInv
    <3>4. d \notin todo
      BY <2>1, <2>3, <3>1 DEF LoopInv, Blocks
    <3> QED
      BY <3>3, <3>4
  <2>4. ChildBlocks' = ChildBlocks
    BY ContentFrame DEF ChildBlocks, InChildren
  <2>5. \A d \in ChildBlocks : d < c => Stored(d)'
    BY <2>3, StoredStable DEF ChildBlocks
  <2> QED
    BY <1>1, <2>1, <2>2, <2>4, <2>5 DEF Covered
<1> QED
  BY <1>1, <1>2, <1>3, <1>4, CheckpointFrame

LEMMA SafetyInvNext == SafetyInv /\ [Next]_vars => SafetyInv'
<1> SUFFICES ASSUME SafetyInv, [Next]_vars PROVE SafetyInv'
  OBVIOUS
<1>1. TypeInv'
  BY TypeInvNext DEF SafetyInv
<1>2. ContentInv'
  BY ContentInvNext DEF SafetyInv
<1> QED
  BY <1>1, <1>2, StepInvNext, DataInvNext, SealInvNext, LoopInvNext, CheckpointInvNext DEF SafetyInv

LEMMA SafetyInvAlways == Spec => []SafetyInv
  BY SafetyInvInit, SafetyInvNext, PTL DEF Spec

-----------------------------------------------------------------------------
(* The theorems. *)

\* A state file, and a state write under way, claim no block that is not merged:
\* merge() resumed from it skips none.
THEOREM CheckpointCorrect == Spec => []CheckpointIsMerged
<1>1. SafetyInv => CheckpointIsMerged
  BY DEF SafetyInv, CheckpointInv, Covered, CheckpointIsMerged
<1> QED
  BY <1>1, SafetyInvAlways, PTL

\* The rename of step_cleanVhds() comes after every block is stored in the ancestor.
THEOREM PublishedStored == Spec => []PublishedIsStored
<1>1. SafetyInv => PublishedIsStored
  BY DEF SafetyInv, StepInv, AllMerged, ContentInv, ChildBlocks, PublishedIsStored
<1> QED
  BY <1>1, SafetyInvAlways, PTL

\* A block that some child has comes from the youngest of those that have it.
LEMMA LatestExists ==
  ASSUME NEW b \in Blocks, InChildren(b)
  PROVE  \E v \in Children : Latest(v, b)
<1> DEFINE S == {v \in Children : b \in original[v]}
           T == {NChildren - v : v \in S}
           Less == OpToRel(<, Nat)
<1>1. T \subseteq Nat /\ T # {}
  BY MergeAssumption DEF InChildren, Children
<1>2. PICK x \in T : \A y \in T : <<y, x>> \notin Less
  <2> HIDE DEF T, Less
  <2> QED
    BY <1>1, WFMin, NatLessThanWellFounded DEF Less
<1>3. \A y \in T : ~(y < x)
  BY <1>1, <1>2 DEF OpToRel
<1>4. PICK v \in S : x = NChildren - v
  BY <1>2
<1>5. ASSUME NEW w \in S
      PROVE  w <= v
  <2>1. ~(NChildren - w < NChildren - v)
    BY <1>3, <1>4
  <2>2. w \in Int /\ v \in Int /\ NChildren \in Int
    BY MergeAssumption DEF Children
  <2> QED
    BY <2>1, <2>2
<1> QED
  BY <1>4, <1>5 DEF Latest

\* No block of the merged disk is ever gone, whatever crashes or fails, unless a
\* VHD file whose state could not be written is given up.
THEOREM BlocksNeverLost == Spec => []NoBlockLost
<1>1. SafetyInv => NoBlockLost
  <2> SUFFICES ASSUME SafetyInv, ~Discarded, NEW b \in Blocks, ~Stored(b)
               PROVE  InPlace(b)
    BY DEF NoBlockLost, SafetyInv, DataInv
  <2>1. InChildren(b)
    BY DEF SafetyInv, ContentInv
  <2>2. PICK v \in Children : Latest(v, b)
    BY <2>1, LatestExists
  <2>3. b \in left[v]
    BY <2>1, <2>2 DEF SafetyInv, ContentInv, Stored, Overlay
  <2>4. ~Published
    BY <2>1 DEF SafetyInv, StepInv, AllMerged, ChildBlocks
  <2>5. v \in data
    BY <2>4, MergeAssumption DEF SafetyInv, DataInv, Vhds, Children
  <2> QED
    BY <2>2, <2>3, <2>5 DEF InPlace
<1> QED
  BY <1>1, SafetyInvAlways, PTL

-----------------------------------------------------------------------------
(* Refinement: every step of the merge is one of ChainMerge, or a stutter. *)

LEMMA AbstractInit ==
  ASSUME Init
  PROVE  Abstract!Init
<1>1. (data \cap Children) = Children
  BY MergeAssumption DEF Init, Vhds, Children
<1>2. Published = FALSE /\ Discarded = FALSE
  BY MergeAssumption DEF Init, Published, Discarded, Vhds, Target
<1> QED
  BY <1>1, <1>2 DEF Abstract!Init

LEMMA AbstractNext ==
  ASSUME SafetyInv, [Next]_vars
  PROVE  [Abstract!Next]_Abstract!vars
<1> DEFINE merged == {b \in Blocks : Stored(b)}
           kept == data \cap Children
<1> USE DEF SafetyInv, TypeInv
<1>1. Published => merged = Blocks
  BY DEF StepInv, AllMerged, ContentInv, ChildBlocks
<1>2. CASE UNCHANGED <<alias, data>>
  <2>1. Published' = Published /\ Discarded' = Discarded /\ kept' = kept
    BY <1>2 DEF Published, Discarded, Target, Children
  <2>2. CASE UNCHANGED <<content, left>>
    <3>1. merged' = merged
      BY <2>2, ContentFrame DEF Stored, Overlay, InChildren, Latest, Blocks, Children
    <3> QED
      BY <2>1, <3>1 DEF Abstract!vars
  <2>3. ASSUME NEW b \in Blocks, NEW v \in Children, Merges(b, v)
        PROVE  [Abstract!Next]_Abstract!vars
    <3>1. Stored(b)'
      BY <2>3, ContentFrame DEF Merges, TypeOK, Stored, Overlay, InChildren, Latest
    <3>2. \A c \in Blocks \ {b} : Stored(c)' <=> Stored(c)
      BY <2>3, ContentFrame DEF Merges, TypeOK, Stored, Overlay, InChildren, Latest
    <3>3. merged' = merged \cup {b}
      BY <3>1, <3>2 DEF Blocks
    <3>6. ~Discarded
      BY <2>3 DEF Merges, DataInv, OpsRun
    <3>4. CASE b \in merged
      BY <2>1, <3>3, <3>4 DEF Abstract!vars
    <3>5. CASE b \notin merged
      BY <1>1, <2>1, <3>3, <3>5, <3>6 DEF Abstract!Next, Abstract!MergeBlock
    <3> QED
      BY <3>4, <3>5
  <2> QED
    BY <2>2, <2>3, ContentFrame
<1>3. ASSUME Published \/ Discarded, Published' = Published, Discarded' = Discarded, merged' = merged,
             NEW v \in Vhds, data' = data \ {v} \/ data' = data
      PROVE  [Abstract!Next]_Abstract!vars
  <2>1. CASE kept' = kept
    BY <1>3, <2>1 DEF Abstract!vars
  <2>2. CASE kept' # kept
    <3>1. v \in kept /\ kept' = kept \ {v}
      BY <1>3, <2>2 DEF Children
    <3> QED
      BY <1>3, <3>1 DEF Abstract!Next, Abstract!Delete
  <2> QED
    BY <2>1, <2>2
<1>4. ASSUME UNCHANGED <<original, content>>
      PROVE  merged' = merged
  BY <1>4 DEF Stored, Overlay, InChildren, Latest, Blocks, Children
<1>5. CASE pc = "rename" /\ RenameChain
  <2>1. merged = Blocks
    BY <1>5 DEF StepInv, AllMerged, ContentInv, ChildBlocks, Late
  <2>2. merged' = merged /\ Published'
    BY <1>4, <1>5, PublishedFrame DEF RenameChain
  <2>6. ~Discarded /\ ~Discarded'
    BY <1>5, MergeAssumption DEF RenameChain, DataInv, Discarded, Target
  <2>3. Target \in Vhds /\ (data' = data \ {Target} \/ data' = data)
    BY <1>5, MergeAssumption DEF RenameChain, Target, Vhds
  <2>4. CASE Published
    <3>1. Published' = Published /\ Discarded' = Discarded
      BY <2>2, <2>4, <2>6 DEF Published, Discarded
    <3> QED
      BY <1>3, <2>2, <2>3, <2>4, <3>1
  <2>5. CASE ~Published
    <3>1. \E w \in SUBSET kept : kept' = kept \ w
      <4>1. kept' = kept \ (kept \ kept')
        BY <2>3 DEF Children
      <4> QED
        BY <4>1
    <3>2. Discarded' = Discarded
      BY <2>6 DEF Discarded
    <3> QED
      BY <2>1, <2>2, <2>5, <2>6, <3>1, <3>2 DEF Abstract!Next, Abstract!Publish
  <2> QED
    BY <2>4, <2>5
<1>6. CASE UnlinkOldTarget
  <2>1. Published /\ Published' = Published
    BY <1>6 DEF UnlinkOldTarget, StepInv, Published, Target
  <2>4. Discarded' = Discarded
    BY <1>6, MergeAssumption DEF UnlinkOldTarget, Discarded, Target
  <2>2. Target \in Vhds /\ (data' = data \ {Target} \/ data' = data)
    BY <1>6, MergeAssumption DEF UnlinkOldTarget, Target, Vhds
  <2>3. merged' = merged
    BY <1>4, <1>6 DEF UnlinkOldTarget
  <2> QED
    BY <1>3, <2>1, <2>2, <2>3, <2>4
<1>7. ASSUME NEW v \in Children, UnlinkChildData(v) \/ UnlinkChildAlias(v) \/ DiscardChild(v)
      PROVE  [Abstract!Next]_Abstract!vars
  <2>1. Published \/ Discarded
    BY <1>7 DEF UnlinkChildData, UnlinkChildAlias, DiscardChild, StepInv, DataInv
  <2>2. v \in Vhds /\ (data' = data \ {v} \/ data' = data)
    BY <1>7, MergeAssumption DEF UnlinkChildData, UnlinkChildAlias, DiscardChild, Vhds, Children
  <2>3. merged' = merged
    BY <1>4, <1>7 DEF UnlinkChildData, UnlinkChildAlias, DiscardChild
  <2>4. pc # "rename"
    BY <1>7 DEF UnlinkChildData, UnlinkChildAlias, DiscardChild
  <2>5. Published' = Published /\ Discarded' = Discarded
    BY <2>2, <2>4, PublishedFrame DEF Discarded, Published, Children
  <2> QED
    BY <1>3, <2>1, <2>2, <2>3, <2>5
<1>8. CASE Discard
  <2>1. merged' = merged
    BY <1>4, <1>8 DEF Discard
  <2>2. ~Published /\ Transfer = "file" /\ MaxLost > 0
    BY <1>8, MergeAssumption DEF Discard, SealInv, TypeOK
  <2>3. Published' = Published /\ Discarded' /\ kept' = kept
    BY <1>8, <2>2, PublishedFrame DEF Discard, Discarded, Published, Children
  <2> QED
    BY <2>1, <2>2, <2>3 DEF Abstract!Next, Abstract!Discard
<1> QED
  BY <1>2, <1>5, <1>6, <1>7, <1>8, DataFrame

\* The merge implements its abstract specification: blocks only get merged, the
\* ancestor is published in one step once all are, and data goes after that.
THEOREM Refinement == Spec => ImplementsChainMerge
<1>1. Init => Abstract!Init
  BY AbstractInit
<1>2. SafetyInv /\ [Next]_vars => [Abstract!Next]_Abstract!vars
  BY AbstractNext
<1> QED
  BY <1>1, <1>2, SafetyInvAlways, PTL DEF Spec, ImplementsChainMerge, Abstract!Spec

-----------------------------------------------------------------------------
(* The allocation table of the published disk.  It holds in three regimes:     *)
(* VHD files, whose table is written before a block is; a merge in which       *)
(* nothing fails; blocks that are renamed, with one fault at most.  A second   *)
(* fault, or one with blocks that are copied, loses bits that a checkpoint has *)
(* passed, as the runs show.                                                   *)

\* The blocks of the merged disk.
Merged == original[0] \cup ChildBlocks

\* The steps at which the table has been written.
Written == {"footer", "endFooter", "cleanState", "rename", "oldTarget", "children", "unlinkState",
            "done"}

Untouched(b) == \A v \in Children : Latest(v, b) => b \in left[v]

Claims(file, b) == file.step = "cleanupVhds" \/ b < file.currentBlock

\* The tables, on disk and in memory, name blocks of the merged disk only.
TableInv ==
    /\ original[0] \subseteq bat /\ bat \subseteq Merged
    /\ todo \cup Merging \subseteq ChildBlocks
    /\ pc = "firstState" => table = bat
    /\ pc \in {"firstState", "blocks", "finalState", "bat"} \/ Merging # {} =>
          bat \subseteq table /\ table \subseteq Merged

\* The bit of a block that has been seen is in memory until the table is written.
SeenInv ==
    /\ pc = "firstState" => state.step = "mergeBlocks" /\ \A b \in ChildBlocks : state.currentBlock <= b
    /\ \A b \in ChildBlocks :
        /\ op[b] \in {"allocated", "moved", "done"} => b \in table
        /\ pc = "blocks" => b \in todo \/ op[b] = "started" \/ b \in table
        /\ pc \in {"finalState", "bat"} => b \in table
        /\ pc \in Written \/ Published => b \in bat

\* As long as nothing went wrong, no merge fails and none is resumed.
FirstInv ==
    /\ resuming => faults > 0
    /\ faults = 0 =>
        /\ pc # "failing"
        /\ pc = "idle" => stateFile = None /\ pending = {}
        /\ Transfer = "move" => \A b \in ChildBlocks :
              pc \in {"idle", "firstState"} \/ b \in todo \/ op[b] = "started" => Untouched(b)

\* After the only fault, the merge that resumes is the last one.
LastInv == Transfer = "move" /\ MaxFaults <= 1 /\ resuming => pc \notin {"idle", "failing"}

\* What the checkpoints claim is named by the table on disk.
ClaimsNamed ==
    \A file \in {stateFile, state} \cup pending : file # None =>
        \A b \in ChildBlocks : Claims(file, b) => b \in bat

\* So is a block that the loop has left behind.
BlockNamed(b) ==
    /\ op[b] \in {"allocated", "done"} => b \in bat
    /\ pc = "blocks" \/ Merging # {} =>
          /\ b \in todo \/ op[b] \in {"started", "moved", "allocated", "failed"} \/ b \in bat
          /\ Transfer = "move" /\ op[b] \in {"none", "started"} /\ b \in table => b \in bat

\* When the bit of a block is on disk before a checkpoint passes it.
Durable == Transfer = "file" \/ (Transfer = "move" /\ ~resuming)

DurableInv == Durable => ClaimsNamed /\ \A b \in ChildBlocks : BlockNamed(b)

\* The regimes in which the published table is right.
Regime == Transfer = "file" \/ MaxFaults = 0 \/ (Transfer = "move" /\ MaxFaults <= 1)

ReadInv == SafetyInv /\ TableInv /\ SeenInv /\ FirstInv /\ LastInv /\ DurableInv

\* A step of another part than the loop: what it may do to the tables, to the
\* checkpoints and to the position of the merge.
Quiet ==
    /\ UNCHANGED <<original, bat, table, todo, op, resuming, left>>
    /\ faults' = faults \/ faults' = faults + 1
    /\ \/ pc' = pc
       \/ pc = "finalState" /\ pc' = "bat"
       \/ pc \in Written /\ pc' \in Written
       \/ pc \in Written \cup {"bat"} /\ pc' = "failing" /\ faults' = faults + 1 /\ faults < MaxFaults
    /\ \/ {stateFile', state'} \cup pending' \subseteq {None, stateFile, state} \cup pending
       \/ pc = "cleanState"
    /\ pc = "firstState" => state' = state
    /\ pc = "idle" => pending' \subseteq pending /\ stateFile' \in {None, stateFile} \cup pending

LEMMA ReadFrame ==
  ASSUME TypeInv, [Next]_vars
  PROVE  \/ Open \/ Resume \/ WriteFirstState \/ EndBlocks \/ WriteTable \/ Quit \/ Crash
         \/ \E b \in Blocks : MergeBlock(b) \/ MoveBlockUnacknowledged(b) \/ BlockFails(b)
         \/ Quiet
<1> USE MergeAssumption DEF TypeInv, TypeOK, disk, memory, Quiet, Written
<1>1. CASE DropState
  BY <1>1, CheckpointFrame DEF DropState
<1>2. CASE LandState
  BY <1>2 DEF LandState, SaveState
<1>3. CASE WriteFinalState
  BY <1>3 DEF WriteFinalState, SaveState
<1>4. CASE WriteFooter \/ WriteEndFooter \/ EndChildren
  BY <1>4 DEF WriteFooter, WriteEndFooter, EndChildren
<1>5. CASE WriteCleanState
  BY <1>5 DEF WriteCleanState
<1>6. CASE Cleanup
  BY <1>6 DEF Cleanup, SaveState
<1>7. CASE RenameAncestor
  BY <1>7 DEF RenameAncestor, RenameChain
<1>8. CASE RenameUnacknowledged
  BY <1>8 DEF RenameUnacknowledged, RenameChain
<1>9. CASE UnlinkOldTarget
  BY <1>9 DEF UnlinkOldTarget
<1>10. CASE Discard \/ \E v \in Children : UnlinkChildData(v) \/ UnlinkChildAlias(v) \/ DiscardChild(v)
  BY <1>10 DEF UnlinkChildData, UnlinkChildAlias, Discard, DiscardChild
<1>11. CASE StepFails
  BY <1>11 DEF StepFails
<1>12. CASE UNCHANGED vars
  BY <1>12 DEF vars
<1> QED
  BY <1>1, <1>2, <1>3, <1>4, <1>5, <1>6, <1>7, <1>8, <1>9, <1>10, <1>11, <1>12 DEF Next, Progress, Fault

LEMMA ReadInvInit == Init => ReadInv
<1> SUFFICES ASSUME Init PROVE ReadInv
  OBVIOUS
<1> USE MergeAssumption
<1>1. SafetyInv
  BY SafetyInvInit
<1>2. TableInv
  BY DEF Init, TableInv, Merging, Merged, Vhds
<1>3. SeenInv
  BY DEF Init, SeenInv, Written, Published, Vhds, Target, ChildBlocks
<1>4. FirstInv
  BY DEF Init, FirstInv, Untouched, Latest, ChildBlocks
<1>5. LastInv /\ DurableInv
  BY DEF Init, LastInv, DurableInv, ClaimsNamed, BlockNamed, Merging, ChildBlocks
<1> QED
  BY <1>1, <1>2, <1>3, <1>4, <1>5 DEF ReadInv

LEMMA SameBlocks ==
  ASSUME [Next]_vars
  PROVE  original' = original /\ ChildBlocks' = ChildBlocks /\ Merged' = Merged
  BY ContentFrame DEF ChildBlocks, InChildren, Merged

LEMMA TableInvNext ==
  ASSUME ReadInv, TypeInv', [Next]_vars
  PROVE  TableInv'
<1> USE DEF ReadInv, SafetyInv, TypeInv, TableInv
<1>0. original' = original /\ ChildBlocks' = ChildBlocks /\ Merged' = Merged
  BY SameBlocks
<1>1. CASE Open \/ WriteFirstState
  BY <1>0, <1>1 DEF Open, WriteFirstState, disk, ToMerge, Merging, OpsRun
<1>2. CASE Resume
  BY <1>0, <1>2 DEF Resume, disk, ToMerge, Merging, OpsRun
<1>3. CASE EndBlocks \/ WriteTable
  BY <1>0, <1>3 DEF EndBlocks, WriteTable, disk, memory, Merging, OpsRun
<1>4. CASE Quit \/ Crash
  BY <1>0, <1>4 DEF Quit, Crash, NoMemory, disk, Merging
<1>5. CASE Quiet
  BY <1>0, <1>5 DEF Quiet, Merging, Written, OpsRun
<1>6. ASSUME NEW b \in Blocks, MergeBlock(b) \/ MoveBlockUnacknowledged(b) \/ BlockFails(b)
      PROVE  TableInv'
  <2>1. CASE StartBlock(b)
    BY <1>0, <2>1 DEF StartBlock, disk, Merging, TypeOK
  <2>2. CASE ~StartBlock(b)
    <3>0. op[b] # "none"
      BY <1>6, <2>2 DEF MergeBlock, MoveBlock, WriteBlockTable, FindMovedBlock, MissBlock, CopyBlock,
           AllocateBlock, WriteBlock, FinishBlock, MoveBlockUnacknowledged, BlockFails, Running
    <3>1. b \in Merging /\ b \in ChildBlocks /\ bat \subseteq table /\ table \subseteq Merged
      BY <3>0 DEF Merging
    <3>2. todo' = todo /\ Merging' \subseteq Merging
      BY <1>6, <2>2, <3>0 DEF MergeBlock, MoveBlock, WriteBlockTable, FindMovedBlock, MissBlock, CopyBlock,
           AllocateBlock, WriteBlock, FinishBlock, MoveBlockUnacknowledged, BlockFails, disk, Merging, TypeOK
    <3>3. /\ table' \in {table, table \cup {b}}
          /\ bat' \in {bat, table, bat \cup {b}}
          /\ bat' \subseteq table'
      <4>1. CASE MoveBlock(b) \/ FindMovedBlock(b) \/ CopyBlock(b) \/ MoveBlockUnacknowledged(b)
        <5>1. bat' = bat /\ table' \in {table, table \cup {b}}
          BY <4>1 DEF MoveBlock, FindMovedBlock, CopyBlock, MoveBlockUnacknowledged, disk
        <5> QED
          BY <3>1, <5>1
      <4>2. CASE WriteBlockTable(b) \/ AllocateBlock(b)
        BY <3>1, <4>2 DEF WriteBlockTable, AllocateBlock
      <4>3. CASE MissBlock(b) \/ WriteBlock(b) \/ FinishBlock(b) \/ BlockFails(b)
        BY <3>1, <4>3 DEF MissBlock, WriteBlock, FinishBlock, BlockFails, disk
      <4> QED
        BY <1>6, <2>2, <4>1, <4>2, <4>3 DEF MergeBlock
    <3>4. table' \subseteq Merged
      BY <3>1, <3>3 DEF Merged
    <3>5. pc' # "firstState"
      BY <1>6, <2>2, <3>0 DEF MergeBlock, MoveBlock, WriteBlockTable, FindMovedBlock, MissBlock, CopyBlock,
           AllocateBlock, WriteBlock, FinishBlock, MoveBlockUnacknowledged, BlockFails, disk, OpsRun
    <3> QED
      BY <1>0, <3>1, <3>2, <3>3, <3>4, <3>5
  <2> QED
    BY <2>1, <2>2
<1> QED
  BY <1>1, <1>2, <1>3, <1>4, <1>5, <1>6, ReadFrame

\* What a step of mergeBlock(b) leaves as it is.
LEMMA BlockFrame ==
  ASSUME TypeInv, TableInv, LoopInv, NEW b \in Blocks, MergeBlock(b) \/ MoveBlockUnacknowledged(b) \/ BlockFails(b)
  PROVE  /\ UNCHANGED <<original, alias, resuming, stateFile>>
         /\ \A c \in Blocks \ {b} : op'[c] = op[c]
         /\ todo' \in {todo, todo \ {b}} /\ (op'[b] # "started" => todo' = todo)
         /\ bat \subseteq bat' /\ table \subseteq table'
         /\ \A c \in bat' \cup table' : c = b \/ c \in bat \cup table
         /\ b \in ChildBlocks
         /\ pc \in {"blocks", "failing"} /\ pc' \in {pc, "failing"}
         /\ pc' # pc => MissBlock(b) \/ faults' > 0
         /\ faults' \in {faults, faults + 1}
         /\ \A c \in Blocks \ {b} : Untouched(c) => Untouched(c)'
<1> USE DEF TypeInv, TypeOK, TableInv, disk, memory
<1>1. CASE StartBlock(b)
  BY <1>1 DEF StartBlock, Untouched, Latest
<1>2. CASE FindMovedBlock(b) \/ MissBlock(b) \/ FinishBlock(b) \/ BlockFails(b)
  <2>0. pc \in {"blocks", "failing"}
    BY <1>2 DEF FindMovedBlock, MissBlock, FinishBlock, BlockFails, OpsRun, Running
  <2>1. b \in Merging
    BY <1>2 DEF FindMovedBlock, MissBlock, FinishBlock, BlockFails, Merging, Running
  <2>2. /\ UNCHANGED <<original, alias, resuming, stateFile, todo, bat, left>>
        /\ op'[b] # "started"
        /\ \A c \in Blocks \ {b} : op'[c] = op[c]
        /\ table' \in {table, table \cup {b}}
        /\ pc' \in {pc, "failing"}
        /\ pc' # pc => MissBlock(b) \/ faults' = faults + 1
        /\ faults' \in {faults, faults + 1}
    <3>1. CASE FindMovedBlock(b)
      BY <3>1 DEF FindMovedBlock
    <3>2. CASE MissBlock(b)
      BY <3>2 DEF MissBlock
    <3>3. CASE FinishBlock(b)
      BY <3>3 DEF FinishBlock
    <3>4. CASE BlockFails(b)
      BY <3>4 DEF BlockFails
    <3> QED
      BY <1>2, <3>1, <3>2, <3>3, <3>4
  <2> QED
    BY <2>0, <2>1, <2>2 DEF Untouched, Latest
<1>3. CASE CopyBlock(b) \/ AllocateBlock(b) \/ WriteBlock(b) \/ WriteBlockTable(b)
  <2>1. b \in Merging /\ bat \subseteq table
    BY <1>3 DEF CopyBlock, AllocateBlock, WriteBlock, WriteBlockTable, Merging
  <2>2. /\ UNCHANGED <<original, alias, resuming, stateFile, todo, left, pc, faults>>
        /\ op'[b] # "started" /\ pc \in {"blocks", "failing"}
        /\ \A c \in Blocks \ {b} : op'[c] = op[c]
        /\ table' \in {table, table \cup {b}} /\ bat' \in {bat, table, bat \cup {b}}
    BY <1>3 DEF CopyBlock, AllocateBlock, WriteBlock, WriteBlockTable, OpsRun
  <2> QED
    BY <2>1, <2>2 DEF Untouched, Latest
<1>4. CASE MoveBlock(b) \/ MoveBlockUnacknowledged(b)
  <2>1. b \in Merging
    BY <1>4 DEF MoveBlock, MoveBlockUnacknowledged, Merging
  <2>2. /\ UNCHANGED <<original, alias, resuming, stateFile, todo, bat>>
        /\ op'[b] # "started" /\ pc \in {"blocks", "failing"} /\ pc' \in {pc, "failing"}
        /\ \A c \in Blocks \ {b} : op'[c] = op[c]
        /\ table' \in {table, table \cup {b}}
        /\ pc' # pc => faults' = faults + 1
        /\ faults' \in {faults, faults + 1}
    BY <1>4 DEF MoveBlock, MoveBlockUnacknowledged, OpsRun
  <2>3. \A c \in Blocks \ {b}, v \in Children : c \in left[v] => c \in left'[v]
    BY <1>4 DEF MoveBlock, MoveBlockUnacknowledged, RenameBlock
  <2> QED
    BY <2>1, <2>2, <2>3 DEF Untouched, Latest
<1> QED
  BY <1>1, <1>2, <1>3, <1>4 DEF MergeBlock

\* When a merge is resumed, what its checkpoint claims is named by the table on disk.
LEMMA ResumesDurable ==
  ASSUME Regime, ReadInv, Resume
  PROVE  \A b \in ChildBlocks : Claims(stateFile, b) => b \in bat
<1>1. pc = "idle" /\ stateFile # None
  BY DEF Resume
<1>2. faults \in 0 .. MaxFaults /\ faults # 0
  BY <1>1 DEF ReadInv, SafetyInv, TypeInv, TypeOK, FirstInv
<1>3. Durable
  BY <1>1, <1>2, MergeAssumption DEF Regime, Durable, ReadInv, LastInv
<1> QED
  BY <1>1, <1>3 DEF ReadInv, DurableInv, ClaimsNamed

LEMMA SeenInvNext ==
  ASSUME Regime, ReadInv, TypeInv', LoopInv', [Next]_vars
  PROVE  SeenInv'
<1> USE DEF ReadInv, SafetyInv, TypeInv
<1>0. ChildBlocks' = ChildBlocks /\ ChildBlocks \subseteq Blocks
  BY SameBlocks DEF ChildBlocks
<1>1. Published' <=> Published \/ (pc = "rename" /\ RenameChain)
  BY PublishedFrame
<1>2. CASE Open
  <2>1. UNCHANGED <<op, bat, alias>> /\ pc' = "firstState" /\ pc = "idle"
    BY <1>2 DEF Open, disk
  <2>2. state'.step = "mergeBlocks" /\ \A b \in ChildBlocks : state'.currentBlock <= b
    BY <1>2 DEF Open
  <2>3. \A b \in Blocks : op[b] = "none"
    BY <2>1 DEF OpsRun
  <2> QED
    BY <1>0, <2>1, <2>2, <2>3 DEF SeenInv, Published, Written, Target
<1>3. CASE WriteFirstState
  <2>1. UNCHANGED <<op, bat, alias>> /\ pc' = "blocks" /\ pc = "firstState" /\ todo' = ToMerge(state.currentBlock)
    BY <1>3 DEF WriteFirstState, disk
  <2>2. \A b \in Blocks : op[b] = "none"
    BY <2>1 DEF OpsRun
  <2>3. \A b \in ChildBlocks : b \in todo'
    BY <1>0, <2>1 DEF SeenInv, ToMerge, TypeOK, HasState, MergeState, Blocks
  <2> QED
    BY <1>0, <2>1, <2>2, <2>3 DEF SeenInv, Published, Written, Target
<1>4. CASE Resume
  <2>1. UNCHANGED <<op, bat, alias>> /\ pc = "idle" /\ stateFile # None
    BY <1>4 DEF Resume, disk
  <2>2. \A b \in Blocks : op[b] = "none"
    BY <2>1 DEF OpsRun
  <2>3. \A b \in ChildBlocks : Claims(stateFile, b) => b \in bat
    BY <1>4, ResumesDurable
  <2>4. CASE stateFile.step = "mergeBlocks"
    <3>1. pc' = "blocks" /\ table' = bat /\ todo' = ToMerge(stateFile.currentBlock)
      BY <1>4, <2>4 DEF Resume
    <3>2. stateFile.currentBlock \in Int
      BY <2>1, MergeAssumption DEF TypeOK, MergeState
    <3>3. \A b \in ChildBlocks : b \in todo' \/ b \in table'
      BY <1>0, <2>3, <3>1, <3>2 DEF ToMerge, Claims, Blocks
    <3> QED
      BY <1>0, <2>1, <2>2, <3>1, <3>3 DEF SeenInv, Published, Written, Target
  <2>5. CASE stateFile.step = "cleanupVhds"
    <3>1. pc' = "cleanState"
      BY <1>4, <2>5 DEF Resume
    <3> QED
      BY <1>0, <2>1, <2>2, <2>3, <2>5, <3>1 DEF SeenInv, Claims
  <2> QED
    BY <1>4, <2>4, <2>5 DEF Resume
<1>5. CASE EndBlocks \/ WriteTable
  BY <1>0, <1>5 DEF EndBlocks, WriteTable, disk, memory, SeenInv, Merging, OpsRun, Written, Published, Target
<1>6. CASE Quit \/ Crash
  BY <1>0, <1>6 DEF Quit, Crash, NoMemory, disk, SeenInv, Written, Published, Target
<1>7. CASE Quiet
  BY <1>0, <1>1, <1>7 DEF Quiet, SeenInv, Written
<1>8. ASSUME NEW b \in Blocks, MergeBlock(b) \/ MoveBlockUnacknowledged(b) \/ BlockFails(b)
      PROVE  SeenInv'
  <2>1. /\ \A c \in Blocks \ {b} : op'[c] = op[c]
        /\ todo' \in {todo, todo \ {b}} /\ (op'[b] # "started" => todo' = todo)
        /\ bat \subseteq bat' /\ table \subseteq table'
        /\ alias' = alias /\ b \in ChildBlocks
        /\ pc \in {"blocks", "failing"} /\ pc' \in {pc, "failing"}
    BY <1>8, BlockFrame
  <2>2. op'[b] \in {"allocated", "moved", "done"} => b \in table'
    BY <1>8, <2>1 DEF MergeBlock, StartBlock, MoveBlock, WriteBlockTable, FindMovedBlock, MissBlock, CopyBlock,
         AllocateBlock, WriteBlock, FinishBlock, MoveBlockUnacknowledged, BlockFails, TypeOK, SeenInv
  <2>3. op'[b] # "none" \/ op[b] = "done"
    BY <1>8 DEF MergeBlock, StartBlock, MoveBlock, WriteBlockTable, FindMovedBlock, MissBlock, CopyBlock,
         AllocateBlock, WriteBlock, FinishBlock, MoveBlockUnacknowledged, BlockFails, TypeOK
  <2>4. pc' = "blocks" => op'[b] # "failed"
    BY DEF LoopInv
  <2>5. pc' = "blocks" => b \in todo' \/ op'[b] = "started" \/ b \in table'
    <3>1. op'[b] \in OpStates
      BY DEF TypeOK
    <3> QED
      BY <2>1, <2>2, <2>3, <2>4, <3>1 DEF OpStates, Running, SeenInv
  <2> QED
    BY <1>0, <2>1, <2>2, <2>5 DEF SeenInv, Written, Published, Target
<1> QED
  BY <1>2, <1>3, <1>4, <1>5, <1>6, <1>7, <1>8, ReadFrame

LEMMA FirstInvNext ==
  ASSUME ReadInv, TypeInv', [Next]_vars
  PROVE  FirstInv'
<1> USE DEF ReadInv, SafetyInv, TypeInv
<1>0. ChildBlocks' = ChildBlocks /\ original' = original /\ ChildBlocks \subseteq Blocks /\ faults \in Nat
  BY SameBlocks, MergeAssumption DEF ChildBlocks, TypeOK
<1>1. CASE Open
  BY <1>0, <1>1 DEF Open, disk, FirstInv, Untouched, Latest
<1>2. CASE WriteFirstState
  BY <1>0, <1>2 DEF WriteFirstState, disk, FirstInv, Untouched, Latest, OpsRun
<1>3. CASE Resume
  <2>1. faults' = faults /\ faults # 0
    BY <1>3 DEF Resume, FirstInv
  <2> QED
    BY <1>0, <2>1 DEF FirstInv
<1>4. CASE EndBlocks \/ WriteTable
  BY <1>0, <1>4 DEF EndBlocks, WriteTable, disk, memory, FirstInv, Untouched, Latest
<1>5. CASE Quit
  <2>1. faults' = faults /\ faults # 0 /\ resuming' = FALSE
    BY <1>5 DEF Quit, NoMemory, FirstInv
  <2> QED
    BY <1>0, <2>1 DEF FirstInv
<1>6. CASE Crash
  <2>1. faults' = faults + 1
    BY <1>6 DEF Crash
  <2> QED
    BY <1>0, <2>1 DEF FirstInv
<1>7. CASE Quiet
  <2>1. CASE faults' = faults + 1
    BY <1>0, <2>1 DEF FirstInv
  <2>2. CASE faults' = faults
    BY <1>0, <1>7, <2>2 DEF Quiet, FirstInv, Untouched, Latest, Written
  <2> QED
    BY <1>7, <2>1, <2>2 DEF Quiet
<1>8. ASSUME NEW b \in Blocks, MergeBlock(b) \/ MoveBlockUnacknowledged(b) \/ BlockFails(b)
      PROVE  FirstInv'
  <2>1. /\ UNCHANGED <<original, alias, resuming, stateFile>>
        /\ \A c \in Blocks \ {b} : op'[c] = op[c]
        /\ todo' \in {todo, todo \ {b}} /\ (op'[b] # "started" => todo' = todo)
        /\ b \in ChildBlocks
        /\ pc \in {"blocks", "failing"} /\ pc' \in {pc, "failing"}
        /\ pc' # pc => MissBlock(b) \/ faults' > 0
        /\ faults' \in {faults, faults + 1}
        /\ \A c \in Blocks \ {b} : Untouched(c) => Untouched(c)'
    BY <1>8, BlockFrame
  <2>2. CASE faults' > 0
    BY <2>2 DEF FirstInv
  <2>3. CASE faults' = 0
    <3>1. faults = 0 /\ ~resuming
      BY <1>0, <2>1, <2>3 DEF FirstInv
    <3>2. ~MissBlock(b)
      BY <2>1, <3>1 DEF MissBlock, FirstInv, Untouched
    <3>3. op'[b] = "started" \/ b \in todo' => op[b] = "started" \/ b \in todo
      BY <1>8, <2>1 DEF MergeBlock, StartBlock, MoveBlock, WriteBlockTable, FindMovedBlock, MissBlock, CopyBlock,
         AllocateBlock, WriteBlock, FinishBlock, MoveBlockUnacknowledged, BlockFails, TypeOK
    <3>4. Transfer = "move" /\ (op'[b] = "started" \/ b \in todo') => left' = left
      <4>1. left' = left \/ MoveBlock(b) \/ MoveBlockUnacknowledged(b)
        BY <1>8 DEF MergeBlock, StartBlock, WriteBlockTable, FindMovedBlock, MissBlock, CopyBlock,
         AllocateBlock, WriteBlock, FinishBlock, BlockFails, disk
      <4>2. ASSUME MoveBlock(b) \/ MoveBlockUnacknowledged(b)
            PROVE  op'[b] # "started" /\ b \in Merging /\ todo' = todo
        BY <4>2 DEF MoveBlock, MoveBlockUnacknowledged, TypeOK, Merging
      <4>3. b \in Merging => b \notin todo
        BY DEF LoopInv, Blocks
      <4> QED
        BY <4>1, <4>2, <4>3
    <3>5. Transfer = "move" /\ (op'[b] = "started" \/ b \in todo') => Untouched(b)'
      BY <2>1, <3>1, <3>3, <3>4 DEF FirstInv, Untouched, Latest
    <3> QED
      BY <1>0, <2>1, <2>3, <3>1, <3>2, <3>5 DEF FirstInv
  <2> QED
    BY <1>0, <2>1, <2>2, <2>3
<1> QED
  BY <1>1, <1>2, <1>3, <1>4, <1>5, <1>6, <1>7, <1>8, ReadFrame

LEMMA LastInvNext ==
  ASSUME ReadInv, TypeInv', [Next]_vars
  PROVE  LastInv'
<1> SUFFICES ASSUME Transfer = "move", MaxFaults <= 1, resuming'
             PROVE  pc' \notin {"idle", "failing"}
  BY DEF LastInv
<1> USE DEF ReadInv, SafetyInv, TypeInv
<1>0. faults \in Nat /\ faults' \in Nat /\ faults' <= 1 /\ MaxFaults \in Nat
  BY MergeAssumption DEF TypeOK
<1>1. resuming => faults = 1 /\ pc \notin {"idle", "failing"}
  BY <1>0, MergeAssumption DEF TypeOK, FirstInv, LastInv
<1>2. CASE Open \/ WriteFirstState \/ Resume \/ EndBlocks \/ WriteTable
  BY <1>1, <1>2 DEF Open, WriteFirstState, Resume, EndBlocks, WriteTable, memory
<1>3. CASE Quit \/ Crash
  BY <1>3 DEF Quit, Crash, NoMemory
<1>4. CASE Quiet
  BY <1>0, <1>1, <1>4 DEF Quiet, Written
<1>5. ASSUME NEW b \in Blocks, MergeBlock(b) \/ MoveBlockUnacknowledged(b) \/ BlockFails(b)
      PROVE  pc' \notin {"idle", "failing"}
  <2>1. resuming /\ pc' \in {pc, "failing"} /\ pc = "blocks"
    BY <1>1, <1>5, BlockFrame
  <2>2. ~BlockFails(b) /\ ~MoveBlockUnacknowledged(b)
    BY <1>0, <1>1, <2>1 DEF BlockFails, MoveBlockUnacknowledged
  <2>3. ~MissBlock(b)
    <3> SUFFICES ASSUME MissBlock(b) PROVE FALSE
      OBVIOUS
    <3>1. PICK v \in Children : Latest(v, b) /\ b \notin left[v]
      BY DEF MissBlock
    <3>2. content[b] = v /\ content[b] = None
      BY <2>1, <3>1 DEF MissBlock, ContentInv
    <3> QED
      BY <3>2, MergeAssumption DEF Children
  <2>4. pc' = pc
    BY <1>5, <2>2, <2>3 DEF MergeBlock, StartBlock, MoveBlock, WriteBlockTable, FindMovedBlock, CopyBlock,
       AllocateBlock, WriteBlock, FinishBlock
  <2> QED
    BY <2>1, <2>4
<1> QED
  BY <1>2, <1>3, <1>4, <1>5, ReadFrame

\* A merge that resumes after the only fault cannot stop.
LEMMA DurableBefore ==
  ASSUME Regime, ReadInv, TypeInv', [Next]_vars, Durable'
  PROVE  Durable
<1> SUFFICES ASSUME Transfer = "move", resuming, ~resuming' PROVE FALSE
  BY DEF Durable
<1> USE DEF ReadInv, SafetyInv, TypeInv
<1>1. faults \in Nat /\ MaxFaults \in Nat /\ faults > 0 /\ faults <= MaxFaults /\ MaxFaults <= 1
  BY MergeAssumption DEF TypeOK, FirstInv, Regime
<1>2. ~Quit /\ ~Crash
  BY <1>1 DEF Quit, Crash, LastInv
<1>3. ~Open /\ ~Resume
  BY <1>1 DEF Open, Resume, LastInv
<1>4. ~Quiet /\ ~WriteFirstState /\ ~EndBlocks /\ ~WriteTable
  BY DEF Quiet, WriteFirstState, EndBlocks, WriteTable, memory
<1>5. ASSUME NEW b \in Blocks, MergeBlock(b) \/ MoveBlockUnacknowledged(b) \/ BlockFails(b)
      PROVE  FALSE
  BY <1>5, BlockFrame
<1> QED
  BY <1>2, <1>3, <1>4, <1>5, ReadFrame

LEMMA BatGrows ==
  ASSUME ReadInv, [Next]_vars
  PROVE  bat \subseteq bat'
<1> USE DEF ReadInv, SafetyInv
<1>1. CASE Open \/ WriteFirstState \/ Resume \/ EndBlocks \/ WriteTable \/ Quit \/ Crash \/ Quiet
  BY <1>1 DEF Open, WriteFirstState, Resume, EndBlocks, WriteTable, Quit, Crash, Quiet, disk, TableInv
<1>2. ASSUME NEW b \in Blocks, MergeBlock(b) \/ MoveBlockUnacknowledged(b) \/ BlockFails(b)
      PROVE  bat \subseteq bat'
  BY <1>2, BlockFrame
<1> QED
  BY <1>1, <1>2, ReadFrame DEF TypeInv

LEMMA ClaimsNamedNext ==
  ASSUME ReadInv, Durable, TypeInv', [Next]_vars
  PROVE  ClaimsNamed'
<1> USE DEF ReadInv, SafetyInv, TypeInv
<1>0. ChildBlocks' = ChildBlocks /\ ChildBlocks \subseteq Blocks /\ bat \subseteq bat'
  BY SameBlocks, BatGrows DEF ChildBlocks
<1>1. ClaimsNamed
  BY DEF DurableInv
<1>2. CASE {stateFile', state'} \cup pending' \subseteq {None, stateFile, state} \cup pending
  BY <1>0, <1>1, <1>2 DEF ClaimsNamed, Claims
<1>3. CASE Open
  <2>1. stateFile' = stateFile /\ pending' = pending
    BY <1>3 DEF Open
  <2>2. \A b \in ChildBlocks : ~Claims(state', b)
    BY <1>0, <1>3 DEF Open, Claims, Blocks
  <2> QED
    BY <1>0, <1>1, <2>1, <2>2 DEF ClaimsNamed, Claims
<1>4. CASE WriteCleanState
  BY <1>0, <1>4 DEF WriteCleanState, SeenInv, Written, ClaimsNamed, disk
<1>5. ASSUME NEW b \in Blocks, FinishBlock(b)
      PROVE  ClaimsNamed'
  <2>1. PICK c \in Merging : /\ \A d \in Merging : c <= d
                             /\ state' = [step |-> "mergeBlocks", currentBlock |-> c]
    BY <1>5 DEF FinishBlock, CurrentBlock
  <2>2. stateFile' = stateFile /\ pending' \subseteq pending \cup {state'}
    BY <1>5 DEF FinishBlock
  <2>3. ASSUME NEW d \in ChildBlocks, d < c
        PROVE  d \in bat
    <3>1. d \in Blocks /\ c \in Blocks /\ d \notin Merging
      BY <1>0, <2>1, <2>3 DEF Merging, Blocks
    <3>2. op[d] = "none"
      BY <3>1 DEF Merging
    <3>3. d \in bat \/ d \in todo
      BY <2>1, <3>2 DEF DurableInv, BlockNamed
    <3>4. d \notin todo
      BY <2>1, <2>3, <3>1 DEF LoopInv, Blocks
    <3> QED
      BY <3>3, <3>4
  <2>4. \A d \in ChildBlocks : Claims(state', d) => d \in bat'
    BY <1>0, <2>1, <2>3 DEF Claims
  <2> QED
    BY <1>0, <1>1, <2>2, <2>4 DEF ClaimsNamed, Claims
<1> QED
  BY <1>2, <1>3, <1>4, <1>5, CheckpointFrame

LEMMA BlockNamedNext ==
  ASSUME Regime, ReadInv, Durable, Durable', TypeInv', [Next]_vars, NEW b \in ChildBlocks
  PROVE  BlockNamed(b)'
<1> USE DEF ReadInv, SafetyInv, TypeInv
<1>0. b \in Blocks /\ bat \subseteq bat'
  BY BatGrows DEF ChildBlocks
<1>1. BlockNamed(b)
  BY DEF DurableInv
<1>2. CASE Open \/ EndBlocks \/ WriteTable
  BY <1>0, <1>1, <1>2 DEF Open, EndBlocks, WriteTable, disk, memory, Merging, BlockNamed, OpsRun
<1>3. CASE WriteFirstState
  <2>1. UNCHANGED <<op, bat, table>> /\ pc = "firstState" /\ todo' = ToMerge(state.currentBlock)
    BY <1>3 DEF WriteFirstState, disk
  <2>2. op[b] = "none"
    BY <1>0, <2>1 DEF OpsRun
  <2>3. b \in todo'
    BY <1>0, <2>1 DEF SeenInv, ToMerge, TypeOK, HasState, MergeState, Blocks
  <2>4. table = bat
    BY <2>1 DEF TableInv
  <2> QED
    BY <2>1, <2>2, <2>3, <2>4 DEF BlockNamed
<1>4. CASE Resume
  <2>1. UNCHANGED <<op, bat>> /\ pc = "idle" /\ stateFile # None /\ Transfer # "move"
    BY <1>4 DEF Resume, disk, Durable
  <2>2. \A c \in Blocks : op[c] = "none"
    BY <2>1 DEF OpsRun
  <2>3. Claims(stateFile, b) => b \in bat
    BY <1>4, ResumesDurable
  <2>4. CASE stateFile.step = "mergeBlocks"
    <3>1. pc' = "blocks" /\ todo' = ToMerge(stateFile.currentBlock)
      BY <1>4, <2>4 DEF Resume
    <3>2. stateFile.currentBlock \in Int
      BY <2>1, MergeAssumption DEF TypeOK, MergeState
    <3>3. b \in todo' \/ b \in bat
      BY <1>0, <2>3, <3>1, <3>2 DEF ToMerge, Claims, Blocks
    <3> QED
      BY <1>0, <2>1, <2>2, <3>3 DEF BlockNamed
  <2>5. CASE stateFile.step = "cleanupVhds"
    BY <1>0, <2>1, <2>2, <2>3, <2>5 DEF BlockNamed, Claims
  <2> QED
    BY <1>4, <2>4, <2>5 DEF Resume
<1>5. CASE Quit \/ Crash
  BY <1>0, <1>5 DEF Quit, Crash, NoMemory, disk, BlockNamed, Merging
<1>6. CASE Quiet
  BY <1>0, <1>1, <1>6 DEF Quiet, BlockNamed, Merging, Written, OpsRun
<1>7. ASSUME NEW c \in Blocks, MergeBlock(c) \/ MoveBlockUnacknowledged(c) \/ BlockFails(c)
      PROVE  BlockNamed(b)'
  <2>1. /\ \A d \in Blocks \ {c} : op'[d] = op[d]
        /\ todo' \in {todo, todo \ {c}} /\ (op'[c] # "started" => todo' = todo)
        /\ \A d \in bat' \cup table' : d = c \/ d \in bat \cup table
        /\ table \subseteq table'
        /\ pc \in {"blocks", "failing"} /\ pc' \in {pc, "failing"}
    BY <1>7, BlockFrame
  <2>2. pc = "blocks" \/ Merging # {}
    BY <1>7 DEF MergeBlock, StartBlock, MoveBlock, WriteBlockTable, FindMovedBlock, MissBlock, CopyBlock,
         AllocateBlock, WriteBlock, FinishBlock, MoveBlockUnacknowledged, BlockFails, Running, Merging
  <2>3. CASE b # c
    BY <1>0, <1>1, <2>1, <2>2, <2>3 DEF BlockNamed
  <2>4. CASE b = c
    <3>1. CASE StartBlock(b)
      <4>1. UNCHANGED <<bat, table>> /\ b \in todo /\ op'[b] = "started"
        BY <3>1 DEF StartBlock, disk, TypeOK
      <4>2. op[b] = "none"
        <5>1. b \notin Merging
          BY <1>0, <4>1 DEF LoopInv, Blocks
        <5> QED
          BY <1>0, <5>1 DEF Merging
      <4> QED
        BY <1>1, <2>2, <4>1, <4>2 DEF BlockNamed
    <3>2. CASE MoveBlock(b) \/ MoveBlockUnacknowledged(b)
      <4>1. Transfer = "move" /\ ~resuming
        BY <3>2, MergeAssumption DEF MoveBlock, MoveBlockUnacknowledged, Durable
      <4>2. op'[b] \in {"moved", "failed"} \/ (op'[b] = "done" /\ b \in table)
        <5>1. CASE MoveBlock(b)
          BY <5>1 DEF MoveBlock, TypeOK
        <5>2. CASE MoveBlockUnacknowledged(b)
          <6>1. op' = [op EXCEPT ![b] = "failed"]
            BY <4>1, <5>2, Zenon DEF MoveBlockUnacknowledged
          <6> QED
            BY <1>0, <6>1 DEF TypeOK
        <5> QED
          BY <3>2, <5>1, <5>2
      <4>3. op[b] = "started"
        BY <3>2 DEF MoveBlock, MoveBlockUnacknowledged
      <4> QED
        BY <1>0, <1>1, <2>2, <4>1, <4>2, <4>3 DEF BlockNamed
    <3>3. CASE WriteBlockTable(b)
      BY <1>0, <3>3 DEF WriteBlockTable, SeenInv, BlockNamed
    <3>4. ~FindMovedBlock(b) /\ ~CopyBlock(b)
      BY DEF FindMovedBlock, CopyBlock, Durable
    <3>5. CASE MissBlock(b) \/ BlockFails(b)
      BY <1>0, <1>1, <3>5 DEF MissBlock, BlockFails, BlockNamed, TypeOK
    <3>6. CASE AllocateBlock(b)
      BY <3>6 DEF AllocateBlock, BlockNamed
    <3>7. CASE WriteBlock(b)
      <4>1. op[b] = "allocated" /\ op'[b] = "done"
        BY <3>7 DEF WriteBlock, TypeOK
      <4>2. b \in bat
        BY <1>1, <4>1 DEF BlockNamed
      <4> QED
        BY <1>0, <4>2 DEF BlockNamed
    <3>8. CASE FinishBlock(b)
      <4>1. op[b] = "done"
        BY <3>8 DEF FinishBlock
      <4> QED
        BY <1>0, <1>1, <4>1 DEF BlockNamed
    <3> QED
      BY <1>7, <2>4, <3>1, <3>2, <3>3, <3>4, <3>5, <3>6, <3>7, <3>8 DEF MergeBlock
  <2> QED
    BY <2>3, <2>4
<1> QED
  BY <1>2, <1>3, <1>4, <1>5, <1>6, <1>7, ReadFrame

LEMMA ReadInvNext == Regime /\ ReadInv /\ [Next]_vars => ReadInv'
<1> SUFFICES ASSUME Regime, ReadInv, [Next]_vars PROVE ReadInv'
  OBVIOUS
<1>1. SafetyInv'
  BY SafetyInvNext DEF ReadInv
<1>2. TypeInv' /\ LoopInv'
  BY <1>1 DEF SafetyInv
<1>3. TableInv' /\ SeenInv' /\ FirstInv' /\ LastInv'
  BY <1>2, TableInvNext, SeenInvNext, FirstInvNext, LastInvNext
<1>4. ASSUME Durable' PROVE ClaimsNamed' /\ \A b \in ChildBlocks' : BlockNamed(b)'
  <2>1. Durable /\ ChildBlocks' = ChildBlocks
    BY <1>2, <1>4, DurableBefore, SameBlocks
  <2>2. ClaimsNamed'
    BY <1>2, <2>1, ClaimsNamedNext
  <2>3. \A b \in ChildBlocks : BlockNamed(b)'
    BY <1>2, <1>4, <2>1, BlockNamedNext
  <2> QED
    BY <2>1, <2>2, <2>3
<1>5. DurableInv'
  BY <1>4 DEF DurableInv
<1> QED
  BY <1>1, <1>3, <1>5 DEF ReadInv

\* Once the ancestor has taken the place of the target, its data exists, a file ends
\* with its footer, and its allocation table on disk names exactly the blocks of the
\* merged disk: for VHD files whatever fails, for renamed blocks with one fault at
\* most, for copied ones without.
THEOREM PublishedReadable ==
  ASSUME Transfer = "file" \/ MaxFaults = 0 \/ (Transfer = "move" /\ MaxFaults <= 1)
  PROVE  Spec => []PublishedIsReadable
<1>1. Regime
  BY DEF Regime
<1>2. ReadInv => PublishedIsReadable
  <2> SUFFICES ASSUME ReadInv, Published
               PROVE  0 \in data /\ sealed /\ bat = {b \in Blocks : ~Overlay(b, None)}
    BY DEF PublishedIsReadable
  <2>4. 0 \in data /\ sealed
    BY DEF ReadInv, SafetyInv, DataInv, SealInv, Discarded
  <2>1. bat = Merged
    BY DEF ReadInv, TableInv, SeenInv, Merged
  <2>2. original[0] \subseteq Blocks
    BY MergeAssumption DEF ReadInv, SafetyInv, TypeInv, TypeOK, Vhds
  <2>3. ASSUME NEW b \in Blocks PROVE Overlay(b, None) <=> b \notin Merged
    <3>1. CASE InChildren(b)
      BY <3>1, MergeAssumption DEF Overlay, Latest, Merged, ChildBlocks, Children
    <3>2. CASE ~InChildren(b)
      BY <3>2, MergeAssumption DEF Overlay, Merged, ChildBlocks
    <3> QED
      BY <3>1, <3>2
  <2> QED
    BY <2>1, <2>2, <2>3, <2>4 DEF Merged, ChildBlocks
<1>3. Spec => []ReadInv
  <2>1. ReadInv /\ [Next]_vars => ReadInv'
    BY <1>1, ReadInvNext
  <2> QED
    BY <2>1, ReadInvInit, PTL DEF Spec
<1> QED
  BY <1>2, <1>3, PTL

=============================================================================
