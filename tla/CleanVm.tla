------------------------------ MODULE CleanVm ------------------------------
(***************************************************************************)
(* cleanVm() of @xen-orchestra/backups/_cleanVm.mjs on the backups of one  *)
(* disk of one VM: it opens the VHDs, finishes or forgets the merges that  *)
(* were interrupted, deletes what no backup needs and merges the VHDs of   *)
(* the backups that were deleted into the next one.  The user deletes      *)
(* backups at any time (RemoteAdapter.deleteDeltaVmBackups), the process   *)
(* may stop between any two I/O steps, and cleanVm() runs again.           *)
(*                                                                         *)
(* Backup k is the metadata file k, which names the VHD of path k; paths   *)
(* are ordered by date.  A path leads to data: the directory an alias      *)
(* names, or the VHD file itself.  The content of a block is abstracted to *)
(* the VHD that wrote it.  The merge itself is that of VhdMerge, with its  *)
(* state file written at the beginning of each step only.                  *)
(***************************************************************************)
EXTENDS Integers, FiniteSets, SequencesExt

CONSTANTS
    NVhds,        \* number of backups, hence of VHDs
    NBlocks,      \* number of blocks of the disk
    Concurrency,  \* mergeBlockConcurrency
    Transfer,     \* how a block is merged: see VhdMerge
    MaxDeleted,   \* bound: backups the user deletes
    MaxCrashes,   \* bound: crashes
    CrashSteps,   \* bound: the steps of a merge at which the process may stop
    None          \* no file, no VHD, a block that no VHD wrote

Vhds   == 1 .. NVhds
Blocks == 0 .. (NBlocks - 1)

\* The steps of a merge; "none" when no merge is running.
MergeSteps == {"none", "blocks", "failing", "cleanState", "rename", "oldTarget", "children"}

Phases == {"idle", "check", "states", "aliases", "orphans", "jsons", "work"}

ASSUME CleanVmAssumption ==
    /\ NVhds \in Nat \ {0}
    /\ NBlocks \in Nat \ {0}
    /\ Concurrency \in Nat \ {0}
    /\ Transfer \in {"move", "copy", "file"}
    /\ Transfer = "file" => Concurrency = 1
    /\ MaxDeleted \in Nat
    /\ MaxCrashes \in Nat
    /\ CrashSteps \subseteq MergeSteps
    /\ None \notin Int /\ None \notin Seq(Int)

VARIABLES
    (* The backups as they were made. *)
    original,  \* original[v]: the blocks that VHD v has
    parent,    \* parent[d]: the path in the header of data d, None for a full
    deleted,   \* the backups the user deleted
    (* The repository. *)
    path,      \* path[v]: the data that path v leads to
    data,      \* the data that exist
    blocks,    \* blocks[d][b]: whose block is stored as b in data d
    table,     \* table[d]: allocation table of data d
    uuid,      \* uuid[d]: the VHD whose uuid is in the footer of data d
    states,    \* states[v]: the merge state file beside path v
    jsons,     \* the metadata files
    (* A run of cleanVm(). *)
    phase,
    merging,   \* option merge
    vhds,      \* vhds
    pending,   \* VHDs still to open, then metadata still to read
    parents,   \* vhdParents
    child,     \* vhdChildren
    byId,      \* vhdById
    resumed,   \* interruptedVhds: the chains in the state files
    unused,    \* unusedVhds
    doomed,    \* paths that are being unlinked
    merged,    \* last VHDs of the chains that were merged: metadataWithMergedVhd
    (* The merges: one at a time, they outlive a run that throws. *)
    queue,     \* chains that wait for the limiter
    chain,     \* the chain that is being merged
    opened,    \* the data of its VHDs, as opened
    step,
    todo,      \* blocks still to merge
    resuming,  \* #isResuming
    stale,     \* number of chains, the current one included, of runs that threw
    crashes

backups    == <<original, parent, deleted>>
repository == <<path, data, blocks, table, uuid, states, jsons>>
checks     == <<vhds, pending, parents, child, byId, resumed, unused>>
run        == <<phase, merging, checks, doomed, merged>>
merge      == <<queue, chain, opened, step, todo, resuming, stale>>
vars       == <<backups, repository, run, merge, crashes>>

Alias == Transfer # "file"

NoVhd == [v \in Vhds |-> None]

-----------------------------------------------------------------------------

\* Each backup is made on top of the previous one.
Init ==
    /\ original \in [Vhds -> SUBSET Blocks]
    /\ parent = [v \in Vhds |-> IF v = 1 THEN None ELSE v - 1]
    /\ deleted = {}
    /\ path = [v \in Vhds |-> v]
    /\ data = Vhds
    /\ blocks = [v \in Vhds |-> [b \in Blocks |-> IF b \in original[v] THEN v ELSE None]]
    /\ table = original
    /\ uuid = [v \in Vhds |-> v]
    /\ states = NoVhd
    /\ jsons = Vhds
    /\ phase = "idle"
    /\ merging = FALSE
    /\ vhds = {}
    /\ pending = {}
    /\ parents = NoVhd
    /\ child = NoVhd
    /\ byId = NoVhd
    /\ resumed = NoVhd
    /\ unused = {}
    /\ doomed = {}
    /\ merged = {}
    /\ queue = <<>>
    /\ chain = <<>>
    /\ opened = <<>>
    /\ step = "none"
    /\ todo = {}
    /\ resuming = FALSE
    /\ stale = 0
    /\ crashes = 0

\* deleteDeltaVmBackups(): the metadata file is deleted, without the lock.
DeleteBackup(k) ==
    /\ k \in jsons
    /\ Cardinality(deleted) < MaxDeleted
    /\ jsons' = jsons \ {k}
    /\ deleted' = deleted \cup {k}
    /\ UNCHANGED <<original, parent, path, data, blocks, table, uuid, states, run, merge, crashes>>

-----------------------------------------------------------------------------
(* Files. *)

Exists(v) == path[v] # None /\ path[v] \in data

\* The data of d is deleted.
EraseData(d) ==
    /\ data' = data \ {d}
    /\ blocks' = [blocks EXCEPT ![d] = [b \in Blocks |-> None]]

\* VhdAbstract.unlink(): the data first, then the alias that leads to it.
Unlink(v) ==
    IF Exists(v)
    THEN /\ EraseData(path[v])
         /\ path' = IF Alias THEN path ELSE [path EXCEPT ![v] = None]
    ELSE /\ path' = [path EXCEPT ![v] = None]
         /\ UNCHANGED <<data, blocks>>

-----------------------------------------------------------------------------
(* cleanVm(): the VHDs are listed, then opened in any order. *)

Start(m) ==
    /\ phase = "idle"
    /\ phase' = "check"
    /\ merging' = m
    /\ vhds' = {v \in Vhds : path[v] # None}
    /\ pending' = vhds'
    /\ resumed' = [v \in Vhds |-> IF states[v] = None THEN None ELSE states[v].chain]
    /\ parents' = NoVhd
    /\ child' = NoVhd
    /\ byId' = NoVhd
    /\ UNCHANGED <<backups, repository, unused, doomed, merged, merge, crashes>>

\* duplicate.containsAllDataOf(vhd) is a promise, which is always true: the VHD
\* that was opened first is kept.
IsDuplicate(v) == byId[uuid[path[v]]] # None

\* "this script does not support multiple VHD children"
SecondChild(v) == parent[path[v]] # None /\ child[parent[path[v]]] # None

CheckVhd(v) ==
    /\ phase = "check"
    /\ v \in pending
    /\ pending' = pending \ {v}
    /\ IF Exists(v)
       THEN LET p == parent[path[v]]
                dropped == SecondChild(v) \/ IsDuplicate(v)
            IN /\ parents' = [parents EXCEPT ![v] = p]
               /\ child' = IF p # None /\ child[p] = None THEN [child EXCEPT ![p] = v] ELSE child
               /\ byId' = IF dropped THEN byId ELSE [byId EXCEPT ![uuid[path[v]]] = v]
               /\ vhds' = IF dropped THEN vhds \ {v} ELSE vhds
       ELSE vhds' = vhds \ {v} /\ UNCHANGED <<parents, child, byId>>
    /\ UNCHANGED <<backups, repository, phase, merging, resumed, unused, doomed, merged, merge, crashes>>

EndCheck ==
    /\ phase = "check"
    /\ pending = {}
    /\ phase' = "states"
    /\ UNCHANGED <<backups, repository, merging, checks, doomed, merged, merge, crashes>>

Interrupted == {v \in Vhds : resumed[v] # None}

\* Mutant: the state is forgotten and its file stays.
ForgetState(v) ==
    /\ phase = "states"
    /\ v \in Interrupted \ vhds
    /\ resumed' = [resumed EXCEPT ![v] = None]
    /\ UNCHANGED <<backups, repository, phase, merging, vhds, pending, parents, child, byId, unused,
                   doomed, merged, merge, crashes>>

\* The merge state of a VHD that is missing is deleted.
DropState(v) ==
    /\ phase = "states"
    /\ v \in Interrupted \ vhds
    /\ resumed' = [resumed EXCEPT ![v] = None]
    /\ states' = [states EXCEPT ![v] = None]
    /\ UNCHANGED <<backups, path, data, blocks, table, uuid, jsons, phase, merging, vhds, pending,
                   parents, child, byId, unused, doomed, merged, merge, crashes>>

EndStates ==
    /\ phase = "states"
    /\ Interrupted \subseteq vhds
    /\ phase' = "aliases"
    /\ UNCHANGED <<backups, repository, merging, checks, doomed, merged, merge, crashes>>

-----------------------------------------------------------------------------
(* checkAliases(): the aliases without data, then the data without alias. *)

Broken(v) == path[v] # None /\ path[v] \notin data

RemoveAlias(v) ==
    /\ phase = "aliases"
    /\ Broken(v)
    /\ Unlink(v)
    /\ UNCHANGED <<backups, table, uuid, states, jsons, run, merge, crashes>>

Unreferenced(d) == d \in data /\ \A v \in Vhds : path[v] # d

RemoveData(d) ==
    /\ phase = "aliases"
    /\ \A v \in Vhds : ~Broken(v)
    /\ Unreferenced(d)
    /\ EraseData(d)
    /\ UNCHANGED <<backups, path, table, uuid, states, jsons, run, merge, crashes>>

\* A VHD is an orphan when an ancestor of it is not in vhds.
IsOrphan[v \in Vhds] ==
    parents[v] # None /\ (IsOrphan[parents[v]] \/ parents[v] \notin vhds)

FindOrphans ==
    /\ phase = "aliases"
    /\ \A v \in Vhds : ~Broken(v) /\ ~Unreferenced(v)
    /\ LET orphans == {v \in Vhds : IsOrphan[v]}
       IN /\ vhds' = vhds \ orphans
          /\ doomed' = doomed \cup orphans
    /\ phase' = "orphans"
    /\ UNCHANGED <<backups, repository, merging, pending, parents, child, byId, resumed, unused,
                   merged, merge, crashes>>

\* One of the deletions that are under way.
UnlinkVhd(v) ==
    /\ v \in doomed
    /\ Unlink(v)
    /\ doomed' = IF path'[v] = None THEN doomed \ {v} ELSE doomed
    /\ UNCHANGED <<backups, table, uuid, states, jsons, phase, merging, checks, merged, merge, crashes>>

-----------------------------------------------------------------------------
(* The metadata. *)

ListJsons ==
    /\ phase = "orphans"
    /\ doomed = {}
    /\ pending' = jsons
    /\ unused' = vhds
    /\ phase' = "jsons"
    /\ UNCHANGED <<backups, repository, merging, vhds, parents, child, byId, resumed, doomed, merged,
                   merge, crashes>>

\* The metadata of a backup whose VHD is missing is deleted; one that cannot be
\* read, because it was just deleted, is ignored.
ReadJson(k) ==
    /\ phase = "jsons"
    /\ k \in pending
    /\ pending' = pending \ {k}
    /\ IF k \in jsons /\ k \in vhds
       THEN unused' = unused \ {k} /\ UNCHANGED jsons
       ELSE jsons' = jsons \ {k} /\ UNCHANGED unused
    /\ UNCHANGED <<backups, path, data, blocks, table, uuid, states, phase, merging, vhds, parents,
                   child, byId, resumed, doomed, merged, merge, crashes>>

-----------------------------------------------------------------------------
(* The chains to merge, and the unused VHDs that no used VHD needs. *)

\* getUsedChildChainOrDelete(): the unused VHDs from v to the first used one.
UsedChildChain[v \in Vhds] ==
    IF v \notin unused THEN <<v>>
    ELSE IF child[v] = None \/ UsedChildChain[child[v]] = <<>> THEN <<>>
    ELSE <<v>> \o UsedChildChain[child[v]]

\* The oldest VHD of each chain.
Heads ==
    {v \in unused : UsedChildChain[v] # <<>> /\ \A w \in unused : child[w] # v}

\* The chain of an interrupted merge replaces the one that begins with the same
\* VHD; the others come last.
ChainOf(v) == IF v \in Interrupted THEN resumed[v] ELSE UsedChildChain[v]

InOrder(set) ==
    CHOOSE s \in [1 .. Cardinality(set) -> set] : \A i, j \in DOMAIN s : i < j => s[i] < s[j]

ToMerge ==
    LET order == InOrder(Heads) \o InOrder(Interrupted \ Heads)
    IN [i \in DOMAIN order |-> ChainOf(order[i])]

\* Mutant: every unused VHD is deleted, the chains that would be merged included.
AllUnused == unused

Unneeded == {v \in unused : UsedChildChain[v] = <<>>}

\* The deletions and the merges are started together.
FindChains ==
    /\ phase = "jsons"
    /\ pending = {}
    /\ doomed' = Unneeded
    /\ queue' = IF merging THEN queue \o ToMerge ELSE queue
    /\ phase' = "work"
    /\ UNCHANGED <<backups, repository, merging, checks, merged, chain, opened, step, todo, resuming,
                   stale, crashes>>

Unmerged == Len(queue) + (IF chain = <<>> THEN 0 ELSE 1)

\* The size of the backups whose chain was merged is written to their metadata.
EndRun ==
    /\ phase = "work"
    /\ doomed = {}
    /\ Unmerged = stale
    /\ jsons' = jsons \cup merged
    /\ merged' = {}
    /\ phase' = "idle"
    /\ UNCHANGED <<backups, path, data, blocks, table, uuid, states, merging, checks, doomed, merge,
                   crashes>>

-----------------------------------------------------------------------------
(* mergeVhdChain(). *)

NoMerge ==
    /\ chain' = <<>>
    /\ opened' = <<>>
    /\ step' = "none"
    /\ todo' = {}
    /\ resuming' = FALSE

\* A merge that throws makes the run that asked for it throw; the merges that
\* were waiting go on.
Throw(waiting) ==
    /\ NoMerge
    /\ IF stale > 0
       THEN stale' = stale - 1 /\ UNCHANGED <<phase, merged>>
       ELSE stale' = Len(waiting) /\ phase' = "idle" /\ merged' = {}

Ancestor == Head(chain)
Target   == Last(chain)

InChildren(ds, b) == \E i \in 2 .. Len(ds) : b \in table[ds[i]]

\* Mutant: the first child that has the block, as if the chain were reversed.
OldestSource(b) ==
    LET oldest == CHOOSE i \in 2 .. Len(opened) :
                      /\ b \in table[opened[i]]
                      /\ \A j \in 2 .. (i - 1) : b \notin table[opened[j]]
    IN opened[oldest]

\* The data of the last child that has block b.
Source(b) ==
    LET latest == CHOOSE i \in 2 .. Len(opened) :
                      /\ b \in table[opened[i]]
                      /\ \A j \in (i + 1) .. Len(opened) : b \notin table[opened[j]]
    IN opened[latest]

\* The VHDs from index i of the chain on name each other as parents.
Linked(ds, i) == \A j \in i .. (Len(ds) - 1) : parent[ds[j + 1]] = uuid[ds[j]]

\* A merge is resumed on the headers it began with: those of the ancestor and of
\* the last child, which VhdSynthetic takes for its own.
SameEnds(file, ds) == Head(file.data) = Head(ds) /\ Last(file.data) = Last(ds)

\* The state file is read, the VHDs are opened and checked; a new merge writes
\* its state file.
StartMerge ==
    /\ chain = <<>>
    /\ queue # <<>>
    /\ queue' = Tail(queue)
    /\ LET c     == Head(queue)
           file  == states[Head(c)]
           ds    == [i \in DOMAIN c |-> path[c[i]]]
           found == \A i \in DOMAIN c : Exists(c[i])
       IN IF file # None /\ file.step = "cleanupVhds"
          THEN /\ chain' = c
               /\ step' = "cleanState"
               /\ resuming' = TRUE
               /\ UNCHANGED <<opened, todo, states, phase, merged, stale>>
          ELSE IF /\ found
                  /\ Linked(ds, 2)
                  /\ IF file = None THEN Linked(ds, 1) ELSE SameEnds(file, ds)
          THEN /\ chain' = c
               /\ opened' = ds
               /\ step' = "blocks"
               /\ todo' = {b \in Blocks : InChildren(ds, b)}
               /\ resuming' = (file # None)
               /\ states' = IF file # None THEN states
                            ELSE [states EXCEPT ![Head(c)] =
                                     [step |-> "mergeBlocks", chain |-> c, data |-> ds]]
               /\ UNCHANGED <<phase, merged, stale>>
          ELSE Throw(Tail(queue)) /\ UNCHANGED states
    /\ UNCHANGED <<backups, path, data, blocks, table, uuid, jsons, merging, checks, doomed, crashes>>

\* The blocks that asyncEach has started.
InFlight(b) == b \in todo /\ Cardinality({c \in todo : c < b}) < Concurrency

\* mergeBlock(): the block is moved or copied to the ancestor.  When resuming,
\* a block that is not in the child any more is looked up in the ancestor.
MergeBlock(b) ==
    /\ step \in {"blocks", "failing"}
    /\ InFlight(b)
    /\ LET a     == opened[1]
           s     == Source(b)
           ready == a \in data /\ blocks[s][b] # None
           moved == Transfer = "move" /\ resuming /\ blocks[a][b] # None
       IN IF ready \/ moved
          THEN /\ blocks' = IF ready
                            THEN [d \in Vhds |->
                                   IF d = a THEN [blocks[a] EXCEPT ![b] = blocks[s][b]]
                                   ELSE IF d = s /\ Transfer = "move" THEN [blocks[s] EXCEPT ![b] = None]
                                   ELSE blocks[d]]
                            ELSE blocks
               /\ table' = [table EXCEPT ![a] = @ \cup {b}]
               /\ todo' = todo \ {b}
               /\ UNCHANGED step
          ELSE /\ todo' = {c \in todo : InFlight(c)} \ {b}
               /\ step' = "failing"
               /\ UNCHANGED <<blocks, table>>
    /\ UNCHANGED <<backups, path, data, uuid, states, jsons, run, queue, chain, opened, resuming, stale,
                   crashes>>

FailMerge ==
    /\ step = "failing"
    /\ todo = {}
    /\ Throw(queue)
    /\ UNCHANGED <<backups, repository, merging, checks, doomed, queue, crashes>>

\* Mutant: the uuid of the parent is written in place of that of the child.
WriteParentFooter ==
    /\ step = "blocks"
    /\ todo = {}
    /\ uuid' = [uuid EXCEPT ![opened[1]] = parent[opened[1]]]
    /\ step' = "cleanState"
    /\ UNCHANGED <<backups, path, data, blocks, table, states, jsons, run, queue, chain, opened, todo,
                   resuming, stale, crashes>>

\* updateHeaders()
WriteFooter ==
    /\ step = "blocks"
    /\ todo = {}
    /\ uuid' = [uuid EXCEPT ![opened[1]] = uuid[Last(opened)]]
    /\ step' = "cleanState"
    /\ UNCHANGED <<backups, path, data, blocks, table, states, jsons, run, queue, chain, opened, todo,
                   resuming, stale, crashes>>

WriteCleanState ==
    /\ step = "cleanState"
    /\ states' = [states EXCEPT ![Ancestor] = [step |-> "cleanupVhds", chain |-> chain, data |-> opened]]
    /\ step' = "rename"
    /\ UNCHANGED <<backups, path, data, blocks, table, uuid, jsons, run, queue, chain, opened, todo,
                   resuming, stale, crashes>>

\* The alias of the target is resolved, then the ancestor is renamed, unless a
\* merge that is resumed finds it was renamed already.
Rename ==
    /\ step = "rename"
    /\ IF (Alias /\ path[Target] = None) \/ (path[Ancestor] = None /\ ~resuming)
       THEN Throw(queue) /\ UNCHANGED <<path, data, blocks>>
       ELSE /\ IF path[Ancestor] = None
               THEN step' = "children" /\ UNCHANGED <<path, data, blocks, opened>>
               ELSE /\ path' = [path EXCEPT ![Target] = path[Ancestor], ![Ancestor] = None]
                    /\ opened' = <<path[Target]>>
                    /\ IF Alias
                       THEN step' = "oldTarget" /\ UNCHANGED <<data, blocks>>
                       ELSE step' = "children" /\
                            IF path[Target] \in data THEN EraseData(path[Target])
                            ELSE UNCHANGED <<data, blocks>>
            /\ UNCHANGED <<phase, merged, chain, todo, resuming, stale>>
    /\ UNCHANGED <<backups, table, uuid, states, jsons, merging, checks, doomed, queue, crashes>>

\* Mutant: the alias of the target is resolved after the rename.
UnlinkRenamed ==
    /\ step = "oldTarget"
    /\ EraseData(path[Target])
    /\ step' = "children"
    /\ UNCHANGED <<backups, path, table, uuid, states, jsons, run, queue, chain, opened, todo, resuming,
                   stale, crashes>>

\* The data that the target led to before the rename.
UnlinkOldTarget ==
    /\ step = "oldTarget"
    /\ EraseData(Head(opened))
    /\ step' = "children"
    /\ UNCHANGED <<backups, path, table, uuid, states, jsons, run, queue, chain, opened, todo, resuming,
                   stale, crashes>>

Merged == {chain[i] : i \in 2 .. (Len(chain) - 1)}

UnlinkChild(v) ==
    /\ step = "children"
    /\ v \in Merged
    /\ path[v] # None
    /\ Unlink(v)
    /\ UNCHANGED <<backups, table, uuid, states, jsons, run, merge, crashes>>

\* cleanup().  The run keeps the size of the ancestor for the metadata that names
\* the target.
EndMerge ==
    /\ step = "children"
    /\ \A v \in Merged : path[v] = None
    /\ states' = [states EXCEPT ![Ancestor] = None]
    /\ IF stale > 0
       THEN stale' = stale - 1 /\ UNCHANGED merged
       ELSE stale' = stale /\ merged' = merged \cup ({Target} \cap (vhds \ unused))
    /\ NoMerge
    /\ UNCHANGED <<backups, path, data, blocks, table, uuid, jsons, phase, merging, checks, doomed, queue,
                   crashes>>

Crash ==
    /\ phase # "idle" \/ chain # <<>> \/ queue # <<>> \/ doomed # {}
    /\ crashes < MaxCrashes
    /\ step \in CrashSteps
    /\ crashes' = crashes + 1
    /\ phase' = "idle"
    /\ queue' = <<>>
    /\ doomed' = {}
    /\ merged' = {}
    /\ stale' = 0
    /\ NoMerge
    /\ UNCHANGED <<backups, repository, merging, checks>>

-----------------------------------------------------------------------------

Clean ==
    \/ Start(TRUE)
    \/ \E v \in Vhds : CheckVhd(v) \/ DropState(v) \/ RemoveAlias(v) \/ RemoveData(v)
    \/ \E v \in Vhds : UnlinkVhd(v) \/ ReadJson(v)
    \/ EndCheck
    \/ EndStates
    \/ FindOrphans
    \/ ListJsons
    \/ FindChains
    \/ EndRun

Merge ==
    \/ StartMerge
    \/ \E b \in Blocks : MergeBlock(b)
    \/ FailMerge
    \/ WriteFooter
    \/ WriteCleanState
    \/ Rename
    \/ UnlinkOldTarget
    \/ \E v \in Vhds : UnlinkChild(v)
    \/ EndMerge

Next ==
    \/ Clean
    \/ Merge
    \/ Start(FALSE)
    \/ \E k \in Vhds : DeleteBackup(k)
    \/ Crash

Spec == Init /\ [][Next]_vars

\* cleanVm() runs with the option merge after every backup.
FairSpec == Spec /\ WF_vars(Clean) /\ WF_vars(Merge) /\ SF_vars(Start(TRUE))

-----------------------------------------------------------------------------
(* Properties *)

\* The repository, the run of cleanVm() and the merges keep their types.
TypeOK ==
    /\ original \in [Vhds -> SUBSET Blocks]
    /\ parent \in [Vhds -> Vhds \cup {None}]
    /\ deleted \subseteq Vhds
    /\ path \in [Vhds -> Vhds \cup {None}]
    /\ data \subseteq Vhds
    /\ blocks \in [Vhds -> [Blocks -> Vhds \cup {None}]]
    /\ table \in [Vhds -> SUBSET Blocks]
    /\ uuid \in [Vhds -> Vhds]
    /\ jsons \subseteq Vhds
    /\ phase \in Phases
    /\ merging \in BOOLEAN
    /\ vhds \subseteq Vhds
    /\ pending \subseteq Vhds
    /\ {parents, child, byId} \subseteq [Vhds -> Vhds \cup {None}]
    /\ DOMAIN resumed = Vhds
    /\ \A v \in Vhds : states[v] = None \/ states[v].step \in {"mergeBlocks", "cleanupVhds"}
    /\ unused \subseteq Vhds
    /\ doomed \subseteq Vhds
    /\ merged \subseteq Vhds
    /\ step \in MergeSteps
    /\ todo \subseteq Blocks
    /\ resuming \in BOOLEAN
    /\ stale \in 0 .. Unmerged
    /\ crashes \in 0 .. MaxCrashes

\* What block b of backup k was when it was made.
Expected(k, b) ==
    LET written[v \in Vhds] ==
            IF b \in original[v] THEN v ELSE IF parent[v] = None THEN None ELSE written[parent[v]]
    IN written[k]

\* What reading block b through path v gives: nothing when a VHD of its chain or
\* the file of the block is missing.
Reads(v, b, w) ==
    LET found[u \in Vhds] ==
            /\ Exists(u)
            /\ IF b \in table[path[u]] THEN w # None /\ blocks[path[u]][b] = w
               ELSE IF parent[path[u]] = None THEN w = None
               ELSE found[parent[path[u]]]
    IN found[v]

Restorable(k) == \A b \in Blocks : Reads(k, b, Expected(k, b))

Quiet == phase = "idle" /\ chain = <<>> /\ queue = <<>> /\ doomed = {} /\ states = NoVhd

\* A backup that the user did not delete keeps its metadata.
BackupsKept == Vhds \ deleted \subseteq jsons

\* When no merge is under way or interrupted, every backup the user did not
\* delete can be restored as it was made.
BackupsRestorable == Quiet => \A k \in Vhds \ deleted : Restorable(k)

\* When no merge is under way or interrupted, every backup that is listed can be
\* restored as it was made.
ListedRestorable == Quiet => \A k \in jsons : Restorable(k)

\* Whatever is under way, each block of a backup that the user did not delete is
\* stored somewhere.
ContentKept ==
    \A k \in Vhds \ deleted, b \in Blocks :
        Expected(k, b) # None => \E d \in data : blocks[d][b] = Expected(k, b)

\* Once crashes and deletions stop, what no backup needs is gone.
Tidy ==
    /\ {v \in Vhds : path[v] # None} = jsons
    /\ data = {path[v] : v \in jsons}
    /\ states = NoVhd

EventuallyTidy == <>[]Tidy
=============================================================================
