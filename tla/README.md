# A TLA+ model of Xen Orchestra's backups, XAPI client and audit log

Xen Orchestra manages XCP-ng and XenServer pools: a server (`packages/xo-server`), web
interfaces, a command line, and a set of libraries that connect to the hypervisors, run jobs
and keep backups. This project models in TLA+ the parts of it whose logic is concurrent and must
survive failures:

- the incremental backups, from the run of a job to the blocks of a merge: chains of VHDs that are
  merged and deleted in place, in the background, by a process that may stop at any time, and
  nobody has another copy of;
- the queue of the merge worker, and the cache of the backup list;
- the XAPI client, on which everything else relies to know what the pool holds;
- the audit log, a hash chain that must stay whole.

TLC checks the models on small instances, and TLAPS proves theorems about six of them for every size.

Paths below are relative to the repository (`src/`).

## 1. Inventory

### The backup chain, from the job to the blocks

| component | state it keeps | operations | who it talks to |
|---|---|---|---|
| **VHD chain merge** `packages/vhd-lib/merge.js` (`Merger`) | `.<ancestor>.merge.json` (step, currentBlock, chain), in memory: the allocation table, the blocks being merged, the throttled writes of the state | `merge`, `#openVhds`, `#mergeBlocks`, `#updateHeaders`, `#step_cleanVhds`, `#cleanup` | the VHDs through `VhdSynthetic`, `VhdDirectory`, `VhdFile`; `asyncEach`; the remote handler |
| **VHD directories, files, aliases** `packages/vhd-lib/Vhd/*`, `aliases.js` | header, footer, allocation table and blocks of each VHD; the alias file that names the directory | `mergeBlock`, `writeEntireBlock`, `writeBlockAllocationTable`, `unlink`, `resolveVhdAlias` | the remote handler |
| **Repository cleaning** `@xen-orchestra/backups/_cleanVm.mjs` | the VHDs, the metadata files, the merge states of a VM's directory; in memory: `vhds`, `vhdParents`, `vhdChildren`, `vhdById`, `interruptedVhds`, `unusedVhds`, the size of what was merged | `cleanVm`, `checkAliases`, `getUsedChildChainOrDelete`, `mergeVhdChain` | the merge, the metadata, the backup cache |
| **Remote adapter** `@xen-orchestra/backups/RemoteAdapter.mjs` | metadata `*.json`, `cache.json.gz` | `writeVmBackup`, `deleteDeltaVmBackups`, `_updateCache`, `listVmBackups`, restoration | the cleaning, the writers, the user |
| **Incremental writer** `_runners/_writers/IncrementalRemoteWriter.mjs` | the VHDs it writes, the metadata, the old entries | `checkBaseVdis`, `prepare`, `transfer`, `updateUuidAndChain`, `cleanup` | the runner, the adapter, the merge worker |
| **Backup runners** `_runners/_vmRunners/*` | snapshots and their marks in the pool | `run`: snapshot, choice of the base, transfer to each writer, marks, removal of old snapshots | the writers, XAPI |
| **Merge worker** `merge-worker/*` | the queue directory of tasks, a lock | `run` (adds a task and spawns), `cli` (takes the tasks in order) | the cleaning |
| **Retention** `_getOldEntries.mjs` | none | which entries are too old | the writers |
| **Concurrent iteration** `@vates/async-each` | the iterator, the number running, the first error | in order, `concurrency` at a time, rejects at the first error | the merge, the cleaning |
| **Backup cache** `RemoteAdapter.mjs`, `_cleanVm.mjs` | `cache.json.gz` | `_updateCache`, `_readCacheListVmBackups`, `_writeCache`, the regeneration of `cleanVm()` | the adapter, the writers, the cleaning |
| **Remote file systems** `@xen-orchestra/fs` | the remote; locks on local remotes only | `rename`, `unlink`, `outputFile`, `rmtree`, retried with `pRetry` | everything above |

### The XAPI client and the audit log

| component | state it keeps | operations | who it talks to |
|---|---|---|---|
| **XAPI client** `packages/xen-api/index.mjs` | `_status`, `_sessionId`, `_pool`, the calls in flight; `fromToken`, `_objectsByRef`, `_nTasks`, `_taskWatchers` | `connect`, `disconnect`, `_sessionCall` and the renewal of the session, `_watchEvents`, `_refreshCachedRecords`, `_processEvents`, `watchTask`, `barrier` | the XAPI of the pool master; everyone who reads `xapi.objects` |
| **Audit log** `@xen-orchestra/audit-core`, `packages/xo-server-audit` | the records and `lastId` in a LevelDB store; in memory, a chain of promises that is the lock | `add`, `deleteRangeAndRewrite`, the import, `clean`, `checkIntegrity`, `getFrom` | the events of xo-server, the user |

The interactions that make it hard:

- *The chain is rewritten while it is used.* A merge moves the blocks of the children into the
  **oldest** VHD, then renames that VHD over the youngest one. Between the first block and the
  rename neither VHD is what its name says; only the state file tells.
- *Everything is concurrent.* `mergeBlockConcurrency` blocks at a time end in any order;
  the state is written by calls nobody awaits; `cleanVm()` opens the VHDs in parallel and
  starts the merges and the deletions together; the user deletes backups through
  `deleteDeltaVmBackups`, which takes no lock.
- *Everything can stop.* The merge runs in a worker that may be killed; the next run finds
  the state file, the aliases that lead nowhere, two VHDs of one uuid, and has to know what
  they mean.
- *Answers get lost.* A rename that took place may be answered with ENOENT by the retry.
- *The cache is filled from two sides.* The event loop takes a token, fetches the types one after
  the other, then follows the events; meanwhile any caller may renew the session, and the
  toolstack may restart and forget what it deleted.
- *A chain is rewritten behind a lock that not everyone takes.* The audit log deletes a range and
  adds what follows it again, record by record, while `clean()` and `checkIntegrity()` go beside.
- *Errors are swallowed.* A failed write of the state is a warning, a VHD that fails to open
  counts as missing, `asyncMap` throws at the first failed merge while the others go on.

What makes it correct:

- merge: no block is ever in neither VHD; a checkpoint never passes a block that is not
  merged; the merged disk appears under its name at once, whole and readable; nothing is
  deleted before; a merge that is asked for again ends.
- cleaning: a backup the user did not delete stays listed and restorable; a backup that is
  listed is restorable; a backup that was deleted does not come back; what no backup needs
  disappears in the end.
- adapter, writers, runners, worker: the cached list is that of the metadata once calls are
  over; the next backup is made on a base every writer has; a mark names an export that
  succeeded; retention is reached; no merge is forgotten, and a VM is cleaned by one task at a time.
- XAPI client: no change is lost between the fetch and the events; the cache converges; a barrier
  waits for what precedes it; who watches a task hears of its end.
- audit log: no record of the chain is missing; no event is lost that nobody asked to delete; an
  integrity check raises no false alarm; who waits for the lock gets it.

### The rest of the repository

`PROJECT.json` lists every component with its status. In short: tasks (`@vates/task`), the
deduplication of `disposable`, `xo-collection`, `cron`, the NBD client and the immutable backups have
logic of their own and are candidates for later modules (section 8). The interfaces, the command
line tools, the plugins, the byte formats (VMDK, qcow2, xva, fat) and the pure functional helpers
are presentation, glue or encodings and are not.

## 2. The modules

    ChainMerge        what a merge promises (abstract)
      ^ refined by
    VhdMerge          one merge, step by step          VhdMergeProofs: theorems about it
      | a merge in three steps
    CleanVm           cleanVm(), the merges it starts, the user, crashes
      |                                                CleanVmProofs: types
      |                                                CleanVmKeptProofs: no backup is lost
      | cleanVm() in two steps
    BackupRun         the runs of a job on several remotes, the worker, the user
      |                                                BackupRunProofs: types, retention, length of chains
      |                                                BackupKeptProofs: what a run reports is kept
      | what a run leaves to do
    MergeQueue        the queue of the VMs to merge and its worker      MergeQueueProofs
    BackupCache       who writes the cache of the backup list

    XapiEvents        the connection, the session and the event loop    XapiEventsProofs
    AuditLog          the hash chain, its lock and its rewrites         AuditLogProofs

    MC*               the instance of each for TLC

Those of the first group go from the inside out. Each has in detail what the one below it in this list takes
as a few steps, so that each stays small enough to be checked exhaustively.

### VhdMerge: one merge

The chain is VHD 0, the ancestor, and the children `1 .. NChildren`, of which the last one is the
target. `original[v]` is the allocation table VHD v had when the merge was asked for. The
content of a block is abstracted to the VHD that wrote it: block b of the merged disk is right when
it comes from the youngest VHD of the chain that had it (`Overlay`, from
`VhdSynthetic.#getVhdWithBlock`).

| variables | code |
|---|---|
| `bat`, `content`, `left`, `footer`, `sealed`, `alias`, `data` | the table and the blocks of the ancestor **on disk**, the blocks still in the children, the uuid of the ancestor's footer, whether a file ends with a copy of it, where each path leads, the data directories (or files) that exist |
| `stateFile` | the `.merge.json` file |
| `pc`, `resuming`, `state`, `table`, `todo`, `op`, `throttle`, `pending` | the step `merge()` is at, `#isResuming`, `#state`, the table **in memory**, what `asyncEach` has not started, the progress of each `mergeBlock`, `#lastStateWrittenAt`, the writes of the state nobody awaits |
| `faults`, `lost` | bounds: crashes, failures and lost answers so far; failed writes of the state so far |

Each I/O the code awaits is an action, so that a crash may come between any two:
`Open`/`Resume`/`WriteFirstState` (`#openVhds`, the beginning of `#step_mergeBlocks`), `StartBlock`,
then by the constant `Transfer`: `MoveBlock`, `WriteBlockTable`, `FindMovedBlock`, `MissBlock`
("move", `VhdDirectory.mergeBlock`), `CopyBlock` ("copy", directories of different compressions:
`VhdAbstract.mergeBlock`), `AllocateBlock`, `WriteBlock` ("file", `VhdFile`); `FinishBlock` (the new
`currentBlock` and the throttled write), `LandState` (that write reaches the file, or fails, at any
later time), `WriteFinalState`, `WriteTable`, `WriteFooter`, `WriteEndFooter`, `WriteCleanState`, `RenameAncestor`,
`UnlinkOldTarget`, `UnlinkChildData`, `UnlinkChildAlias`, `EndChildren`, `Cleanup`. `DropState` is
what `cleanVm()` does of a state file whose VHD is gone; `Discard` and `DiscardChild` what it does of a VHD file that does not
end with its footer although no state file says that its merge was interrupted, and of the children of a VHD that is missing: `WriteBlock` puts
a block that is new to the file over that footer, which is there again after `WriteEndFooter` only, and `Open` requires it (`checkSecondFooter`).

Faults: `Crash` (memory is lost, writes under way too), `BlockFails` and `StepFails` (an awaited
operation throws; the blocks that were started go on until `Quit`),
`MoveBlockUnacknowledged` and `RenameUnacknowledged` (the file moves, the retried call gets ENOENT).

Abstractions. Sizes, progress events and `ensureBatSize` are left out. `asyncEach` may, in a tiny
window, start one more item after it has rejected; here none is started. What the resumed merge
checks of the headers is in CleanVm. The assertion of the resumed rename that is not awaited has no
effect and is left out.

### ChainMerge: what a reader of the repository sees of it

Four variables: the blocks stored in the ancestor only grow; `published` becomes true in one step,
when all are there; the other VHDs lose their data after that only, or once the chain was given up (`discarded`), which only a fragile
one can be, and not after it was published. `VhdMerge!ImplementsChainMerge`
is the refinement, under the mapping `merged <- {b : Stored(b)}`, `published <- alias[Target] = 0`, `discarded <- 0 \notin data`,
`kept <- data \cap Children`, `Fragile <- Transfer = "file" /\ MaxLost > 0`.

### CleanVm: the repository

Backup k is metadata file k, which names path k; a path leads to data (`path[v]`), which has blocks,
a table, the uuid in its footer and the `parent` in its header, the path it was made on.

| variables | code |
|---|---|
| `path`, `data`, `blocks`, `table`, `uuid`, `states`, `jsons` | the repository: aliases (or files), data, contents, `.merge.json` files, metadata |
| `phase`, `merging`, `vhds`, `pending`, `parents`, `child`, `byId`, `resumed`, `unused`, `doomed`, `merged` | a run: where it is, the option `merge`, `vhds`, what it still has to open or read, `vhdParents`, `vhdChildren`, `vhdById`, `interruptedVhds`, `unusedVhds`, the paths being unlinked, `metadataWithMergedVhd` |
| `queue`, `chain`, `opened`, `step`, `todo`, `resuming`, `stale` | the merges: the limiter's queue, the chain being merged, its data, its step, the blocks left, and how many of these merges belong to runs that threw |

The actions follow the function from top to bottom: `Start`, `CheckVhd` (one VHD at a time, in any
order), `EndCheck`, `DropState`, `EndStates`, `RemoveAlias`, `RemoveData`, `FindOrphans`, `UnlinkVhd`,
`ListJsons`, `ReadJson`, `FindChains`, `EndRun`. The merges (`StartMerge`, `MergeBlock`, `FailMerge`,
`WriteFooter`, `WriteCleanState`, `Rename`, `UnlinkOldTarget`, `UnlinkChild`, `EndMerge`) run beside the
deletions; one that throws ends the run (`Throw`) and leaves the others running beside the next
run, as `asyncMap` does. `DeleteBackup` is the user, at any time.

A merge here is coarser than in VhdMerge, which has the details: the table is that of the disk
as soon as a block is merged, and the state file is always written, when a step begins. What VhdMerge does not
have is here: several chains, the checks of a resumed merge, data of VHDs that disappear below it.

Two things the code does by accident are modelled as it does them: the promise
`duplicate.containsAllDataOf(vhd)` is not awaited, hence always true (`IsDuplicate`: the VHD opened first
is kept), and only a chain that begins with the same VHD replaces that of an interrupted merge
(`ChainOf`).

### BackupRun: the runs of a job

A delta job backs one VM with one disk up, on every remote of `Remotes`, for several schedules.
Run k makes snapshot k, and backup k on each remote: metadata k, which names VHD k. Numbers are
timestamps.

| variables | code |
|---|---|
| `untagged`, `snapshots`, `exported`, `length`, `schedule` | the pool: the snapshots whose `other_config` is not written yet, those that have it, the marks `EXPORTED_SUCCESSFULLY`, `DELTA_CHAIN_LENGTH` and `SCHEDULE_ID` in it |
| `vhds`, `parent`, `named`, `jsons`, `cache` | each remote: its VHDs, the parent in their header, those that have the uuid of their VDI, the metadata, and the backups that `cache.json.gz` names |
| `plan` | what a `cleanVm()`, that of the run or that of somebody else, is about to do there |
| `step`, `now`, `failed`, `writers`, `held`, `busy`, `written`, `base`, `differencing`, `chained`, `old` | the run: where it is, its timestamp, whether it threw, `_writers`, the locks, the writers that have not ended the step, and `_baseVdis`, `isVhdDifferencing`, `_oldEntries` |
| `done`, `deleted`, `expired`, `listed`, `faults` | history: the backups that runs report as made, those the user deleted, those that runs deleted as too old, the list in which the run looked for these; the bound of the faults |

The actions follow `IncrementalXapi` and `_AbstractXapi.run`: `Start`, `BeforeBackup` and
`EndBeforeBackup` (the lock, then `cleanVm()`), `SelectBase` (`_selectBaseVm`, with `checkBaseVdis` of
each writer), `RemoveUnused`, `Snapshot`, `Tag`, `Prepare` (the old entries), `Export`, `WriteVhd` and
`WriteMetadata` (`_transfer`), `Chain` and `UpdateUuid` (`updateUuidAndChain`), `SetLength`, `Mark`,
`DeleteOldEntry` (`cleanup`), `FinallyRemove`, `AfterBackup` and `EndAfterBackup`. The writers work side by
side: a step ends when `busy` is empty. Beside the run, `OtherScan` and `OtherClean` are the `cleanVm()` of
the merge worker and of a deletion, and `DeleteBackup` is the user.

The old entries are chosen among what `listVmBackups()` answers, which is the cache when there is one, whatever the metadata are
(`Entries`, `Listed`); the metadata of an entry of the cache may be gone. `cleanVm()` writes the cache again when the numbers differ (`Findings`, `Clean`),
the other steps change it beside the metadata (`UpdateCache`). That the two differ is the failure `CacheDiverges`: a write of the cache is lost (the code only warns), or one that was
read from before it comes late, as BackupCache shows in detail: the cache then misses backups, or names some that the user or a run deleted.

Faults: `WriterFails` (`LoseWriter`: the writer is left out, and the run throws when it was the last),
`TransferFails` (printed and forgotten), `CacheDiverges`, `PoolFails` (a call to the pool throws, some snapshots being removed or not), `Crash`. The constant
`Failures` says which of them a run of TLC has.

Abstractions. `cleanVm()` here finds what it does in one step and does it in another, with no
crash in it: CleanVm has its details. What it finds is the result of CleanVm's actions on a
repository without interrupted merges, the VHDs it ignores because another has the same parent included
(`Ignored`). Long-term retention, health checks, changed block tracking, replication to a pool and mirror
backups are left out.

### MergeQueue: the worker

On a local remote, each backup that left something to merge writes a task, a file that names its VM, and
starts a worker unless one holds the lock of the queue. Task n is that of backup n. Nothing but a task asks for a merge, until the next
backup of the VM: a `cleanVm()` that fails at the end of a backup is only a warning and its `{}` says that there is nothing to merge
(`_MixinRemoteWriter.mjs:44-47`), the task may fail to be written, and a deletion by the user never writes one (`RemoteAdapter.mjs:329`).

| variables | code |
|---|---|
| `toMerge`, `file`, `queueLock`, `vmLock` | the VMs that have something to merge, how many `_` the name of each task has, the lock of the queue and that of each VM's directory |
| `backup`, `other`, `spawned` | where each backup is, those of other VMs, the workers started that have not tried to take the lock |
| `deleting` | the `cleanVm()` after a deletion by the user is under way |
| `phase`, `tries`, `batch`, `item`, `unlinking` | the worker: where it is, the listings that found nothing, the tasks listed and not begun, those begun, the deletions nobody awaits |
| `late`, `missed`, `faults` | the VMs whose backups were deleted during the merge under way, those with something to merge that no task asked for, the bound |

`StartBackup` and `EndBefore` are `beforeBackup()`, which takes the lock and merges what was left; `EndBackup` (with old backups deleted
or not, `WithExpired`), `Enqueue`, `CheckLock` and `Spawn` are `afterBackup()` and `run()`; `BeforeFails`, `EndBackupFails`,
`EnqueueFails` and `CrashBackup` are what fails or stops of them; `DeleteBackups` and the end of its `cleanVm()` are `deleteVmBackups()`. `OtherCheckLock` and `OtherSpawn` the same for other VMs. `StartWorker`, `List`, `Exit`, `Rename`, `Drop`, `RenameMissing`,
`StartClean`, `EndClean`, `CleanFails`, `Unlink`, `UnlinkFails` and `EndBatch` are `cli.mjs`: what a listing finds is sorted, so that the least
tried come first; a task gets one `_` more before it is handled; an error ends the worker with what it holds. `Crash` leaves its locks
stale until `ExpireQueueLock` and `ExpireVmLock`. What the worker does in the directory of a VM is CleanVm; here it succeeds or fails.

### BackupCache: the cache of the backup list

Four writers of one file, each of what it read before: `Add` and `Delete` then `UpdateCache` (synchronized with themselves only), `List` whose
write is detached, and `Clean`, `Count`, `ReadMetadata`, `EndMerge` of `cleanVm()`. A write is `Truncate` then `Fill`: between the two the file cannot
be read, and who reads it takes it for absent. `jsons` is the metadata, `cache` the file, `step`, `value` and `about` each writer,
`listed` and `must` what `cleanVm()` read and decided.

### XapiEvents: the XAPI client

The server is external, modelled from what the client expects of it: it numbers its events, answers `event.from` with
the present state of what changed after the token and with the number of tasks; a restart of the toolstack (`Restart`) invalidates
the sessions, makes tasks disappear and forgets deletions.

| variables | code |
|---|---|
| `db`, `stamp`, `clock`, `forgotten` | the server: its objects, the last event of each, the last of all, deletions no event will tell |
| `status`, `session`, `connecting`, `opening`, `poolKnown`, `typesKnown` | `_status`, `_sessionId`, the coalesced `connect()` and `_sessionOpen()`, `_pool`, `_types` |
| `call`, `using` | the call of each caller (the loop, its fetch of each type, any other) and the session it was given |
| `pc`, `token`, `pending`, `reply` | `_watchEvents`: where it is, `fromToken`, the types to fetch, the answer of `event.from` |
| `cache`, `nTasks`, `watchers`, `barrier` | `_objectsByRef`, `_nTasks`, `_taskWatchers`, `barrier()` |
| `mark`, `unfetched`, `missed`, `faults`, `connects` | history, bounds |

`Connect`, `Login`, `Opened`, `GetPool`, `ListTypes`, `OpenFails`, `Disconnect` are the connection; `Send`, `RenewSession`, `SessionInvalid` and `NetworkError` are a
`_sessionCall`, which opens a new session when its own is invalid, whoever makes it; `Inject`, `FetchAnswered`, `FetchFailed`,
`Poll`, `EventsAnswered`, `SessionLost`, `EventsLost`, `PollFailed` and `ProcessEvents` are the loop (`EVENT_TIMEOUT` and the retries are steps that
may come at any time). `ProcessEvents` is one action, as the code does not await in it: the removals, the additions, the watchers, the count.
`_nTasks` is never initialised: it is undefined, then NaN once a task is added or removed, until a fetch of the tasks succeeds (index.mjs:1146). `nTasks` is then `None`, which
differs from every number, so that the loop fetches the tasks after each answer (`TasksDisappeared`).

### AuditLog: the hash chain

The id of a record is the hash of its contents, the id of the previous record included: a record is modelled by the sequence of
the events up to it, so that two records with the same event and the same past have one id, as in the code.

| variables | code |
|---|---|
| `db`, `last` | the records in the store, `lastId` |
| `queue`, `step`, `previous`, `at`, `recent` | the promises that wait for the lock, its holder first, and the holder: where it is, `previousId`, the record it reads, `recentRecords` |
| `cleaning`, `doomed` | `clean()`, called by the user or by an import that fails: where it is, the keys left to delete |
| `check` | `checkIntegrity()` |
| `asked`, `calls`, `failures`, `stored`, `broken` | history, bounds |

`StartAdd`, `Put`, `Link` are `_addUnsafe()`; `StartDelete`, `Collect`, `Delete`, `Cut`, `Rewrite` (with `_addUnsafe()` for each recent record) and `Drop` are
`deleteRangeAndRewrite()`; `StartImport`, `ImportRecord`, `ImportLastId`, `ImportEnds`, `ImportFails` the import, `UndoImport` and `UndoFails` the deletion of
`lastId` that begins its undoing; `Clean`, `OpenKeys`, `Sweep`, `CleanEnds` are `clean()`, `Check` to `Missing` are `checkIntegrity()`. Each await of the
store is an action; `ReadFails`, `AddFails`, `DeleteFails` and `StreamFails` are its failures (the last one rejects `clean()` while the deletions it began go on: the
cleaner `"stray"`) and `Crash` is a restart of xo-server. `broken` names what may have broken the chain: the properties exclude these causes one by one,
and section 3 says what each of them does.

## 3. What is checked

Every passing run is exhaustive. Each property of a passing run has a *mutant* in `PROJECT.json`:
a definition with a plausible bug, with which TLC finds the property violated.

| run | instance | states | what it shows |
|---|---|---|---|
| `merge_move` | 2 blocks, 2 children, 2 at a time, renamed; 1 fault, 1 lost state | 101 k | `NoBlockLost`, `CheckpointIsMerged`, `PublishedIsReadable`, refinement of ChainMerge, `TypeOK` |
| `merge_copy` | the same, copied; 2 faults, 1 lost state | 255 k | `NoBlockLost`, `CheckpointIsMerged`, refinement |
| `merge_file` | VHD files, 2 children; 2 faults, 1 lost state | 131 k | `NoBlockLost`, `PublishedIsReadable`, `CheckpointIsMerged`, refinement, `EventuallyPublished` |
| `clean_move` | 3 backups in directories, 2 blocks, 2 at a time, 2 deletions, 1 crash | 361 k | `BackupsKept`, `BackupsRestorable`, `ContentKept`, `TypeOK` |
| `clean_file` | 3 backups in files, 2 deletions, 1 crash at any step | 84 k | `ListedRestorable`, `EventuallyTidy` |
| `backup_run` | 3 runs, 2 schedules, 2 local remotes, 1 fault, 1 deletion | 1.8 M | `BackupsKept`, `RetentionReached`, `ChainBounded`, `BaseReady`, `TypeOK` |
| `merge_queue` | 2 backups of one VM, backups of others, 2 tasks at a time, 2 `_`, 2 faults (failures, crashes, deletions by the user) | 354 k | `MergeRemembered`, `CleanedAlone`, `Drained`, `MergedInTheEnd`, `TypeOK` |
| `xapi_loop` | 1 task, 1 VM and the pool, 2 events, 1 fault, 2 connections | 999 k | `NoEventLost`, `TasksCounted`, `BarrierByEvents`, `CacheConverges`, `WatchersSettle`, `TypeOK` |
| `audit_log` | 2 events, a file of 2 records, 2 other calls, 2 failures or crashes | 148 k | `ChainIntact`, `RecordsKept`, `NoFalseAlarm`, `Recorded`, `TypeOK` |

What the properties say, in a sentence each: a block is always in a VHD, but for the chain of files described below (`NoBlockLost`); a state file never
passes a block that is not merged, however late it is written (`CheckpointIsMerged`); the merged disk is
whole under its name, its table on disk and the end of the file included (`PublishedIsReadable`); it gets there in one step, and nothing is deleted before
(`ImplementsChainMerge`); a merge that is asked for again ends, and leaves no state file
(`EventuallyPublished`). A backup the user did not delete keeps its metadata, its chain and its content,
whatever runs, merges and deletions do (`BackupsKept`, `BackupsRestorable`, `ContentKept`); what is
listed can be restored (`ListedRestorable`); what no backup needs disappears (`EventuallyTidy`). A
backup a run reports is kept as long as retention says (`BackupsKept` of BackupRun), even when the cache that lists the backups
is stale, and no longer than the run that finds it in its list (`RetentionReached`), no chain is longer than `fullInterval` (`ChainBounded`), and the last exported
snapshot is a base that each remote has (`BaseReady`).

A VM that has something to merge keeps a task, but for what nobody asked for (`MergeRemembered`), is cleaned by one task at a time
and never while it is backed up or cleaned after a deletion (`CleanedAlone`); every task ends (`Drained`), and what was asked for is
merged (`MergedInTheEnd`). Nobody asks for the merge of what the user deletes, of a backup whose last `cleanVm()` or whose task fails or
that stops before its task, nor of a VM whose task failed too many times: it is left to the next backup of the VM. An object that the cache does not have as it is on the server has an event to come (`NoEventLost`); the
number of tasks by which the loop finds those that disappeared is right from the first fetch of the tasks that succeeds on, whatever events and failed fetches follow
(`TasksCounted`); a barrier resolved by an event comes after all that precedes it (`BarrierByEvents`); once the server is quiet the cache is what
the server has (`CacheConverges`), and nobody watches a task that ended, but one the cache never had (`WatchersSettle`). No record of
the chain is missing, whatever failed, but while it is cut or imported and for the causes that `broken` names (`ChainIntact`); an event that nobody asked to delete stays in
the store and, without failures, in the chain (`RecordsKept`); `checkIntegrity()`, which takes no lock, does not take an addition under way for a missing
record (`NoFalseAlarm`); who waits for the lock gets it, however its holder ends (`Recorded`).

Three runs state what a doc or a comment says, and find what the code does instead; each is a
finding in `PROJECT.json` with the line it contradicts:

| run | property | behaviour |
|---|---|---|
| `merge_copy_crash` | `PublishedIsReadable` | a copied block's bit is in memory only, the checkpoint passes it, the process stops: the resumed merge starts after the block and publishes a table without it |
| `xapi_barrier` | `BarrierWaits` | the pool with the key of the barrier comes from the initial fetch: the barrier is resolved when another type, whose object changed before, is not fetched yet |
| `backup_cache` | `CacheChecked` | a listing without a cache writes its list after a deletion and an addition that found no cache to update: `cleanVm()`, alone, counts as many entries as files and leaves it |

More behaviours show when the constants of these runs are changed, or when the code is read with the model beside. In the backups:

- With two faults in `merge_move`, `PublishedIsReadable` fails as in `merge_copy_crash`: a block that a first run
  moved is found by a second one, in memory only, which stops too after its checkpoint.
- *A lost state.* In `merge_file`, when the first write of the state file fails (a mere warning, `merge.js:73`) and the process stops after a block took
  the place of the footer at the end of the file, nothing says that the merge was interrupted: `cleanVm()` finds that the two footers differ, deletes the ancestor as broken,
  then the children as orphans, and with them every backup of the chain. `NoBlockLost` says that this is the only way to lose a block: without its
  `IF Discarded` the run violates it. With `MaxLost = 2`, `EventuallyPublished` fails too: when the footer is written and no state ever was, the uuid of the ancestor is already that
  of the target, and the assertion of `#openVhds` fails at every later merge.
- *A stop in the commit.* With `"cleanState"` in the `CrashSteps` of `clean_move`, `BackupsKept` fails: a stop between the footer
  and the rename leaves two VHDs of one uuid, and the next run drops the one it opens last, with the metadata that names it. With
  `"blocks"` it fails without a crash in the commit: the merge left over by the run that threw writes its footer while the next
  run opens the VHDs.
- *Two chains.* With `"blocks"` again, `ListedRestorable` fails for directories: after an interrupted merge of [2, 3] and the
  deletion of backup 1, [1, 2, 3] and [2, 3] are both queued, the merge of the first fails on a block the second moved, and the run
  after takes VHD 1's old block for it. `EventuallyTidy` fails too (`FairSpec`, `NBlocks = 1`): once the shorter chain is merged, the state
  file of the longer one names a VHD that is gone, and as a state is only forgotten when its *first* VHD is missing, every later run
  throws.
- *No lock.* With `Locks = FALSE` (a remote that is not local), `BackupsKept` of BackupRun fails: the `cleanVm()` that follows a deletion finds
  the new VHD before its metadata is written, and deletes it when the backup is done.
- *Metadata.* With `"metadata"` among the `Failures`, `BackupsKept` of BackupRun fails: the metadata cannot be written, the error is
  printed and forgotten, and the run reports a backup that is not listed.
- *The cache.* If a cache may also name a backup whose metadata `cleanVm()` deleted, as a listing made before and written after would,
  `BackupsKept` of BackupRun fails: this name counts as one of the backups to keep, and a whole one is deleted in its place. `CacheDiverges` leaves this out. What a cache that misses
  a backup does to retention is in the words of `RetentionReached`: the run deletes only what its list has, and the next `cleanVm()` that counts writes the list anew; one that finds as many
  names as metadata does not, the finding of `backup_cache`.
- *A fork.* With `SnapshotRetention = 2`, or 1 and two schedules, it fails as well: a call to the pool fails between the transfers and the mark, two
  snapshots are kept, the next backup is made on the same base, so two VHDs have one parent, and the metadata of the backup `cleanVm()` opens last is deleted.
- *Deleted first.* With `DeleteFirst = TRUE` (the option `deleteFirst`) it fails by design: the old backups are deleted before the transfer, which may then fail.
- `EndRun` writes again, with its new size, the metadata of a merged backup that was read at the beginning
  of the run: a backup the user deleted in between comes back (`_cleanVm.mjs:603`).
- After a run that fails, the snapshot of the last export is removed, since only the last snapshot is
  kept, exported or not: the next backup is a full one, although `docs/docs/incremental_backups.md:46` says that a
  snapshot is always kept for the delta.

In the XAPI client:

- `disconnect()` while `connect()` awaits the session: `connect()` sets the status to connected with no session (`index.mjs:260`), and every
  call fails on an assertion. The liveness properties are therefore about `Online`, which asks for a session.
- A `get_all_records` that fails at the initial fetch leaves its type incomplete until the next one (`:1148`): `unfetched`.
- When another call renews the session after a restart of the toolstack, the loop does not see its own fail and skips the new fetch (`:1239`);
  what was deleted in between and is not a task stays in the cache: `forgotten`. Tasks are saved by their number.
- `watchTask()` of a task the cache never had, and whose deletion the loop does not hear of, never settles: `missed`.
- `listMethods` that fails at the first connection ends the loop for good (`:945`).

In the audit log:

- A rewrite adds the recent records the newest first: after the deletion of a range, the records that came after it are in reverse order,
  although `packages/xo-server-audit/src/index.js:440` says that entries are listed "from newest to oldest".
- `clean()` takes no lock: beside an addition it leaves a record whose previous one it deletes; beside a rewrite it lets the recent
  record be added under its own id and then deleted as the old one. This is `"clean"` in `broken`.
- A rewrite that fails, or a crash, between the first deletion and the new `lastId` leaves a chain without the range and
  with what followed it out of reach: `"rewrite"`.
- An import sets `lastId` after its first record, the newest, and stores the older ones afterwards (`src/index.js:442`). A crash in between, or a failure of the
  import whose undoing fails to delete `lastId` in turn (`:161`, awaited at `:476`), leaves a chain without its oldest records, to which the next
  additions are linked: `"import"`.
- A range listed before another deletion: when the newest record has left the chain, all of it is rewritten: `"range"`.
- The deletion of everything leaves `lastId` at `nullId`, which is not the absence that the import asks for: the import is refused; and
  `checkIntegrity()` that reads this `nullId`, then `lastId` again after an addition, looks for it among the records and raises an alarm.

### The bounds, and why they are enough

- *Two blocks, two at a time* are the least with which blocks end out of order, one fails while
  another goes on, and a checkpoint may pass the wrong one. `Init` takes **every** allocation of the blocks
  to the VHDs: a block in none, in the ancestor only, in one child, in several.
- *Two children* are the least with a youngest child that hides another, and with a VHD between the
  ancestor and the target to delete. One child is a case of two whose first is empty, except for the
  deletion of the first.
- *Faults*. Two are needed for the resumption of a resumption. `merge_move` has one because the second
  makes `PublishedIsReadable` fail (see above); what it has besides is proved for any number of
  faults (section 5). *One lost state write* is enough to make a merge restart from nothing, or a chain of files be given up.
- *Three backups* are the least with a chain of three, and with two chains that share VHDs. *Two
  deletions* leave one backup to keep, and cover both the deletion of an old backup and of the last one.
- `CrashSteps` names the steps at which the process may stop. `clean_move` leaves out `"blocks"`,
  `"cleanState"` and `"rename"`, at which the behaviours above begin: with them no property of the
  run holds. `clean_file` has all of them: its properties hold nevertheless. There its bound of one crash
  matters: with two, a crash in the middle of the commit followed by one in the middle of the deletions
  leads to two VHDs of one uuid, as above.
- *BackupRun*. Two remotes are the least with a writer that goes on when another has failed; two schedules the
  least with retention that counts only some backups; three runs the least with a full backup, a
  delta and the delta or full after it, so that with `ExportRetention = 2` and `FullInterval = 2` a backup
  is deleted, a VHD merged and a chain ended, and the list of the last run has entries to choose from, stale ones included. One fault is enough for a run that fails between two that
  do not, and for a cache that differs in one of them. `SnapshotRetention` is 0, the default, for which the code keeps one snapshot: 1 with two schedules, or 2, lead to the fork above.
  `"metadata"` is not among the `Failures`, and the remotes are local, for the same reason. `MaxMergedDeltasPerRun` is not reached.
  Before the cache was modelled, one schedule, four runs, `ExportRetention = 2`, `FullInterval = 3` were checked as well (1.95 million states).
- *MergeQueue*. Two backups of one VM are the least with two tasks that want one lock, and with a task written while the worker exits;
  the backups of other VMs may start a worker at any time. Two `_` are enough for a task that is retried, then dropped. Two faults, each a failure, a crash or a
deletion by the user, come between any two steps.
- *XapiEvents*. One task and one object of another type, so that a type is fetched before the change and another after it; two events make
  a task be created and end; one fault is a restart, a failure of the network or a lost answer; two connections are the least with a second
  `connect()`. Two of each object are out of TLC's reach with liveness; the safety properties are proved for any number.
- *AuditLog*. Two events, and two more of the file, are the least with a range and a record that comes after it. Two calls make an import and a deletion, a
  deletion and a check, two deletions or two cleanings; two failures are the least with an import that fails and whose undoing fails too.
- `"file"` implies `Concurrency = 1`, as the code has it (`MergeAssumption`).

The merge may end, so the runs of VhdMerge do not check deadlock; those of CleanVm do, as `cleanVm()`
can always be run again, and so do those of BackupRun, where the worker can always clean, and those of MergeQueue, where the backups of other
VMs go on. Those of XapiEvents, AuditLog and BackupCache do not: the bounded events, calls and backups may be over.

## 4. Fairness

`VhdMerge!FairSpec`: weak fairness of `Progress`, what the process does as long as nothing fails, and of
`LandState`, since a write that was started ends. Nothing is assumed of faults, whose number is bounded.
That an interrupted merge is asked for again is what `cleanVm()` does of every state file, after every
backup.

`CleanVm!FairSpec`: weak fairness of the steps of a run and of those of the merges, which run in the same
process without waiting for each other, and strong fairness of `Start(TRUE)`: `cleanVm()` is called with the
option `merge` after every backup, whatever other calls without it come in between.

`MergeQueue!Spec`: weak fairness of a backup that has begun, of the cleaning of each VM, by the worker or after a deletion, of the worker, of the deletions it does not await, of the expiry of the
locks, and of the backups of other VMs, since schedules go on making them: a task that the worker missed is handled after a later one.

`XapiEvents!Spec`: weak fairness of the opening of a session, of the answer to each call, which has a timeout, of the fetch of each type and of the loop; none of the events
of the server, the faults, or the user.
`connect()` is not assumed to be called: the liveness properties are about what happens while `Online`.

`AuditLog!Spec`: weak fairness of `Hold`, the holder of the lock, and of `Keys`, the deletions of `clean()`: what was begun goes on, in one process.

BackupRun and BackupCache have safety properties only.

## 5. What is proved

`VhdMergeProofs` proves, of `VhdMerge!Spec`, for every number of blocks and children, any
concurrency, the three ways of merging and any number of faults and lost states, from `MergeAssumption` only:

| theorem | property |
|---|---|
| `TypeCorrect` | `TypeOK` |
| `CheckpointCorrect` | `CheckpointIsMerged` |
| `BlocksNeverLost` | `NoBlockLost` |
| `PublishedStored` | `PublishedIsStored` |
| `Refinement` | `ImplementsChainMerge` |
| `PublishedReadable` | `PublishedIsReadable`, for VHD files whatever fails, for renamed blocks with one fault at most, for copied blocks without fault |

The argument. None of these is inductive. That a checkpoint is right needs the loop: `LoopInv` says
that a block of the children is stored, being merged or still in `todo`, that an operation that has ended left its
block stored, and that every block being merged comes before every block of `todo`. Blocks below the least of `Merging`
are therefore neither waiting nor being merged, hence stored, and it may become the checkpoint. Since writes of the
state are not awaited, `CheckpointInv` says that a checkpoint is covered (`Covered`) in the file, in memory and in
**every** write under way: what a checkpoint claims stays true, since a block that is stored stays so
(`StoredStable`), so late and reordered writes are harmless. That no block is lost needs to know where it can be:
`ContentInv` says that a block no child has any more is stored, and that the block of the youngest child that had it is
still in that child or in the ancestor. `DataInv` says that nothing is deleted before the rename unless the chain was given up, `SealInv` that a file without its
footer has a state file, or lost it, and that the footer is there once the disk is published, and `StepInv` that at
the steps after the loop, and once the disk is published, every block is stored. Their conjunction with the types,
`SafetyInv`, is inductive: `SafetyInvInit` and one lemma per conjunct, with one step per action that can disturb it. The
refinement then maps each action to `MergeBlock`, `Publish`, `Discard`, `Delete` or a stutter of ChainMerge.

`PublishedReadable` has a hypothesis on the constants because the property is false without it: these are the regimes in which no bit is lost, and the
run `merge_copy_crash` and section 3 show what happens next to them. Its invariant is `ReadInv`: the tables, on disk and in memory, name blocks of the
merged disk only and that on disk only grows (`TableInv`); a block that the loop has seen has its bit in memory until the table is written (`SeenInv`). What remains is a
merge that resumes, from the table on disk: `DurableInv` says that where the bit is written before the block counts as merged (`Durable`), a checkpoint passes only
blocks that the table on disk names, in the file, in memory and in each write under way. A block found by a merge that resumes has its bit in memory only, so for renamed
blocks the merge that resumes must be the last: `LastInv` says that it is when its fault was the only one, and `FirstInv` that none resumes, nor fails, before a fault.

`MergeQueueProofs` proves of `MergeQueue!Spec`, for any number of tasks, VMs, failures, crashes and deletions, and any concurrency, from `MergeQueueAssumption`:

| theorem | property |
|---|---|
| `NoMergeForgotten` | `MergeRemembered` |
| `Alone` | `CleanedAlone` |
| `TypeCorrect` | `TypeOK` |

The argument. The deletion of a task is not awaited, and deletes a name: `OlderNames` says that no such name has more `_` than that of the file, so that a rename, which
adds one, moves the task out of its reach; `Unwritten` says that a backup that has not ended has neither file nor deletion under way; `Handled` that the
task the worker is at has a file that nobody is deleting. So a deletion never takes the task of a merge that is still to be done. `Locked` ties the lock of each VM to who
holds it, hence at most one task of a VM is being cleaned. A merge may leave what is deleted while it runs (`late`), although its task ends:
`MergeAsked` says of what is not missed that a task other than that one remembers it, and `LateMerging` that only a merge under way
has late deletions. Their conjunction with the types is inductive.
The types need that a listing is a sequence of tasks: `SortedNames` shows that the sorted sequence the model chooses exists, from the rank of each name.

`XapiEventsProofs` proves of `XapiEvents!Spec`, for any finite sets of tasks and objects, from `XapiEventsAssumption`:

| theorem | property |
|---|---|
| `EventsKept` | `NoEventLost` |
| `CountCorrect` | `TasksCounted` |
| `BarrierFollows` | `BarrierByEvents` |
| `TypeCorrect` | `TypeOK` |

The argument. `ServerInv` says that stamps and tokens are at most the clock, and that only a deletion is forgotten. An answer of
`event.from` is of the past when it is processed: `ReplyInv` says what the cache **will** hold once it is (`After`): what is not as on the server has an event after the token
of the answer. That is what makes `NoEventLost` inductive across `ProcessEvents`, where the token moves to that of the answer. If the answer has the pool with the key of
the barrier, `ReplyInv` says besides that the cache will hold all that precedes the barrier, or something later, since `MarkInv` says that an object does not come back to what it was. `TasksCounted` is inductive: while `_nTasks` is not a number, the first fetch of the tasks runs or failed; then it needs only the cardinality of the set of the tasks in the cache, with those that an answer adds and without those it removes.

`AuditLogProofs` proves of `AuditLog!Spec`, for any events, file, number of calls and failures, from `AuditLogAssumption`:

| theorem | property |
|---|---|
| `ChainWhole` | `ChainIntact` |
| `RecordsStay` | `RecordsKept` |
| `OnlyTrueAlarms` | `NoFalseAlarm` |
| `TypeCorrect` | `TypeOK` |

The argument. A chain is the set of the non-empty prefixes of its newest record (`ChainMember`, `ChainPrevious`), so that what is deleted is in the chain or not
according to prefixes. The delicate step is `Drop`: the old record of a recent event is deleted after the new one is added, and must not be a
record of the new chain. `RangeInv` says why: an old record begins with the oldest record of the range (`Prefix(Job.oldest, recent[i])`), and no record of the new
chain does (`~Prefix(Job.oldest, LastOrNull)`), although that chain grows by records of the same events. For this the event that is added must not be that of the oldest
record, so `RecentInv` says that the events of the recent records are distinct, are not that one and are not in the chain yet; which needs that the events of the chain are distinct
(`LastInv`), that each waits once and only before it is recorded (`QueueInv`). While the range is deleted, what precedes it is kept (`RangeInv`), and becomes the chain at
`Cut`. `ImportInv` says that of the file only the chain of `at` is left to store, also when the import has failed and its undoing has not deleted `lastId` yet. `cleaning` is idle or the chain empty, unless `broken` says otherwise.

`RecordsStay` and `OnlyTrueAlarms` add to it. An event that was recorded and that nobody asked to delete has a record in the store (`HasRecord`); as long as nothing failed or
was deleted (`Plain`), that record is in the chain (`InChain`), also between the two steps of an addition and during an import. `checkIntegrity()` follows previous
ids without the lock: `Calm` says that, while records are only added beside it, the one it is at was in the chain and still is, with all that precedes it.

`CleanVmProofs` proves of `CleanVm!Spec`, for any number of backups, blocks, deletions and crashes, whatever steps they stop, from `CleanVmAssumption`:

| theorem | property |
|---|---|
| `TypeCorrect` | `TypeOK` |

The argument. What cleaning computes by following links, `IsOrphan`, `UsedChildChain`, `Expected` and `Reads`, are recursive functions on the VHDs. `Descent` says when such a definition has a
value: each call is about a VHD closer to the end of an order, here the numbers, since a VHD is younger than its parent whatever is merged. So `Younger` goes into the invariant. The types of the chains need that each has two VHDs at least, also in the state files (`IsChain`), those of
the blocks that a block still in `todo` is one of a child that was opened (`MergeTypes`).

`CleanVmKeptProofs` proves of `CleanVm!Spec`, for any number of backups, blocks and deletions, files or directories, and whatever blocks each transfer holds:

| theorem | property |
|---|---|
| `KeepsBackups` | `BackupsKept` |
| `KeptBackupsRestorable` | `BackupsRestorable` |
| `ListedBackupsRestorable` | `ListedRestorable` |
| `KeepsContent` | `ContentKept` |

All four under `OrderlyCrashes`: the process may stop any number of times, during the checks, the deletions of VHDs and metadata and the end of a merge, but not between the first block of a
merge and its rename. This is the setting of `clean_move`. Without it `BackupsKept` is false, as section 3 shows (*A stop in the commit*); what a merge stopped there does with the blocks is VhdMerge.

The argument. The repository is seen through a set `S` of VHDs that must stay, `Needed(S)`. It is `Rooted`: it has the VHD of each backup that is listed, each VHD of `S` exists, and the VHD it was made on, `path[v] - 1`, is in `S`. After merges path `v` of `S` leads to the
data of several VHDs, from `path[v]`, the oldest one, to `v`: these intervals follow each other, and `ContentInv` says that the data of path `v` holds (`Holds`) each block of the interval as the youngest VHD of it wrote it. Restoring
backup `v`, which reads down the parents, hence finds each block as it was made (`HoldsLast`, `ReadsDef`, `Follow`).
`S` shrinks twice only: at `FindChains`, to what the VHDs that are used need, and at `Rename`, where the target takes over the interval of the whole chain. Everything else spares `S` (`Spared`): an unlink is of a VHD that is doomed, and `SafeInv` says that
none of `S` is. It needs what each phase knows. `CheckInv` says that `vhdParents` and `vhdChildren` are those of the VHDs that are open, so that no VHD of `S` is found orphaned or a duplicate: `PathInv`, two paths have two data and
two uuids. `StatesInv` says that no merge is ever resumed: a state file left by a crash is that of an ancestor that was renamed, which the next run forgets. `QueueInv` says that the chains that wait are in `S`, linked, and disjoint, so that a merge changes nothing the next one needs; the VHDs a merge
deletes are unused, so a backup that is listed comes after the whole chain (`AfterChain`), and is read as well whether the merge is done or not. `CommitInv` and `StepInv` follow the blocks of the chain under way: those no longer in `todo` are in the ancestor as the target has to read them, the others where they were. Their conjunction with the types, `IInv`, is inductive (`InitInv`, one lemma per action, `NextInv`); TLC checked it first on the instance of `clean_move`.

`BackupRunProofs` proves of `BackupRun!Spec`, for any remotes, schedules, retentions, number of runs, faults and deletions, whatever fails and locks or not, from `BackupRunAssumption`:

| theorem | property |
|---|---|
| `TypeCorrect` | `TypeOK` |
| `ChainsBounded` | `ChainBounded` |
| `RetentionHolds` | `RetentionReached`, if `MaxRuns <= MaxMergedDeltasPerRun` |

The argument. `RetentionReached` is about the end of a run, the choice of the old entries long before: `Retention` says that once a writer has chosen them, the others of its list are fewer than
`ExportRetention`, and that they are gone when its cleanup is over, whatever the cache was and becomes; `Unchosen` that none is chosen before. The hypothesis says that `maxMergedDeltasPerRun` does not cut the list of old entries short: its default is
Infinity (`_runners/VmsXapi.mjs:30`, `VmsRemote.mjs:24`); with a lower value the code reaches the retention over several runs. `Bounded` relates the length that the mark of a
snapshot claims to the size of the chain its VHD has on each remote, `Size`, a recursive function: `Descent` says when such a definition has a value.

`BackupKeptProofs` proves of `BackupRun!Spec`, for any remotes, schedules, export retentions, `fullInterval`, number of runs, faults and deletions:

| theorem | property |
|---|---|
| `ReportedStay` | `BackupsKept` |
| `NextBase` | `BaseReady` |

Both under `Settings`: the remotes have locks (local ones do), `deleteFirst` is false and `snapshotRetention` 0 (both are the defaults, `_runners/VmsXapi.mjs:34`), and the writing of the metadata is not
what fails. Without any of the four the properties are false, as section 3 shows. Calls to the pool, transfers, marks, writers and writes of the cache may fail and the process may crash, any number of times.

The argument. A backup can be restored when its metadata is there and the chain of its VHD is whole (`Sound`). `cleanVm()` deletes the metadata of another only when two VHDs have one parent, and then it is that of
either. `OrderedAt` says that this does not happen: no VHD comes between another and its parent, and the base of the run is the last VHD there is; which needs that at most two snapshots exist, one when a new one is
made (`Snapped`), and that no VHD is newer than the snapshots (`NumberedAt`). So what a `cleanVm()`, that of the run or of somebody else, is about to delete is in no chain a metadata needs, at any time before it does
(`SafeAt`); that of the run holds the lock of its writers (`Planned`). `TransferredAt` follows what each writer has done from step to step, `BasedAt` that what it lists after its first cleaning is whole and that its base stays so. `SparedAt` says that each old entry the
run deletes has enough newer backups that are not old entries themselves. The list they are chosen from may be stale: `CachedAt` says that it names nothing but backups, past ones included, and `KeptAt` that each of those that a run deleted
has as many newer ones as are to be kept, so that a name without metadata stands for backups that are there. `KeptAt` and `ReadyAt` are the two properties, with this, on one remote; `Shape` and `Promise` are the two conjunctions that are inductive, the second given the first.

Only model-checked: everything about BackupCache; of CleanVm, `ListedRestorable` when one crash comes between the first block of a merge and its rename (`clean_file`); and the liveness properties, which are out of the prover's reach, as is `ENABLED`.

## 6. Not modelled, and why

- In the cleaning: XVA files and full backups (each is independent of the others), sizes, the cache of the backup
  list (BackupCache has it), temporary and unreadable files, the option `remove: false` (only logs), two runs in the same
  directory on remotes whose locks do nothing (BackupRun has them, coarsely), and read errors, which make a VHD count as missing.
- In the backup runs: the merge worker's queue (MergeQueue has it), a VM with several disks, long-term retention, full and
  mirror backups, replication, health checks.
- In the VHDs: parsing, header moves, sectors, compression and encryption: encodings of data.
- In the file systems: everything but the retry of a rename; an operation is atomic, as the code assumes.
- In the XAPI client: what a call returns, HTTP transfers (`getResource`, `putResource`), the choice of a server address, the retries of a call with their delays, the
  older servers without `event.from`.
- In the audit log: signatures, the upload of the last hash, the listing for the interface, the export. The integrity check goes to NULL_ID, not to an older record.
- In the cache: its versions and compression; the caches of other VMs are independent.
- The components of the last part of section 1, each with its reason in `PROJECT.json`.

## 7. Running it

    tlc -config VhdMerge_move.cfg MCVhdMerge.tla      # and so on for each run of PROJECT.json
    tlc -config CleanVm_move.cfg MCCleanVm.tla
    tlc -config BackupRun_run.cfg MCBackupRun.tla
    tlapm VhdMergeProofs.tla                          # and so on for each module *Proofs.tla

## 8. Plan

Done: **VhdMerge**, **ChainMerge**, **CleanVm**, **BackupRun**, **MergeQueue**, **BackupCache**, **XapiEvents**, **AuditLog**, and the proofs of the safety properties
of all of them but BackupCache. Left, in this order:

1. Proofs about the count of BackupCache, and of what is true of CleanVm when a crash interrupts the commit of a merge of files.
2. **AsyncEach** and **Deduped**: schedulers against what they promise. **Task**, **XoCollection**, **NbdClient**, **Cron** as far as they hold something worth checking.
3. The other runners and writers (full backups, mirrors, replication) beside BackupRun, and the immutable backups.

The runs are meant to stay few: a later module gets one passing run, and one more only for a disagreement with a
doc. Where two runs of one module ask close questions (`merge_copy` and `merge_file`, say), they are merged first.
