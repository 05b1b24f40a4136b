----------------------------- MODULE BackupRun -----------------------------
(***************************************************************************)
(* The runs of a delta backup job on one VM with one disk: IncrementalXapi *)
(* of _runners/_vmRunners with one IncrementalRemoteWriter per remote.     *)
(* A run cleans the repositories, chooses the snapshot the delta is made   *)
(* from, removes the snapshots that are too old, makes a new one, has it   *)
(* transferred by each writer, chains the new VHD to that of the base,     *)
(* marks the snapshot as exported, and deletes the backups that are too    *)
(* old.  A writer that fails is left out of the rest of the run.  Beside   *)
(* the runs, the user deletes backups and the merge worker cleans.         *)
(*                                                                         *)
(* Run k makes snapshot k, and backup k on each remote: metadata k, which  *)
(* names VHD k.  cleanVm() is that of CleanVm without its crashes, in two  *)
(* steps: what it finds and what it changes.  The list of the backups is a *)
(* cache beside the metadata: each change of both is one step here, and    *)
(* what BackupCache shows of their steps is the failure "cache".           *)
(***************************************************************************)
EXTENDS Integers, FiniteSets

CONSTANTS
    Remotes,
    Schedules,              \* the schedules of the job
    SnapshotRetention,
    ExportRetention,
    MaxMergedDeltasPerRun,
    DeleteFirst,            \* deleteFirst: the old backups are deleted before the transfer
    FullInterval,           \* 0 when there is none
    Locks,                  \* whether the remotes have locks: they are local ones
    Failures,               \* the steps that may fail: see Fail
    MaxRuns,                \* bound: runs
    MaxFaults,              \* bound: failures and crashes
    MaxDeleted,             \* bound: backups the user deletes
    None

Runs == 1 .. MaxRuns

\* "before" to "after": the steps of a run, in order.
Steps == {"idle", "before", "select", "remove", "snapshot", "tag", "prepare", "transfer", "chain",
          "length", "mark", "cleanup", "finally", "after"}

\* Who calls cleanVm(): a run of the job, and the user or the merge worker.
Cleaners == {"run", "other"}

\* The parent of a full VHD, and of a delta that is not chained yet.
Full      == 0
Unchained == MaxRuns + 1

ASSUME BackupRunAssumption ==
    /\ IsFiniteSet(Remotes) /\ Remotes # {}
    /\ Schedules # {}
    /\ {SnapshotRetention, FullInterval, MaxFaults, MaxDeleted} \subseteq Nat
    /\ {ExportRetention, MaxMergedDeltasPerRun, MaxRuns} \subseteq Nat \ {0}
    /\ {DeleteFirst, Locks} \subseteq BOOLEAN
    /\ Failures \subseteq {"writer", "transfer", "metadata", "cache", "pool", "crash"}
    /\ None \notin Schedules \cup Int

VARIABLES
    (* The pool. *)
    untagged,    \* snapshots whose other_config is not written yet
    snapshots,   \* snapshots with the id of the job
    exported,    \* those marked EXPORTED_SUCCESSFULLY
    length,      \* their DELTA_CHAIN_LENGTH
    schedule,    \* the schedule of each run: SCHEDULE_ID, metadata.scheduleId
    (* The remotes. *)
    vhds,        \* vhds[r]: the VHDs of remote r
    parent,      \* parent[r][k]: the parent in the header of VHD k
    named,       \* named[r]: the VHDs that have the uuid of their VDI
    jsons,       \* jsons[r]: the metadata
    cache,       \* cache[r]: the backups that cache.json.gz names, None without it
    plan,        \* plan[r][c]: what the cleanVm() of c is about to do on r
    (* A run. *)
    step,
    now,         \* the last run: its timestamp
    failed,      \* whether it threw
    writers,     \* _writers
    held,        \* the remotes it locked, which afterBackup() will unlock
    busy,        \* the writers that have not finished the step
    written,     \* those that have written their VHD
    base,        \* the snapshot in _baseVdis
    differencing,\* isVhdDifferencing
    chained,     \* the writers whose VHD is chained
    old,         \* _oldEntries of each writer
    (* History and bounds. *)
    done,        \* done[r]: the backups that runs report as made on r
    deleted,     \* deleted[r]: the backups the user deleted
    expired,     \* expired[r]: those that runs deleted as too old
    listed,      \* listed[r]: the list in which the run looked for old entries
    faults

pool    == <<untagged, snapshots, exported, length, schedule>>
files   == <<vhds, parent, named, jsons, cache>>
choices == <<base, differencing, old>>
run     == <<step, now, failed, writers, held, busy, written, chained, choices>>
history == <<done, deleted, expired, listed, faults>>
vars    == <<pool, files, plan, run, history>>

-----------------------------------------------------------------------------

Init ==
    /\ untagged = {}
    /\ snapshots = {}
    /\ exported = {}
    /\ length = [k \in Runs |-> 0]
    /\ schedule = [k \in Runs |-> None]
    /\ vhds = [r \in Remotes |-> {}]
    /\ parent = [r \in Remotes |-> [k \in Runs |-> Full]]
    /\ named = [r \in Remotes |-> {}]
    /\ jsons = [r \in Remotes |-> {}]
    /\ cache = [r \in Remotes |-> None]
    /\ plan = [r \in Remotes |-> [c \in Cleaners |-> None]]
    /\ step = "idle"
    /\ now = 0
    /\ failed = FALSE
    /\ writers = {}
    /\ held = {}
    /\ busy = {}
    /\ written = {}
    /\ chained = {}
    /\ base = None
    /\ differencing = FALSE
    /\ old = [r \in Remotes |-> {}]
    /\ done = [r \in Remotes |-> {}]
    /\ deleted = [r \in Remotes |-> {}]
    /\ expired = [r \in Remotes |-> {}]
    /\ listed = [r \in Remotes |-> {}]
    /\ faults = 0

\* The n latest of a set of runs.
Latest(n, set) == {k \in set : Cardinality({j \in set : j > k}) < n}

\* getOldEntries(): all but the last ones.
GetOldEntries(retention, entries) == entries \ Latest(retention, entries)

\* Whether the VHDs of the chain of each one are all in `present'.
Whole(parents, present) ==
    LET whole[k \in Runs] ==
            /\ k \in present
            /\ parents[k] \in Runs => whole[parents[k]]
            /\ parents[k] # Unchained
    IN whole

IsWhole(r, k) == Whole(parent[r], vhds[r])[k]

-----------------------------------------------------------------------------
(* cleanVm() *)

Children(r, p) == {k \in vhds[r] : parent[r][k] = p}

\* The VHDs that cleanVm() ignores when several have the same parent: it keeps
\* the one it opened first.
Ignored(r) ==
    {set \in SUBSET vhds[r] :
        \A p \in Runs \cup {Full, Unchained} :
            IF p = Full THEN Children(r, p) \cap set = {}
            ELSE Children(r, p) # {} => Cardinality(Children(r, p) \ set) = 1}

\* The VHDs whose chain misses one of those that are seen.
Orphan(parents, seen) ==
    LET orphan[k \in Runs] ==
            \/ parents[k] = Unchained
            \/ parents[k] \in Runs /\ (parents[k] \notin seen \/ orphan[parents[k]])
    IN orphan

\* Those whose chain has VHD p.
Needs(parents, p) ==
    LET needs[k \in Runs] == k = p \/ (parents[k] \in Runs /\ needs[parents[k]])
    IN needs

\* What is found: the VHDs to delete and to merge, the metadata to delete and
\* those that are left, and whether the cache is to be written from these:
\* mustRegenerateCache.
Findings(r, ignored, merge) ==
    LET seen    == vhds[r] \ ignored
        orphans == {k \in vhds[r] : Orphan(parent[r], seen)[k]}
        kept    == seen \ orphans
        used    == kept \cap jsons[r]
        needed  == {p \in kept : \E k \in used : Needs(parent[r], p)[k]}
        toMerge == IF merge THEN needed \ used ELSE {}
        cached  == IF cache[r] = None THEN {} ELSE cache[r]
    IN [delete |-> orphans \cup (kept \ needed),
        merge  |-> toMerge,
        forget |-> jsons[r] \ kept,
        list   |-> used,
        must   |-> \/ Cardinality(cached) # Cardinality(jsons[r])
                   \/ jsons[r] \ kept # {} \/ toMerge # {}]

Scan(r, c, merge) ==
    /\ plan[r][c] = None
    /\ \E ignored \in Ignored(r) : plan' = [plan EXCEPT ![r][c] = Findings(r, ignored, merge)]

\* The parent instead of p once the VHDs of merge are merged.
UpTo(parents, merge) ==
    LET upTo[p \in Runs \cup {Full, Unchained}] == IF p \in merge THEN upTo[parents[p]] ELSE p
    IN upTo

\* A VHD that is merged into the next one gives it its parent.  The cache is also
\* written when the size of a backup is not the one in its metadata.
Clean(r, c) ==
    LET merge == plan[r][c].merge \cap vhds[r]
    IN /\ plan[r][c] # None
       /\ plan' = [plan EXCEPT ![r][c] = None]
       /\ vhds' = [vhds EXCEPT ![r] = @ \ (plan[r][c].delete \cup merge)]
       /\ parent' = [parent EXCEPT ![r] = [k \in Runs |-> UpTo(@, merge)[@[k]]]]
       /\ jsons' = [jsons EXCEPT ![r] = @ \ plan[r][c].forget]
       /\ UNCHANGED named
       /\ \E must \in {plan[r][c].must, plan[r][c].list # {}} :
             /\ plan[r][c].must => must
             /\ cache' = IF must THEN [cache EXCEPT ![r] = plan[r][c].list] ELSE cache

\* _updateCache(): nothing is done without a cache.
UpdateCache(r, removed, added) ==
    cache' = IF cache[r] = None THEN cache ELSE [cache EXCEPT ![r] = (@ \ removed) \cup added]

\* deleteVmBackups(): the metadata is deleted, whether a backup runs or not.
DeleteBackup(r, k) ==
    /\ k \in jsons[r]
    /\ Cardinality(UNION {deleted[q] : q \in Remotes}) < MaxDeleted
    /\ jsons' = [jsons EXCEPT ![r] = @ \ {k}]
    /\ deleted' = [deleted EXCEPT ![r] = @ \cup {k}]
    /\ UpdateCache(r, {k}, {})
    /\ UNCHANGED <<pool, vhds, parent, named, plan, run, done, expired, listed, faults>>

\* Mutant: cleanVm() is run whoever has the lock.
ScanUnlocked(r) ==
    /\ \E merge \in {FALSE, Locks} : Scan(r, "other", merge)
    /\ UNCHANGED <<pool, files, run, history>>

\* It is followed by cleanVm(), as is the deletion of a backup of another job,
\* and the merge worker calls it too, on local remotes.  It throws when the lock
\* is held.
OtherScan(r) ==
    /\ Locks => r \notin held
    /\ \E merge \in {FALSE, Locks} : Scan(r, "other", merge)
    /\ UNCHANGED <<pool, files, run, history>>

OtherClean(r) ==
    /\ Clean(r, "other")
    /\ UNCHANGED <<pool, run, history>>

-----------------------------------------------------------------------------
(* A run. *)

Start(s) ==
    /\ step = "idle"
    /\ now < MaxRuns
    /\ now' = now + 1
    /\ schedule' = [schedule EXCEPT ![now'] = s]
    /\ step' = "before"
    /\ failed' = FALSE
    /\ writers' = Remotes
    /\ busy' = Remotes
    /\ written' = {}
    /\ chained' = {}
    /\ base' = None
    /\ differencing' = FALSE
    /\ old' = [r \in Remotes |-> {}]
    /\ listed' = [r \in Remotes |-> {}]
    /\ UNCHANGED <<untagged, snapshots, exported, length, files, plan, held, done, deleted, expired, faults>>

\* Mutant: a writer that fails is still used.
KeepWriter(r, next) ==
    /\ busy' = busy \ {r}
    /\ UNCHANGED <<writers, step, failed>>

\* _callWriters(): a writer that fails is not used any more, and the run throws
\* when none is left.
LoseWriter(r, next) ==
    /\ writers' = writers \ {r}
    /\ IF writers = {r}
       THEN step' = next /\ failed' = TRUE /\ busy' = IF next = "after" THEN held ELSE {}
       ELSE busy' = busy \ {r} /\ UNCHANGED <<step, failed>>

\* beforeBackup(): the lock, which is not waited for, then cleanVm().
BeforeBackup(r) ==
    /\ step = "before"
    /\ r \in busy \ held
    /\ IF Locks /\ plan[r]["other"] # None
       THEN LoseWriter(r, "after") /\ UNCHANGED <<held, plan>>
       ELSE /\ held' = held \cup {r}
            /\ Scan(r, "run", TRUE)
            /\ UNCHANGED <<step, failed, writers, busy>>
    /\ UNCHANGED <<pool, files, now, written, chained, choices, history>>

EndBeforeBackup(r) ==
    /\ step = "before"
    /\ Clean(r, "run")
    /\ busy' = busy \ {r}
    /\ UNCHANGED <<pool, step, now, failed, writers, held, written, chained, choices, history>>

BeginSelect ==
    /\ step = "before"
    /\ busy = {}
    /\ step' = "select"
    /\ UNCHANGED <<pool, files, plan, now, failed, writers, held, busy, written, chained, choices, history>>

\* checkBaseVdis(): a VHD of the remote has the uuid of the base, and it can be
\* opened with its chain.
HasBase(r, k) == k \in named[r] /\ IsWhole(r, k)

LastExported == Latest(1, snapshots \cap exported)

\* Mutant: the interval is reached one backup too late.
FullIntervalReachedLate(k) == FullInterval # 0 /\ FullInterval < length[k] + 1

FullIntervalReached(k) == FullInterval # 0 /\ FullInterval <= length[k] + 1

\* _selectBaseVm(): the last snapshot that was exported, if every writer has it.
SelectBase ==
    /\ step = "select"
    /\ base' = IF \E k \in LastExported :
                     ~FullIntervalReached(k) /\ \A r \in writers : HasBase(r, k)
               THEN CHOOSE k \in LastExported : TRUE
               ELSE None
    /\ step' = "remove"
    /\ UNCHANGED <<pool, files, plan, now, failed, writers, held, busy, written, chained, differencing, old,
                   history>>

\* The snapshots to remove: for each schedule those that are too old, except
\* the last one of all.
UnusedSnapshots ==
    (UNION {GetOldEntries(SnapshotRetention, {k \in snapshots : schedule[k] = s}) : s \in Schedules})
        \ Latest(1, snapshots)

\* _removeUnusedSnapshots(), before the snapshot: the base may be among them.
RemoveUnused ==
    /\ step = "remove"
    /\ snapshots' = snapshots \ UnusedSnapshots
    /\ step' = "snapshot"
    /\ UNCHANGED <<untagged, exported, length, schedule, files, plan, now, failed, writers, held, busy,
                   written, chained, choices, history>>

Snapshot ==
    /\ step = "snapshot"
    /\ untagged' = untagged \cup {now}
    /\ step' = "tag"
    /\ UNCHANGED <<snapshots, exported, length, schedule, files, plan, now, failed, writers, held, busy,
                   written, chained, choices, history>>

\* setVmOtherConfig()
Tag ==
    /\ step = "tag"
    /\ untagged' = untagged \ {now}
    /\ snapshots' = snapshots \cup {now}
    /\ step' = "prepare"
    /\ busy' = writers
    /\ UNCHANGED <<exported, length, schedule, files, plan, now, failed, writers, held, written, chained,
                   choices, history>>

\* _readCacheListVmBackups(): the cache, whatever the metadata are; without one
\* the list is made from them.
Entries(r) == IF cache[r] = None THEN jsons[r] ELSE cache[r]

\* listVmBackups()
Listed(r, s) == {k \in Entries(r) : schedule[k] = s}

\* Mutant: the new backup is not counted.
OldEntriesTooFew(r) ==
    LET entries == GetOldEntries(ExportRetention, Listed(r, schedule[now]))
    IN entries \ Latest(Cardinality(entries) - MaxMergedDeltasPerRun, entries)

\* The backups that are too old once the new one is there, the oldest of them
\* when they are too many for one run.
OldEntries(r) ==
    LET entries == GetOldEntries(ExportRetention - 1, Listed(r, schedule[now]))
    IN entries \ Latest(Cardinality(entries) - MaxMergedDeltasPerRun, entries)

\* _prepare(): a list that is not in a cache is written there.
Prepare(r) ==
    /\ step = "prepare"
    /\ r \in busy
    /\ old[r] = {}
    /\ old' = [old EXCEPT ![r] = OldEntries(r)]
    /\ busy' = IF DeleteFirst /\ old'[r] # {} THEN busy ELSE busy \ {r}
    /\ cache' = [cache EXCEPT ![r] = Entries(r)]
    /\ listed' = [listed EXCEPT ![r] = Entries(r)]
    /\ UNCHANGED <<pool, vhds, parent, named, jsons, plan, step, now, failed, writers, held, written, chained,
                   base, differencing, done, deleted, expired, faults>>

\* _deleteOldEntries(): one by one, the newest first.  The metadata may not be
\* there any more.
DeleteOldEntry(r) ==
    /\ step = IF DeleteFirst THEN "prepare" ELSE "cleanup"
    /\ r \in busy
    /\ \E k \in Latest(1, old[r]) :
           /\ jsons' = [jsons EXCEPT ![r] = @ \ {k}]
           /\ old' = [old EXCEPT ![r] = @ \ {k}]
           /\ expired' = [expired EXCEPT ![r] = @ \cup {k}]
           /\ UpdateCache(r, {k}, {})
    /\ busy' = IF old'[r] = {} THEN busy \ {r} ELSE busy
    /\ UNCHANGED <<pool, vhds, parent, named, plan, step, now, failed, writers, held, written, chained, base,
                   differencing, done, deleted, listed, faults>>

\* exportIncrementalVm(): a full export when the base is not there any more.
Export ==
    /\ step = "prepare"
    /\ busy = {}
    /\ differencing' = (base # None /\ base \in snapshots)
    /\ step' = "transfer"
    /\ busy' = writers
    /\ UNCHANGED <<pool, files, plan, now, failed, writers, held, written, chained, base, old, history>>

\* _transfer(): the VHD, then the metadata.
WriteVhd(r) ==
    /\ step = "transfer"
    /\ r \in busy \ written
    /\ vhds' = [vhds EXCEPT ![r] = @ \cup {now}]
    /\ parent' = [parent EXCEPT ![r][now] = IF differencing THEN Unchained ELSE Full]
    /\ written' = written \cup {r}
    /\ UNCHANGED <<pool, named, jsons, cache, plan, step, now, failed, writers, held, busy, chained, choices,
                   history>>

WriteMetadata(r) ==
    /\ step = "transfer"
    /\ r \in busy \cap written
    /\ jsons' = [jsons EXCEPT ![r] = @ \cup {now}]
    /\ UpdateCache(r, {}, {now})
    /\ busy' = busy \ {r}
    /\ UNCHANGED <<pool, vhds, parent, named, plan, step, now, failed, writers, held, written, chained,
                   choices, history>>

BeginChain ==
    /\ step = "transfer"
    /\ busy = {}
    /\ step' = "chain"
    /\ busy' = writers
    /\ UNCHANGED <<pool, files, plan, now, failed, writers, held, written, chained, choices, history>>

\* updateUuidAndChain(): chainVhd() opens the two VHDs, hence their data.
Chain(r) ==
    /\ step = "chain"
    /\ r \in busy \ chained
    /\ differencing
    /\ IF {now, base} \subseteq vhds[r]
       THEN /\ parent' = [parent EXCEPT ![r][now] = base]
            /\ chained' = chained \cup {r}
            /\ UNCHANGED <<step, failed, writers, busy>>
       ELSE LoseWriter(r, "finally") /\ UNCHANGED <<parent, chained>>
    /\ UNCHANGED <<pool, vhds, named, jsons, cache, plan, now, held, written, choices, history>>

UpdateUuid(r) ==
    /\ step = "chain"
    /\ r \in busy
    /\ differencing => r \in chained
    /\ IF now \in vhds[r]
       THEN /\ named' = [named EXCEPT ![r] = @ \cup {now}]
            /\ busy' = busy \ {r}
            /\ UNCHANGED <<step, failed, writers>>
       ELSE LoseWriter(r, "finally") /\ UNCHANGED named
    /\ UNCHANGED <<pool, vhds, parent, jsons, cache, plan, now, held, written, chained, choices, history>>

BeginLength ==
    /\ step = "chain"
    /\ busy = {}
    /\ step' = "length"
    /\ UNCHANGED <<pool, files, plan, now, failed, writers, held, busy, written, chained, choices, history>>

\* setVmDeltaChainLength()
SetLength ==
    /\ step = "length"
    /\ length' = [length EXCEPT ![now] = IF base = None THEN 0 ELSE length[base] + 1]
    /\ step' = "mark"
    /\ UNCHANGED <<untagged, snapshots, exported, schedule, files, plan, now, failed, writers, held, busy,
                   written, chained, choices, history>>

\* markExportSuccessfull()
Mark ==
    /\ step = "mark"
    /\ exported' = exported \cup {now}
    /\ step' = "cleanup"
    /\ busy' = IF DeleteFirst THEN {} ELSE {r \in writers : old[r] # {}}
    /\ UNCHANGED <<untagged, snapshots, length, schedule, files, plan, now, failed, writers, held, written,
                   chained, choices, history>>

\* The export succeeded on the writers that are left.
EndCleanup ==
    /\ step = "cleanup"
    /\ busy = {}
    /\ step' = "finally"
    /\ done' = [r \in Remotes |-> IF r \in writers THEN done[r] \cup {now} ELSE done[r]]
    /\ UNCHANGED <<pool, files, plan, now, failed, writers, held, busy, written, chained, choices, deleted,
                   expired, listed, faults>>

\* _removeUnusedSnapshots(), whether the run throws or not.
FinallyRemove ==
    /\ step = "finally"
    /\ snapshots' = snapshots \ UnusedSnapshots
    /\ step' = "after"
    /\ busy' = held
    /\ UNCHANGED <<untagged, exported, length, schedule, files, plan, now, failed, writers, held, written,
                   chained, choices, history>>

\* afterBackup() of every writer that was started: cleanVm(), which leaves the
\* merges to the worker on local remotes, then the lock is released.
AfterBackup(r) ==
    /\ step = "after"
    /\ r \in busy
    /\ Scan(r, "run", ~Locks)
    /\ UNCHANGED <<pool, files, run, history>>

EndAfterBackup(r) ==
    /\ step = "after"
    /\ Clean(r, "run")
    /\ busy' = busy \ {r}
    /\ held' = held \ {r}
    /\ UNCHANGED <<pool, step, now, failed, writers, written, chained, choices, history>>

End ==
    /\ step = "after"
    /\ busy = {}
    /\ step' = "idle"
    /\ UNCHANGED <<pool, files, plan, now, failed, writers, held, busy, written, chained, choices, history>>

-----------------------------------------------------------------------------
(* What may fail. *)

Fail(kind) ==
    /\ kind \in Failures
    /\ faults < MaxFaults
    /\ faults' = faults + 1
    /\ UNCHANGED <<done, deleted, expired, listed>>

\* A writer throws.
WriterFails(r) ==
    /\ Fail("writer")
    /\ step \in {"before", "prepare", "chain", "cleanup"}
    /\ r \in busy
    /\ step = "before" => r \notin held
    /\ LoseWriter(r, IF step = "before" THEN "after" ELSE "finally")
    /\ UNCHANGED <<pool, files, plan, now, held, written, chained, choices>>

\* transfer() throws nothing: it writes the error to the console.
TransferFails(r) ==
    /\ IF r \in written THEN Fail("metadata") ELSE Fail("transfer")
    /\ step = "transfer"
    /\ r \in busy
    /\ busy' = busy \ {r}
    /\ UNCHANGED <<pool, files, plan, step, now, failed, writers, held, written, chained, choices>>

\* A call to the pool throws; some snapshots may have been removed before.
PoolFails ==
    /\ Fail("pool")
    /\ step \in {"select", "remove", "snapshot", "tag", "prepare", "length", "mark", "finally"}
    /\ step = "prepare" => busy = {}
    /\ \E gone \in SUBSET (IF step \in {"remove", "finally"} THEN UnusedSnapshots ELSE {}) :
           snapshots' = snapshots \ gone
    /\ step' = IF step \in {"select", "remove", "finally"} THEN "after" ELSE "finally"
    /\ busy' = IF step' = "after" THEN held ELSE {}
    /\ failed' = TRUE
    /\ UNCHANGED <<untagged, exported, length, schedule, files, plan, now, writers, held, written, chained,
                   choices>>

\* A write of the cache is lost, or another one that was read from before it: the
\* cache misses backups, or names some that the user or a run deleted.
CacheDiverges(r) ==
    /\ Fail("cache")
    /\ \E names \in (SUBSET (jsons[r] \cup deleted[r] \cup expired[r])) \cup {None} :
           cache' = [cache EXCEPT ![r] = names]
    /\ UNCHANGED <<pool, vhds, parent, named, jsons, plan, run>>

\* The process stops; its locks expire.
Crash ==
    /\ Fail("crash")
    /\ step # "idle"
    /\ step' = "idle"
    /\ failed' = TRUE
    /\ writers' = {}
    /\ held' = {}
    /\ busy' = {}
    /\ plan' = [r \in Remotes |-> [plan[r] EXCEPT !["run"] = None]]
    /\ UNCHANGED <<pool, files, now, written, chained, choices>>

-----------------------------------------------------------------------------

Next ==
    \/ \E s \in Schedules : Start(s)
    \/ BeginSelect \/ SelectBase \/ RemoveUnused \/ Snapshot \/ Tag \/ Export
    \/ BeginChain \/ BeginLength \/ SetLength \/ Mark \/ EndCleanup
    \/ FinallyRemove \/ End \/ PoolFails \/ Crash
    \/ \E r \in Remotes :
          \/ BeforeBackup(r) \/ EndBeforeBackup(r) \/ Prepare(r) \/ DeleteOldEntry(r)
          \/ WriteVhd(r) \/ WriteMetadata(r) \/ Chain(r) \/ UpdateUuid(r)
          \/ AfterBackup(r) \/ EndAfterBackup(r) \/ WriterFails(r) \/ TransferFails(r)
          \/ CacheDiverges(r) \/ OtherScan(r) \/ OtherClean(r)
          \/ \E k \in Runs : DeleteBackup(r, k)

Spec == Init /\ [][Next]_vars

-----------------------------------------------------------------------------
(* Properties *)

\* The pool, the remotes and the run keep their types.
TypeOK ==
    /\ untagged \cup snapshots \subseteq 1 .. now
    /\ untagged \cap snapshots = {}
    /\ exported \subseteq Runs
    /\ length \in [Runs -> 0 .. MaxRuns]
    /\ schedule \in [Runs -> Schedules \cup {None}]
    /\ {vhds, named, jsons, old, done, deleted, expired, listed} \subseteq [Remotes -> SUBSET Runs]
    /\ \A r \in Remotes : cache[r] = None \/ cache[r] \in SUBSET Runs
    /\ parent \in [Remotes -> [Runs -> Runs \cup {Full, Unchained}]]
    /\ \A r \in Remotes, k \in Runs : parent[r][k] < k \/ parent[r][k] = Unchained
    /\ step \in Steps
    /\ now \in 0 .. MaxRuns
    /\ failed \in BOOLEAN
    /\ {writers, held, busy, written, chained} \subseteq SUBSET Remotes
    /\ busy \subseteq writers \cup held
    /\ Locks => \A r \in Remotes : plan[r]["run"] # None => r \in held /\ plan[r]["other"] = None
    /\ base \in Runs \cup {None}
    /\ differencing \in BOOLEAN
    /\ faults \in 0 .. MaxFaults

\* A backup that a run reported as made on a remote is still listed there and
\* whole, unless the user deleted it, or there are as many newer ones of its
\* schedule as are to be kept.
BackupsKept ==
    \A r \in Remotes : \A k \in done[r] \ deleted[r] :
        LET newer == {j \in jsons[r] \cup deleted[r] : j > k /\ schedule[j] = schedule[k]}
        IN Cardinality(newer) < ExportRetention => k \in jsons[r] /\ IsWhole(r, k)

\* When a run ends well, no writer has more backups of its schedule than are to
\* be kept, whatever earlier runs that failed left: of those that the list named
\* when the run read it, a cache that may be wrong, and of its own.
RetentionReached ==
    step = "finally" /\ ~failed =>
        \A r \in writers :
            LET counted == {k \in jsons[r] \cap (listed[r] \cup {now}) : schedule[k] = schedule[now]}
            IN Cardinality(counted) <= ExportRetention

\* The number of VHDs in the chain of each.
Size(parents) ==
    LET size[k \in Runs] == IF parents[k] \in Runs THEN size[parents[k]] + 1 ELSE 1
    IN size

\* "the maximum length of a delta chain" (docs/docs/incremental_backups.md:62):
\* however backups fail, are deleted and merged, no VHD has a longer chain.
ChainBounded ==
    FullInterval # 0 =>
        \A r \in Remotes : \A k \in vhds[r] : Size(parent[r])[k] <= FullInterval

\* The last exported snapshot is a base for the next backup: each remote where
\* its backup was made, and not deleted since, has a VHD of that uuid and its
\* whole chain.
BaseReady ==
    \A k \in LastExported, r \in Remotes : k \in done[r] \ deleted[r] => HasBase(r, k)
=============================================================================
