----------------------------- MODULE MergeQueue -----------------------------
(***************************************************************************)
(* The queue of the VMs to merge, on a local remote: the backups that put  *)
(* tasks in it and start the worker (afterBackup() of                      *)
(* backups/_runners/_writers/_MixinRemoteWriter.mjs, run() of              *)
(* backups/merge-worker/index.mjs) and the worker, which retries the tasks *)
(* (backups/merge-worker/cli.mjs).  A task is a file that names a VM; each *)
(* attempt adds a _ before its name, until the name is too long.           *)
(*                                                                         *)
(* A merge is only asked for by a task: a backup that does not write its   *)
(* task, a worker that gives one up and a deletion by the user (RemoteAda- *)
(* pter.mjs:329, "will be merged in the next backup run") leave it to the  *)
(* next backup of the VM.                                                  *)
(*                                                                         *)
(* What cleanVm() does in the directory of a VM is CleanVm; here it        *)
(* succeeds or fails.  Task n is that of backup n.                         *)
(***************************************************************************)
EXTENDS Integers, FiniteSets, Sequences

CONSTANTS
    NTasks,       \* number of backups, each of which may queue a task
    VMs,          \* the VMs
    VmOf,         \* VmOf[n]: the VM of backup n
    Concurrency,  \* concurrency of the worker
    MaxPrefix,    \* number of _ that a file name may have
    MaxTries,     \* listings of an empty queue before the worker ends
    MaxSpawned,   \* bound: workers that are being started
    MaxFaults,    \* bound: cleanings and operations on tasks that fail, crashes of the
                  \* worker, of a backup or of a deletion, and deletions by the user
    None          \* no file

Tasks    == 1 .. NTasks
Underscores == 0 .. MaxPrefix

ASSUME MergeQueueAssumption ==
    /\ {NTasks, MaxPrefix, MaxFaults} \subseteq Nat
    /\ {Concurrency, MaxTries, MaxSpawned} \subseteq Nat \ {0}
    /\ VmOf \in [Tasks -> VMs]
    /\ None \notin Int

VARIABLES
    (* The repository. *)
    toMerge,   \* the VMs that have something to merge
    file,      \* file[n]: how many _ the name of task n has, None without file
    queueLock, \* lock of the queue: "free", "held", or "stale" once its holder crashed
    vmLock,    \* vmLock[v]: "free", "backup", "worker", "user" or "stale"
    (* The backups, and the deletions by the user. *)
    backup,    \* backup[n]: "waiting", "before", "running", "merging", "queued", "spawning" or "done"
    other,     \* backups of other VMs: "idle" or "spawning"
    deleting,  \* deleting[v]: the cleanVm() after a deletion is under way
    (* The worker that holds the lock of the queue. *)
    phase,     \* "off", "list", "batch" or "exit"
    tries,     \* listings that found nothing
    batch,     \* tasks listed and not begun, with their names
    item,      \* item[n]: "idle", "renamed" or "cleaning"
    unlinking, \* names of the tasks whose deletion was not awaited
    spawned,   \* workers that have not tried to take the lock yet
    (* History. *)
    late,      \* VMs whose backups were deleted since the merge under way began
    missed,    \* VMs with something to merge that no task asked for
    faults

repository == <<toMerge, file, queueLock, vmLock>>
backups    == <<backup, other, deleting>>
worker     == <<phase, tries, batch, item, unlinking>>
requests   == <<late, missed>>
history    == <<requests, faults>>
vars       == <<repository, backups, worker, spawned, history>>

Init ==
    /\ toMerge = {}
    /\ file = [n \in Tasks |-> None]
    /\ queueLock = "free"
    /\ vmLock = [v \in VMs |-> "free"]
    /\ backup = [n \in Tasks |-> "waiting"]
    /\ other = "idle"
    /\ deleting = [v \in VMs |-> FALSE]
    /\ phase = "off"
    /\ tries = 0
    /\ batch = <<>>
    /\ item = [n \in Tasks |-> "idle"]
    /\ unlinking = {}
    /\ spawned = 0
    /\ late = {}
    /\ missed = {}
    /\ faults = 0

-----------------------------------------------------------------------------
Fault == faults < MaxFaults /\ faults' = faults + 1

(* Backups. *)

\* cleanVm() has merged what it found: what the user deleted in the meantime
\* may be left.
Merged(v, left) ==
    /\ left => v \in late
    /\ toMerge' = IF left THEN toMerge ELSE toMerge \ {v}
    /\ missed' = IF left THEN missed ELSE missed \ {v}
    /\ late' = late \ {v}

\* beforeBackup(): a backup fails while the lock of its VM is held, and another
\* one is made later.
StartBackup(n) ==
    /\ backup[n] = "waiting"
    /\ vmLock[VmOf[n]] = "free"
    /\ backup' = [backup EXCEPT ![n] = "before"]
    /\ vmLock' = [vmLock EXCEPT ![VmOf[n]] = "backup"]
    /\ UNCHANGED <<toMerge, file, queueLock, other, deleting, worker, spawned, history>>

\* Then what is left to merge is merged.
EndBefore(n, left) ==
    /\ backup[n] = "before"
    /\ Merged(VmOf[n], left)
    /\ backup' = [backup EXCEPT ![n] = "running"]
    /\ UNCHANGED <<file, queueLock, vmLock, other, deleting, worker, spawned, faults>>

\* The error of that cleanVm() is only a warning.
BeforeFails(n) ==
    /\ backup[n] = "before"
    /\ Fault
    /\ late' = late \ {VmOf[n]}
    /\ backup' = [backup EXCEPT ![n] = "running"]
    /\ UNCHANGED <<repository, other, deleting, worker, spawned, missed>>

\* What a backup has to merge once it has deleted old ones, or not.
WithExpired(n, expired) == IF expired THEN toMerge \cup {VmOf[n]} ELSE toMerge

\* afterBackup(): cleanVm(merge: false) tells whether there is something to
\* merge; then the lock is released.
EndBackup(n, expired) ==
    /\ backup[n] = "running"
    /\ toMerge' = WithExpired(n, expired)
    /\ backup' = [backup EXCEPT ![n] = IF VmOf[n] \in toMerge' THEN "merging" ELSE "done"]
    /\ vmLock' = [vmLock EXCEPT ![VmOf[n]] = "free"]
    /\ UNCHANGED <<file, queueLock, other, deleting, worker, spawned, history>>

\* That cleanVm() fails: it is only a warning, and {} says that there is nothing
\* to merge.
EndBackupFails(n, expired) ==
    /\ backup[n] = "running"
    /\ Fault
    /\ toMerge' = WithExpired(n, expired)
    /\ missed' = IF expired THEN missed \cup {VmOf[n]} ELSE missed
    /\ backup' = [backup EXCEPT ![n] = "done"]
    /\ vmLock' = [vmLock EXCEPT ![VmOf[n]] = "free"]
    /\ UNCHANGED <<file, queueLock, other, deleting, worker, spawned, late>>

\* Mutant: the task is only written when a worker is to be started.
EnqueueIfFree(n) ==
    /\ backup[n] = "merging"
    /\ file' = IF queueLock = "free" THEN [file EXCEPT ![n] = 0] ELSE file
    /\ missed' = missed \ {VmOf[n]}
    /\ backup' = [backup EXCEPT ![n] = "queued"]
    /\ UNCHANGED <<toMerge, queueLock, vmLock, other, deleting, worker, spawned, late, faults>>

\* The task is written.
Enqueue(n) ==
    /\ backup[n] = "merging"
    /\ file' = [file EXCEPT ![n] = 0]
    /\ missed' = missed \ {VmOf[n]}
    /\ backup' = [backup EXCEPT ![n] = "queued"]
    /\ UNCHANGED <<toMerge, queueLock, vmLock, other, deleting, worker, spawned, late, faults>>

\* The task cannot be written: the backup ends with the error.
EnqueueFails(n) ==
    /\ backup[n] = "merging"
    /\ Fault
    /\ missed' = missed \cup ({VmOf[n]} \cap toMerge)
    /\ backup' = [backup EXCEPT ![n] = "done"]
    /\ UNCHANGED <<repository, other, deleting, worker, spawned, late>>

\* run(): check(), then spawn().  "TODO: find a way to pass the acquire the lock
\* and then pass it down the worker".
CheckLock(n) ==
    /\ backup[n] = "queued"
    /\ backup' = [backup EXCEPT ![n] = IF queueLock = "free" THEN "spawning" ELSE "done"]
    /\ UNCHANGED <<repository, other, deleting, worker, spawned, history>>

Spawn(n) ==
    /\ backup[n] = "spawning"
    /\ spawned < MaxSpawned
    /\ spawned' = spawned + 1
    /\ backup' = [backup EXCEPT ![n] = "done"]
    /\ UNCHANGED <<repository, other, deleting, worker, history>>

\* The process of the backup stops: the lock of its VM stays until it is too old.
CrashBackup(n, expired) ==
    /\ backup[n] \notin {"waiting", "done"}
    /\ expired => backup[n] = "running"
    /\ Fault
    /\ toMerge' = WithExpired(n, expired)
    /\ missed' = IF expired \/ backup[n] = "merging" THEN missed \cup ({VmOf[n]} \cap toMerge')
                                                      ELSE missed
    /\ late' = IF backup[n] = "before" THEN late \ {VmOf[n]} ELSE late
    /\ vmLock' = IF backup[n] \in {"before", "running"} THEN [vmLock EXCEPT ![VmOf[n]] = "stale"]
                                                       ELSE vmLock
    /\ backup' = [backup EXCEPT ![n] = "done"]
    /\ UNCHANGED <<file, queueLock, other, deleting, worker, spawned>>

\* The same after the backup of another VM; its task has no part here.
OtherCheckLock ==
    /\ other = "idle"
    /\ queueLock = "free"
    /\ other' = "spawning"
    /\ UNCHANGED <<repository, backup, deleting, worker, spawned, history>>

OtherSpawn ==
    /\ other = "spawning"
    /\ spawned < MaxSpawned
    /\ spawned' = spawned + 1
    /\ other' = "idle"
    /\ UNCHANGED <<repository, backup, deleting, worker, history>>

-----------------------------------------------------------------------------
(* Deletions by the user. *)

\* A cleanVm() that merges is under way.
Merging(v) == vmLock[v] = "worker" \/ \E n \in Tasks : VmOf[n] = v /\ backup[n] = "before"

\* deleteVmBackups(): the metadata of backups whose VHDs others need.  Nothing
\* asks for the merge: "unused VHDs will be merged in the next backup run".  Then
\* cleanVm(), which merges nothing, if it gets the lock: "don't error in case
\* this fails".
DeleteBackups(v) ==
    /\ ~deleting[v]
    /\ Fault
    /\ toMerge' = toMerge \cup {v}
    /\ missed' = missed \cup {v}
    /\ late' = IF Merging(v) THEN late \cup {v} ELSE late
    /\ IF vmLock[v] = "free"
       THEN vmLock' = [vmLock EXCEPT ![v] = "user"] /\ deleting' = [deleting EXCEPT ![v] = TRUE]
       ELSE UNCHANGED <<vmLock, deleting>>
    /\ UNCHANGED <<file, queueLock, backup, other, worker, spawned>>

EndDeletion(v, lock) ==
    /\ deleting[v]
    /\ vmLock' = [vmLock EXCEPT ![v] = lock]
    /\ deleting' = [deleting EXCEPT ![v] = FALSE]
    /\ UNCHANGED <<toMerge, file, queueLock, backup, other, worker, spawned, requests>>

EndUserClean(v) == EndDeletion(v, "free") /\ UNCHANGED faults

CrashUserClean(v) == EndDeletion(v, "stale") /\ Fault

-----------------------------------------------------------------------------
(* The worker. *)

\* handler.lock(): without the lock, the process ends.
StartWorker ==
    /\ spawned > 0
    /\ spawned' = spawned - 1
    /\ IF queueLock = "free"
       THEN queueLock' = "held" /\ phase' = "list" /\ tries' = 0
       ELSE UNCHANGED <<queueLock, phase, tries>>
    /\ UNCHANGED <<toMerge, file, vmLock, backups, batch, item, unlinking, history>>

Queued == {n \in Tasks : file[n] # None}

\* entries.sort(): dates come before _, so that the tasks that failed come last.
Before(a, b) == a[2] < b[2] \/ (a[2] = b[2] /\ a[1] < b[1])

Names == {<<n, file[n]>> : n \in Queued}

Sorted ==
    CHOOSE entries \in [1 .. Cardinality(Names) -> Names] :
        \A i, j \in DOMAIN entries : i < j => Before(entries[i], entries[j])

\* listRetry(): the worker ends when the queue stays empty.
List ==
    /\ phase = "list"
    /\ batch' = Sorted
    /\ IF Queued # {}
       THEN phase' = "batch" /\ tries' = 0
       ELSE tries' = tries + 1 /\ phase' = IF tries + 1 = MaxTries THEN "exit" ELSE "list"
    /\ UNCHANGED <<repository, backups, item, unlinking, spawned, history>>

\* Mutant: the lock of the queue is not released.
ExitLocked ==
    /\ phase = "exit"
    /\ phase' = "off"
    /\ tries' = 0
    /\ UNCHANGED <<repository, backups, batch, item, unlinking, spawned, history>>

Exit ==
    /\ phase = "exit"
    /\ phase' = "off"
    /\ tries' = 0
    /\ queueLock' = "free"
    /\ UNCHANGED <<toMerge, file, vmLock, backups, batch, item, unlinking, spawned, history>>

Running == {n \in Tasks : item[n] # "idle"}

\* The process ends with everything it was doing; the deletions it had begun
\* may be done or not.
Stop(lock, deleted) ==
    /\ phase' = "off"
    /\ tries' = 0
    /\ batch' = <<>>
    /\ item' = [n \in Tasks |-> "idle"]
    /\ unlinking' = {}
    /\ queueLock' = lock
    /\ vmLock' = [v \in VMs |-> IF vmLock[v] = "worker" THEN lock ELSE vmLock[v]]
    /\ late' = {v \in late : vmLock[v] # "worker"}
    /\ file' = [n \in Tasks |-> IF <<n, file[n]>> \in deleted THEN None ELSE file[n]]

\* asyncEach() begins a task: "move this task to the end".
Rename(n) ==
    /\ phase = "batch" /\ batch # <<>> /\ batch[1] = <<n, file[n]>>
    /\ Cardinality(Running) < Concurrency
    /\ file[n] # None /\ file[n] < MaxPrefix
    /\ file' = [file EXCEPT ![n] = @ + 1]
    /\ item' = [item EXCEPT ![n] = "renamed"]
    /\ batch' = Tail(batch)
    /\ UNCHANGED <<toMerge, queueLock, vmLock, backups, phase, tries, unlinking, spawned, history>>

\* Mutant: the task stays.
DropNothing(n, deleted) ==
    /\ phase = "batch" /\ batch # <<>> /\ batch[1] = <<n, file[n]>>
    /\ Cardinality(Running) < Concurrency
    /\ file[n] = MaxPrefix
    /\ Stop("free", deleted)
    /\ UNCHANGED <<toMerge, backups, spawned, missed, faults>>

\* ENAMETOOLONG: the task is deleted; the error ends the worker.
Drop(n, deleted) ==
    /\ phase = "batch" /\ batch # <<>> /\ batch[1] = <<n, file[n]>>
    /\ Cardinality(Running) < Concurrency
    /\ file[n] = MaxPrefix
    /\ missed' = missed \cup ({VmOf[n]} \cap toMerge)
    /\ Stop("free", deleted \cup {batch[1]})
    /\ UNCHANGED <<toMerge, backups, spawned, faults>>

\* ENOENT: the file was deleted after it was listed; the error ends the worker.
RenameMissing(n, deleted) ==
    /\ phase = "batch" /\ batch # <<>> /\ batch[1][1] = n /\ file[n] = None
    /\ Cardinality(Running) < Concurrency
    /\ Stop("free", deleted)
    /\ UNCHANGED <<toMerge, backups, spawned, missed, faults>>

\* Mutant: the VM is cleaned without its lock.
CleanUnlocked(n) ==
    /\ item[n] = "renamed"
    /\ vmLock' = [vmLock EXCEPT ![VmOf[n]] = "worker"]
    /\ item' = [item EXCEPT ![n] = "cleaning"]
    /\ UNCHANGED <<toMerge, file, queueLock, backups, phase, tries, batch, unlinking, spawned, history>>

\* cleanVm() takes the lock of the VM.  When it is held, the task stays.
StartClean(n) ==
    /\ item[n] = "renamed"
    /\ IF vmLock[VmOf[n]] = "free"
       THEN /\ vmLock' = [vmLock EXCEPT ![VmOf[n]] = "worker"]
            /\ item' = [item EXCEPT ![n] = "cleaning"]
       ELSE item' = [item EXCEPT ![n] = "idle"] /\ UNCHANGED vmLock
    /\ UNCHANGED <<toMerge, file, queueLock, backups, phase, tries, batch, unlinking, spawned, history>>

Leave(n) ==
    /\ item' = [item EXCEPT ![n] = "idle"]
    /\ vmLock' = [vmLock EXCEPT ![VmOf[n]] = "free"]

\* The VM is merged; the deletion of the task is not awaited.
EndClean(n, left) ==
    /\ item[n] = "cleaning"
    /\ Merged(VmOf[n], left)
    /\ unlinking' = unlinking \cup {<<n, file[n]>>}
    /\ Leave(n)
    /\ UNCHANGED <<file, queueLock, backups, phase, tries, batch, spawned, faults>>

\* Mutant: the task is deleted although the cleaning failed.
FailureUnlinks(n) ==
    /\ item[n] = "cleaning"
    /\ Fault
    /\ late' = late \ {VmOf[n]}
    /\ unlinking' = unlinking \cup {<<n, file[n]>>}
    /\ Leave(n)
    /\ UNCHANGED <<toMerge, file, queueLock, backups, phase, tries, batch, spawned, missed>>

\* The error is only a warning: the task stays.
CleanFails(n) ==
    /\ item[n] = "cleaning"
    /\ Fault
    /\ late' = late \ {VmOf[n]}
    /\ Leave(n)
    /\ UNCHANGED <<toMerge, file, queueLock, backups, phase, tries, batch, unlinking, spawned, missed>>

\* The task is deleted, unless it was renamed in the meantime.
Unlink(n, p) ==
    /\ <<n, p>> \in unlinking
    /\ unlinking' = unlinking \ {<<n, p>>}
    /\ file' = IF file[n] = p THEN [file EXCEPT ![n] = None] ELSE file
    /\ UNCHANGED <<toMerge, queueLock, vmLock, backups, phase, tries, batch, item, spawned, history>>

UnlinkFails(n, p) ==
    /\ <<n, p>> \in unlinking
    /\ Fault
    /\ unlinking' = unlinking \ {<<n, p>>}
    /\ UNCHANGED <<repository, backups, phase, tries, batch, item, spawned, requests>>

EndBatch ==
    /\ phase = "batch" /\ batch = <<>> /\ Running = {}
    /\ phase' = "list"
    /\ UNCHANGED <<repository, backups, tries, batch, item, unlinking, spawned, history>>

\* The process is killed: its locks stay until they are too old.
Crash(deleted) ==
    /\ phase # "off"
    /\ Fault
    /\ Stop("stale", deleted)
    /\ UNCHANGED <<toMerge, backups, spawned, missed>>

ExpireQueueLock ==
    /\ queueLock = "stale"
    /\ queueLock' = "free"
    /\ UNCHANGED <<toMerge, file, vmLock, backups, worker, spawned, history>>

ExpireVmLock(v) ==
    /\ vmLock[v] = "stale"
    /\ vmLock' = [vmLock EXCEPT ![v] = "free"]
    /\ UNCHANGED <<toMerge, file, queueLock, backups, worker, spawned, history>>

-----------------------------------------------------------------------------
(* Specification. *)

Backup(n) ==
    \/ StartBackup(n)
    \/ \E left \in BOOLEAN : EndBefore(n, left)
    \/ \E expired \in BOOLEAN : EndBackup(n, expired)
    \/ Enqueue(n) \/ CheckLock(n) \/ Spawn(n)

Begin(n) ==
    \/ Rename(n)
    \/ \E deleted \in SUBSET unlinking : Drop(n, deleted) \/ RenameMissing(n, deleted)

Clean(n) == StartClean(n) \/ \E left \in BOOLEAN : EndClean(n, left)

\* What fails or stops of a backup.
BackupFault(n) ==
    \/ BeforeFails(n) \/ EnqueueFails(n)
    \/ \E expired \in BOOLEAN : EndBackupFails(n, expired) \/ CrashBackup(n, expired)

OtherBackup == OtherCheckLock \/ OtherSpawn

Worker == (\E n \in Tasks : Begin(n)) \/ StartWorker \/ List \/ EndBatch \/ Exit

Expire == ExpireQueueLock \/ \E v \in VMs : ExpireVmLock(v)

Next ==
    \/ \E n \in Tasks : Backup(n) \/ BackupFault(n) \/ Clean(n) \/ CleanFails(n)
    \/ \E v \in VMs : DeleteBackups(v) \/ EndUserClean(v) \/ CrashUserClean(v)
    \/ \E n \in Tasks, p \in Underscores : Unlink(n, p) \/ UnlinkFails(n, p)
    \/ OtherBackup
    \/ Worker
    \/ \E deleted \in SUBSET unlinking : Crash(deleted)
    \/ Expire

\* The processes run, locks expire (proper-lockfile's stale), and backups of the
\* other VMs are made again and again, by schedules.
Fairness ==
    /\ \A n \in Tasks : WF_vars(Backup(n) /\ backup[n] # "waiting") /\ WF_vars(Clean(n))
    /\ \A v \in VMs : WF_vars(EndUserClean(v))
    /\ WF_vars(OtherBackup)
    /\ WF_vars(Worker)
    /\ WF_vars(\E n \in Tasks, p \in Underscores : Unlink(n, p))
    /\ WF_vars(Expire)

Spec == Init /\ [][Next]_vars /\ Fairness

-----------------------------------------------------------------------------
(* Properties. *)

\* The state has the types that the actions rely on; the worker's state is only
\* there while it holds the lock of the queue.
TypeOK ==
    /\ toMerge \subseteq VMs
    /\ file \in [Tasks -> Underscores \cup {None}]
    /\ queueLock \in {"free", "held", "stale"}
    /\ vmLock \in [VMs -> {"free", "backup", "worker", "user", "stale"}]
    /\ backup \in [Tasks -> {"waiting", "before", "running", "merging", "queued", "spawning", "done"}]
    /\ other \in {"idle", "spawning"}
    /\ deleting \in [VMs -> BOOLEAN]
    /\ phase \in {"off", "list", "batch", "exit"}
    /\ tries \in 0 .. MaxTries
    /\ batch \in Seq(Tasks \X Underscores)
    /\ item \in [Tasks -> {"idle", "renamed", "cleaning"}]
    /\ unlinking \subseteq Tasks \X Underscores
    /\ spawned \in 0 .. MaxSpawned
    /\ late \subseteq VMs /\ missed \subseteq toMerge
    /\ faults \in 0 .. MaxFaults
    /\ queueLock = "held" <=> phase # "off"

\* Task n will have its VM cleaned: it is in the queue, not about to be deleted,
\* or about to be written.
Remembers(n) ==
    \/ backup[n] = "merging"
    \/ file[n] # None /\ <<n, file[n]>> \notin unlinking

\* The queue forgets no merge: a VM with something to merge has a task in the
\* queue, or to be written, whatever the worker, its failures and its crashes
\* do; but for what nobody asked for (missed): the user deleted backups, or the
\* last backup to have something to merge failed to say so, or stopped before it
\* wrote its task, or its task was dropped after too many failures.
MergeRemembered ==
    \A v \in toMerge \ missed : \E n \in Tasks : VmOf[n] = v /\ Remembers(n)

\* A VM is cleaned by one task at a time, never while it is backed up or cleaned
\* after a deletion, even when the worker has several tasks of that VM.
CleanedAlone ==
    \A n \in Tasks : item[n] = "cleaning" =>
        /\ vmLock[VmOf[n]] = "worker"
        /\ ~deleting[VmOf[n]]
        /\ \A k \in Tasks \ {n} : item[k] = "cleaning" => VmOf[k] # VmOf[n]
        /\ \A k \in Tasks : backup[k] \in {"before", "running"} => VmOf[k] # VmOf[n]

\* Every task ends, done or dropped, whatever stops the worker: a task the
\* worker missed is handled after a later backup.
Drained == <>[](\A n \in Tasks : file[n] = None)

\* A VM with something to merge is merged, unless nobody asks for it any more: the
\* task was dropped or never written, or the user deleted backups, since the last
\* backup that asked.
MergedInTheEnd == <>[](toMerge \subseteq missed)

=============================================================================
