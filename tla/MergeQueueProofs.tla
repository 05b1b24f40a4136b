-------------------------- MODULE MergeQueueProofs --------------------------
(***************************************************************************)
(* No merge is forgotten by the queue of MergeQueue, and no two processes  *)
(* are in the directory of one VM: proofs of MergeRemembered and           *)
(* CleanedAlone; and its types, with the sorting of the queue.             *)
(***************************************************************************)
EXTENDS MergeQueue, FiniteSetTheorems, TLAPS

\* The part of TypeOK that the proofs use.
Types ==
    /\ toMerge \subseteq VMs /\ missed \subseteq toMerge /\ late \subseteq VMs
    /\ file \in [Tasks -> Underscores \cup {None}]
    /\ vmLock \in [VMs -> {"free", "backup", "worker", "user", "stale"}]
    /\ deleting \in [VMs -> BOOLEAN]
    /\ backup \in [Tasks -> {"waiting", "before", "running", "merging", "queued", "spawning", "done"}]
    /\ item \in [Tasks -> {"idle", "renamed", "cleaning"}]
    /\ unlinking \subseteq Tasks \X Underscores

\* A task that is not written yet has left no trace.
Unwritten ==
    \A n \in Tasks : backup[n] \in {"waiting", "before", "running", "merging"} =>
        file[n] = None /\ \A p \in Underscores : <<n, p>> \notin unlinking

\* The names under which a task is to be deleted are not longer than its own.
OlderNames ==
    \A n \in Tasks, p \in Underscores : <<n, p>> \in unlinking /\ file[n] # None => p <= file[n]

\* A task that is being handled has a file, which is not about to be deleted.
Handled ==
    \A n \in Tasks : item[n] # "idle" => file[n] # None /\ <<n, file[n]>> \notin unlinking

\* A backup that holds the lock of its VM.
Holding(n) == backup[n] \in {"before", "running"}

\* The lock of a VM tells who is in its directory.
Locked ==
    /\ \A n \in Tasks : item[n] = "cleaning" => vmLock[VmOf[n]] = "worker"
    /\ \A n \in Tasks : Holding(n) => vmLock[VmOf[n]] = "backup"
    /\ \A v \in VMs : deleting[v] => vmLock[v] = "user"
    /\ \A n, k \in Tasks : item[n] = "cleaning" /\ item[k] = "cleaning" /\ n # k => VmOf[n] # VmOf[k]
    /\ \A n, k \in Tasks : Holding(n) /\ Holding(k) /\ n # k => VmOf[n] # VmOf[k]

\* What is deleted during a merge, which may leave it, is asked for by another
\* task than that of the merge, or by nobody.
Asked(n) == Remembers(n) /\ ~ (item[n] = "cleaning" /\ VmOf[n] \in late)

MergeAsked == \A v \in toMerge \ missed : \E n \in Tasks : VmOf[n] = v /\ Asked(n)

\* Only deletions during a merge are late.
LateMerging == \A v \in late : Merging(v)

\* The inductive invariant: Unwritten and OlderNames keep a name that is to be
\* deleted from becoming that of a task that is still needed; MergeAsked is
\* MergeRemembered without the task of a merge that may leave something.
IInv == Types /\ Unwritten /\ OlderNames /\ Handled /\ Locked /\ MergeAsked

LEMMA IntervalCardinality ==
  ASSUME NEW n \in Nat
  PROVE  IsFiniteSet(1 .. n) /\ Cardinality(1 .. n) = n
<1>1. IsFiniteSet(1 .. n)
  BY FS_Interval
<1>2. Cardinality(1 .. n) = n
  BY FS_Interval
<1>. QED BY <1>1, <1>2

USE MergeQueueAssumption DEF Tasks, Underscores

-----------------------------------------------------------------------------

LEMMA MaxPrefixNat == MaxPrefix \in Nat
  OBVIOUS

LEMMA Bounds == NTasks \in Nat /\ MaxFaults \in Nat /\ MaxTries \in Nat \ {0} /\ MaxSpawned \in Nat \ {0}
  OBVIOUS

LEMMA InitInv == Init => IInv
  BY DEF Init, IInv, Types, Unwritten, OlderNames, Handled, Locked, Holding, MergeAsked

\* A merge stays remembered when no task that is needed is forgotten.
LEMMA StillRemembered ==
  ASSUME MergeAsked, toMerge' \ missed' \subseteq toMerge \ missed,
         \A n \in Tasks : Asked(n) /\ VmOf[n] \in toMerge' \ missed' => Asked(n)'
  PROVE  MergeAsked'
<1>. SUFFICES ASSUME NEW v \in toMerge' \ missed'
              PROVE  \E n \in Tasks : VmOf[n] = v /\ Asked(n)'
  BY DEF MergeAsked
<1>1. PICK n \in Tasks : VmOf[n] = v /\ Asked(n)
  BY DEF MergeAsked
<1>. QED BY <1>1

\* What the user did not delete in the meantime is merged.
LEMMA MergedVm ==
  ASSUME Types, NEW v \in VMs, NEW left \in BOOLEAN, Merged(v, left)
  PROVE  /\ toMerge' \subseteq VMs /\ missed' \subseteq toMerge' /\ late' \subseteq VMs
         /\ toMerge' \ missed' \subseteq toMerge \ missed
  BY DEF Types, Merged

\* Who holds the lock of a VM alone may give it up.
LEMMA Released ==
  ASSUME IInv, NEW v \in VMs, NEW lock \in {"free", "stale"},
         vmLock' = [vmLock EXCEPT ![v] = lock],
         \A n \in Tasks : item'[n] = "cleaning" => item[n] = "cleaning" /\ VmOf[n] # v,
         \A n \in Tasks : Holding(n)' => Holding(n) /\ VmOf[n] # v,
         \A w \in VMs : deleting'[w] => deleting[w] /\ w # v
  PROVE  Locked'
<1>1. \A w \in VMs : w # v => vmLock'[w] = vmLock[w]
  BY DEF IInv, Types
<1>2. \A n \in Tasks : VmOf[n] \in VMs
  OBVIOUS
<1>3. \A n \in Tasks : item'[n] = "cleaning" => vmLock'[VmOf[n]] = "worker"
  BY <1>1, <1>2 DEF IInv, Locked
<1>4. \A n \in Tasks : Holding(n)' => vmLock'[VmOf[n]] = "backup"
  BY <1>1, <1>2 DEF IInv, Locked
<1>5. \A w \in VMs : deleting'[w] => vmLock'[w] = "user"
  BY <1>1 DEF IInv, Locked
<1>6. /\ \A n, k \in Tasks : item'[n] = "cleaning" /\ item'[k] = "cleaning" /\ n # k => VmOf[n] # VmOf[k]
      /\ \A n, k \in Tasks : Holding(n)' /\ Holding(k)' /\ n # k => VmOf[n] # VmOf[k]
  BY DEF IInv, Locked
<1>. QED BY <1>3, <1>4, <1>5, <1>6 DEF Locked

\* A backup that ends while it holds the lock.
LEMMA ReleasedByBackup ==
  ASSUME IInv, NEW n \in Tasks, Holding(n), NEW lock \in {"free", "stale"},
         vmLock' = [vmLock EXCEPT ![VmOf[n]] = lock], UNCHANGED <<item, deleting>>,
         NEW state \in {"merging", "done"}, backup' = [backup EXCEPT ![n] = state]
  PROVE  Locked'
<1>1. \A k \in Tasks : item[k] = "cleaning" => VmOf[k] # VmOf[n]
  BY DEF IInv, Locked
<1>2. \A k \in Tasks : Holding(k)' => Holding(k) /\ VmOf[k] # VmOf[n]
  BY DEF IInv, Types, Locked, Holding
<1>3. ~deleting[VmOf[n]] /\ VmOf[n] \in VMs
  BY DEF IInv, Locked
<1>. QED BY <1>1, <1>2, <1>3, Released

\* The actions of the backups keep the invariant.
LEMMA BackupInv ==
  ASSUME IInv, NEW n \in Tasks, Backup(n)
  PROVE  IInv'
<1>. USE DEF IInv, repository, backups, worker, requests, history
<1>1. CASE StartBackup(n)
  <2>1. Types'
    BY <1>1 DEF StartBackup, Types
  <2>2. Unwritten' /\ OlderNames' /\ Handled'
    BY <1>1 DEF StartBackup, Types, Unwritten, OlderNames, Handled
  <2>3. Locked'
    <3>1. /\ vmLock[VmOf[n]] = "free" /\ vmLock' = [vmLock EXCEPT ![VmOf[n]] = "backup"]
          /\ UNCHANGED <<item, deleting>> /\ backup' = [backup EXCEPT ![n] = "before"]
      BY <1>1 DEF StartBackup
    <3>2. vmLock'[VmOf[n]] = "backup" /\ \A v \in VMs : v # VmOf[n] => vmLock'[v] = vmLock[v]
      BY <3>1 DEF Types
    <3>3. \A k \in Tasks : item[k] = "cleaning" \/ Holding(k) => VmOf[k] # VmOf[n]
      BY <3>1 DEF Locked
    <3>4. ~deleting[VmOf[n]]
      BY <3>1 DEF Locked
    <3>5. \A k \in Tasks : Holding(k)' => k = n \/ Holding(k)
      BY <3>1 DEF Types, Holding
    <3>6. /\ \A k \in Tasks : item'[k] = "cleaning" => vmLock'[VmOf[k]] = "worker"
          /\ \A k \in Tasks : Holding(k)' => vmLock'[VmOf[k]] = "backup"
      BY <3>1, <3>2, <3>3, <3>5 DEF Locked
    <3>7. \A v \in VMs : deleting'[v] => vmLock'[v] = "user"
      BY <3>1, <3>2, <3>4 DEF Locked
    <3>8. /\ \A k, m \in Tasks : item'[k] = "cleaning" /\ item'[m] = "cleaning" /\ k # m => VmOf[k] # VmOf[m]
          /\ \A k, m \in Tasks : Holding(k)' /\ Holding(m)' /\ k # m => VmOf[k] # VmOf[m]
      BY <3>1, <3>3, <3>5 DEF Locked
    <3>. QED BY <3>6, <3>7, <3>8 DEF Locked
  <2>4. MergeAsked'
    BY <1>1, StillRemembered DEF StartBackup, Types, Asked, Remembers
  <2>. QED BY <2>1, <2>2, <2>3, <2>4
<1>2. ASSUME NEW left \in BOOLEAN, EndBefore(n, left) PROVE IInv'
  <2>1. /\ toMerge' \subseteq VMs /\ missed' \subseteq toMerge' /\ late' \subseteq VMs
        /\ toMerge' \ missed' \subseteq toMerge \ missed
    BY <1>2, MergedVm DEF EndBefore
  <2>2. Types' /\ Unwritten' /\ OlderNames' /\ Handled'
    BY <1>2, <2>1 DEF EndBefore, Types, Unwritten, OlderNames, Handled
  <2>3. Locked'
    BY <1>2 DEF EndBefore, Types, Locked, Holding
  <2>4. MergeAsked'
    <3>1. late' \subseteq late /\ UNCHANGED <<file, unlinking, item>>
      BY <1>2 DEF EndBefore, Merged
    <3>2. \A k \in Tasks : backup[k] = "merging" => backup'[k] = "merging"
      BY <1>2 DEF EndBefore, Types
    <3>. QED BY <2>1, <3>1, <3>2, StillRemembered DEF Asked, Remembers
  <2>. QED BY <2>2, <2>3, <2>4
<1>3. ASSUME NEW expired \in BOOLEAN, EndBackup(n, expired) PROVE IInv'
  <2>1. Types'
    BY <1>3 DEF EndBackup, WithExpired, Types
  <2>2. Unwritten' /\ OlderNames' /\ Handled'
    BY <1>3 DEF EndBackup, Types, Unwritten, OlderNames, Handled
  <2>3. Locked'
    <3>1. Holding(n) /\ UNCHANGED <<item, deleting>> /\ vmLock' = [vmLock EXCEPT ![VmOf[n]] = "free"]
      BY <1>3 DEF EndBackup, Holding
    <3>2. \E state \in {"merging", "done"} : backup' = [backup EXCEPT ![n] = state]
      BY <1>3 DEF EndBackup
    <3>. QED BY <3>1, <3>2, ReleasedByBackup
  <2>4. MergeAsked'
    <3>1. SUFFICES ASSUME NEW v \in toMerge' \ missed'
                   PROVE  \E k \in Tasks : VmOf[k] = v /\ Asked(k)'
      BY DEF MergeAsked
    <3>2. UNCHANGED <<file, unlinking, item, late, missed>>
      BY <1>3 DEF EndBackup
    <3>3. CASE v = VmOf[n]
      <4>1. backup'[n] = "merging" /\ item[n] # "cleaning"
        BY <1>3, <3>1, <3>3 DEF EndBackup, Types, Handled, Unwritten
      <4>2. Asked(n)'
        BY <3>2, <4>1 DEF Asked, Remembers
      <4>. QED BY <3>3, <4>2
    <3>4. CASE v # VmOf[n]
      <4>1. PICK k \in Tasks : VmOf[k] = v /\ Asked(k)
        BY <1>3, <3>1, <3>2, <3>4 DEF EndBackup, WithExpired, MergeAsked
      <4>2. backup'[k] = backup[k]
        BY <1>3, <3>4, <4>1 DEF EndBackup, Types
      <4>. QED BY <3>2, <4>1, <4>2 DEF Asked, Remembers
    <3>. QED BY <3>3, <3>4
  <2>. QED BY <2>1, <2>2, <2>3, <2>4
<1>4. CASE Enqueue(n)
  <2>1. Types'
    BY <1>4 DEF Enqueue, Types
  <2>2. Unwritten' /\ OlderNames' /\ Handled'
    BY <1>4 DEF Enqueue, Types, Unwritten, OlderNames, Handled
  <2>3. Locked'
    BY <1>4 DEF Enqueue, Types, Locked, Holding
  <2>4. MergeAsked'
    <3>1. SUFFICES ASSUME NEW v \in toMerge' \ missed'
                   PROVE  \E k \in Tasks : VmOf[k] = v /\ Asked(k)'
      BY DEF MergeAsked
    <3>2. CASE v = VmOf[n]
      <4>1. file'[n] = 0 /\ 0 \in Underscores /\ UNCHANGED unlinking
        BY <1>4, MaxPrefixNat DEF Enqueue, Types
      <4>2. <<n, 0>> \notin unlinking
        BY <1>4, <4>1 DEF Enqueue, Unwritten
      <4>3. 0 # None
        OBVIOUS
      <4>4. item'[n] # "cleaning"
        BY <1>4 DEF Enqueue, Handled, Unwritten
      <4>5. Asked(n)'
        BY <4>1, <4>2, <4>3, <4>4 DEF Asked, Remembers
      <4>. QED BY <3>2, <4>5
    <3>3. CASE v # VmOf[n]
      <4>1. PICK k \in Tasks : VmOf[k] = v /\ Asked(k)
        BY <1>4, <3>1, <3>3 DEF MergeAsked, Enqueue
      <4>2. file'[k] = file[k] /\ backup'[k] = backup[k] /\ UNCHANGED <<unlinking, item, late>>
        BY <1>4, <3>3, <4>1 DEF Enqueue, Types
      <4>. QED BY <4>1, <4>2 DEF Asked, Remembers
    <3>. QED BY <3>2, <3>3
  <2>. QED BY <2>1, <2>2, <2>3, <2>4
<1>5. CASE CheckLock(n) \/ Spawn(n)
  <2>1. Types'
    BY <1>5 DEF CheckLock, Spawn, Types
  <2>2. Unwritten' /\ OlderNames' /\ Handled'
    <3>1. CASE CheckLock(n)
      BY <3>1 DEF CheckLock, Types, Unwritten, OlderNames, Handled
    <3>2. CASE Spawn(n)
      BY <3>2 DEF Spawn, Types, Unwritten, OlderNames, Handled
    <3>. QED BY <1>5, <3>1, <3>2
  <2>3. Locked'
    <3>1. UNCHANGED <<vmLock, item, deleting>> /\ \A k \in Tasks : Holding(k)' => Holding(k)
      BY <1>5 DEF CheckLock, Spawn, Types, Holding
    <3>. QED BY <3>1 DEF Locked
  <2>4. MergeAsked'
    <3>1. UNCHANGED <<toMerge, missed, file, unlinking, item, late>>
      BY <1>5 DEF CheckLock, Spawn
    <3>2. \A k \in Tasks : backup[k] = "merging" => backup'[k] = "merging"
      BY <1>5 DEF CheckLock, Spawn, Types
    <3>. QED BY <3>1, <3>2, StillRemembered DEF Asked, Remembers
  <2>. QED BY <2>1, <2>2, <2>3, <2>4
<1>. QED BY <1>1, <1>2, <1>3, <1>4, <1>5 DEF Backup

\* What fails or stops of a backup keeps the invariant.
LEMMA BackupFaultInv ==
  ASSUME IInv, NEW n \in Tasks, BackupFault(n)
  PROVE  IInv'
<1>. USE DEF IInv, repository, backups, worker, requests, history
<1>1. CASE BeforeFails(n)
  <2>1. Types' /\ Unwritten' /\ OlderNames' /\ Handled'
    BY <1>1 DEF BeforeFails, Types, Unwritten, OlderNames, Handled
  <2>2. Locked'
    BY <1>1 DEF BeforeFails, Types, Locked, Holding
  <2>3. MergeAsked'
    BY <1>1, StillRemembered DEF BeforeFails, Types, Asked, Remembers
  <2>. QED BY <2>1, <2>2, <2>3
<1>2. CASE EnqueueFails(n)
  <2>1. Types' /\ Unwritten' /\ OlderNames' /\ Handled'
    BY <1>2 DEF EnqueueFails, Types, Unwritten, OlderNames, Handled
  <2>2. Locked'
    BY <1>2 DEF EnqueueFails, Types, Locked, Holding
  <2>3. MergeAsked'
    BY <1>2, StillRemembered DEF EnqueueFails, Types, Asked, Remembers
  <2>. QED BY <2>1, <2>2, <2>3
<1>3. ASSUME NEW expired \in BOOLEAN, EndBackupFails(n, expired) PROVE IInv'
  <2>1. Types' /\ Unwritten' /\ OlderNames' /\ Handled'
    BY <1>3 DEF EndBackupFails, WithExpired, Types, Unwritten, OlderNames, Handled
  <2>2. Locked'
    BY <1>3, ReleasedByBackup DEF EndBackupFails, Holding
  <2>3. MergeAsked'
    BY <1>3, StillRemembered DEF EndBackupFails, WithExpired, Types, Asked, Remembers
  <2>. QED BY <2>1, <2>2, <2>3
<1>4. ASSUME NEW expired \in BOOLEAN, CrashBackup(n, expired) PROVE IInv'
  <2>1. toMerge' \subseteq VMs /\ missed' \subseteq toMerge' /\ toMerge' \ missed' \subseteq toMerge \ missed
    BY <1>4 DEF CrashBackup, WithExpired, Types
  <2>2. Types' /\ Unwritten' /\ OlderNames' /\ Handled'
    BY <1>4, <2>1 DEF CrashBackup, Types, Unwritten, OlderNames, Handled
  <2>3. Locked'
    <3>1. CASE Holding(n)
      BY <1>4, <3>1, ReleasedByBackup DEF CrashBackup, Holding
    <3>2. CASE ~Holding(n)
      <4>1. UNCHANGED <<vmLock, item, deleting>> /\ \A k \in Tasks : Holding(k)' => Holding(k)
        BY <1>4, <3>2 DEF CrashBackup, Types, Holding
      <4>. QED BY <4>1 DEF Locked
    <3>. QED BY <3>1, <3>2
  <2>4. MergeAsked'
    <3>1. UNCHANGED <<file, unlinking, item>> /\ late' \subseteq late /\ \A k \in Tasks : k # n => backup'[k] = backup[k]
      BY <1>4 DEF CrashBackup, Types
    <3>2. backup[n] = "merging" => VmOf[n] \notin toMerge' \ missed'
      BY <1>4 DEF CrashBackup
    <3>. QED BY <2>1, <3>1, <3>2, StillRemembered DEF Asked, Remembers
  <2>. QED BY <2>2, <2>3, <2>4
<1>. QED BY <1>1, <1>2, <1>3, <1>4 DEF BackupFault

\* The deletions by the user keep the invariant: nobody asked for what they leave.
LEMMA DeletionInv ==
  ASSUME IInv, NEW v \in VMs, DeleteBackups(v) \/ EndUserClean(v) \/ CrashUserClean(v)
  PROVE  IInv'
<1>. USE DEF IInv, repository, backups, worker, requests, history
<1>1. CASE DeleteBackups(v)
  <2>1. Types'
    BY <1>1 DEF DeleteBackups, Types
  <2>2. Unwritten' /\ OlderNames' /\ Handled'
    BY <1>1 DEF DeleteBackups, Unwritten, OlderNames, Handled
  <2>3. Locked'
    <3>1. CASE vmLock[v] = "free"
      <4>1. /\ vmLock' = [vmLock EXCEPT ![v] = "user"] /\ deleting' = [deleting EXCEPT ![v] = TRUE]
            /\ UNCHANGED <<item, backup>>
        BY <1>1, <3>1 DEF DeleteBackups
      <4>2. vmLock'[v] = "user" /\ \A w \in VMs : w # v => vmLock'[w] = vmLock[w] /\ deleting'[w] = deleting[w]
        BY <4>1 DEF Types
      <4>3. \A k \in Tasks : item[k] = "cleaning" \/ Holding(k) => VmOf[k] # v
        BY <3>1 DEF Locked
      <4>4. \A k \in Tasks : Holding(k)' = Holding(k)
        BY <4>1 DEF Holding
      <4>. QED BY <4>1, <4>2, <4>3, <4>4 DEF Locked
    <3>2. CASE vmLock[v] # "free"
      BY <1>1, <3>2 DEF DeleteBackups, Locked, Holding
    <3>. QED BY <3>1, <3>2
  <2>4. MergeAsked'
    BY <1>1, StillRemembered DEF DeleteBackups, Asked, Remembers
  <2>. QED BY <2>1, <2>2, <2>3, <2>4
<1>2. ASSUME NEW lock \in {"free", "stale"}, EndDeletion(v, lock) PROVE IInv'
  <2>1. Types' /\ Unwritten' /\ OlderNames' /\ Handled'
    BY <1>2 DEF EndDeletion, Types, Unwritten, OlderNames, Handled
  <2>2. Locked'
    <3>1. \A k \in Tasks : item[k] = "cleaning" \/ Holding(k) => VmOf[k] # v
      BY <1>2 DEF EndDeletion, Locked
    <3>2. \A w \in VMs : deleting'[w] => deleting[w] /\ w # v
      BY <1>2 DEF EndDeletion, Types
    <3>. QED BY <1>2, <3>1, <3>2, Released DEF EndDeletion, Holding
  <2>3. MergeAsked'
    BY <1>2, StillRemembered DEF EndDeletion, Asked, Remembers
  <2>. QED BY <2>1, <2>2, <2>3
<1>. QED BY <1>1, <1>2 DEF EndUserClean, CrashUserClean

\* The end of the worker's process keeps the invariant, whichever deletions it
\* has done; of a task it deletes besides, nobody asks for the merge any more.
LEMMA StopInv ==
  ASSUME IInv, NEW lock \in {"free", "stale"}, NEW deleted \in SUBSET (Tasks \X Underscores),
         Stop(lock, deleted), UNCHANGED <<toMerge, backups>>,
         missed \subseteq missed', missed' \subseteq toMerge,
         \A n \in Tasks : <<n, file[n]>> \in deleted \ unlinking => VmOf[n] \notin toMerge' \ missed'
  PROVE  IInv'
<1>. USE DEF IInv, backups
<1>1. Types'
  BY DEF Stop, Types
<1>2. Unwritten' /\ OlderNames' /\ Handled'
  BY DEF Stop, Types, Unwritten, OlderNames, Handled
<1>3. Locked'
  BY DEF Stop, Types, Locked, Holding
<1>4. MergeAsked'
  <2>1. ASSUME NEW n \in Tasks, Asked(n), VmOf[n] \in toMerge' \ missed' PROVE Asked(n)'
    <3>1. Remembers(n) /\ item'[n] # "cleaning"
      BY <2>1 DEF Asked, Stop
    <3>2. CASE <<n, file[n]>> \in deleted
      BY <2>1, <3>1, <3>2 DEF Asked, Remembers, Types, Unwritten
    <3>3. CASE <<n, file[n]>> \notin deleted
      BY <3>1, <3>3 DEF Asked, Remembers, Stop, Types
    <3>. QED BY <3>2, <3>3
  <2>. QED BY <2>1, StillRemembered
<1>. QED BY <1>1, <1>2, <1>3, <1>4

\* The actions of the worker on a task keep the invariant.
LEMMA BeginInv ==
  ASSUME IInv, NEW n \in Tasks, Begin(n)
  PROVE  IInv'
<1>. USE DEF IInv, repository, backups, worker, requests, history
<1>1. CASE Rename(n)
  <2>1. file[n] \in Underscores /\ file[n] + 1 \in Underscores
    <3>1. file[n] \in Underscores
      BY <1>1 DEF Rename, Types
    <3>. QED BY <1>1, <3>1, MaxPrefixNat DEF Rename
  <2>2. Types'
    BY <1>1, <2>1 DEF Rename, Types
  <2>3. <<n, file[n] + 1>> \notin unlinking
    BY <2>1, <1>1 DEF OlderNames, Rename
  <2>4. Unwritten'
    BY <1>1, <2>1 DEF Rename, Types, Unwritten
  <2>7. OlderNames'
    <3>1. SUFFICES ASSUME NEW k \in Tasks, NEW p \in Underscores, <<k, p>> \in unlinking, file'[k] # None
                   PROVE  p <= file'[k]
      BY <1>1 DEF Rename, OlderNames
    <3>2. CASE k = n
      <4>1. p <= file[n] /\ file'[n] = file[n] + 1
        BY <1>1, <2>1, <3>1, <3>2 DEF Rename, Types, OlderNames
      <4>. QED BY <2>1, <3>2, <4>1
    <3>3. CASE k # n
      <4>1. file'[k] = file[k]
        BY <1>1, <3>3 DEF Rename, Types
      <4>. QED BY <3>1, <4>1 DEF OlderNames
    <3>. QED BY <3>2, <3>3
  <2>8. Handled'
    <3>1. file'[n] = file[n] + 1 /\ file[n] + 1 # None /\ UNCHANGED unlinking
      BY <1>1, <2>1 DEF Rename, Types
    <3>2. \A k \in Tasks : k # n => file'[k] = file[k] /\ item'[k] = item[k]
      BY <1>1 DEF Rename, Types
    <3>. QED BY <2>3, <3>1, <3>2 DEF Handled
  <2>5. Locked'
    BY <1>1 DEF Rename, Types, Locked, Holding
  <2>6. MergeAsked'
    <3>1. file'[n] = file[n] + 1 /\ file[n] + 1 # None /\ UNCHANGED <<backup, unlinking, toMerge, missed>>
      BY <1>1, <2>1 DEF Rename, Types
    <3>2. \A k \in Tasks : k # n => file'[k] = file[k]
      BY <1>1 DEF Rename, Types
    <3>3. \A k \in Tasks : item'[k] = "cleaning" => item[k] = "cleaning"
      BY <1>1 DEF Rename, Types
    <3>4. \A k \in Tasks : Asked(k) => Asked(k)'
      BY <1>1, <2>3, <3>1, <3>2, <3>3 DEF Rename, Asked, Remembers
    <3>. QED BY <3>1, <3>4, StillRemembered
  <2>. QED BY <2>2, <2>4, <2>5, <2>6, <2>7, <2>8
<1>2. ASSUME NEW deleted \in SUBSET unlinking, Drop(n, deleted) PROVE IInv'
  <2>1. batch[1] = <<n, file[n]>> /\ file[n] \in Underscores
    BY <1>2 DEF Drop, Types
  <2>2. deleted \cup {batch[1]} \in SUBSET (Tasks \X Underscores)
    BY <2>1 DEF Types
  <2>3. \A k \in Tasks : <<k, file[k]>> \in (deleted \cup {batch[1]}) \ unlinking
                             => VmOf[k] \notin toMerge' \ missed'
    BY <1>2, <2>1 DEF Drop
  <2>4. missed \subseteq missed' /\ missed' \subseteq toMerge /\ UNCHANGED <<toMerge, backups>>
    BY <1>2 DEF Drop, Types
  <2>5. Stop("free", deleted \cup {batch[1]})
    BY <1>2 DEF Drop
  <2>. QED BY <2>2, <2>3, <2>4, <2>5, StopInv
<1>3. ASSUME NEW deleted \in SUBSET unlinking, RenameMissing(n, deleted) PROVE IInv'
  BY <1>3, StopInv DEF RenameMissing, Types
<1>. QED BY <1>1, <1>2, <1>3 DEF Begin

\* A task that leaves a VM releases the lock of nobody else.
LEMMA LeaveLocked ==
  ASSUME IInv, NEW n \in Tasks, item[n] = "cleaning", Leave(n), UNCHANGED <<backup, deleting>>
  PROVE  Locked'
<1>1. \A k \in Tasks : item'[k] = "cleaning" => item[k] = "cleaning" /\ VmOf[k] # VmOf[n]
  BY DEF IInv, Types, Locked, Leave
<1>2. \A k \in Tasks : Holding(k)' => Holding(k) /\ VmOf[k] # VmOf[n]
  BY DEF IInv, Locked, Holding
<1>3. ~deleting[VmOf[n]] /\ VmOf[n] \in VMs
  BY DEF IInv, Locked
<1>. QED BY <1>1, <1>2, <1>3, Released DEF Leave

LEMMA CleanInv ==
  ASSUME IInv, LateMerging, NEW n \in Tasks, Clean(n) \/ CleanFails(n)
  PROVE  IInv'
<1>. USE DEF IInv, repository, backups, worker, requests, history
<1>1. CASE StartClean(n)
  <2>1. Types'
    BY <1>1 DEF StartClean, Types
  <2>2. Unwritten' /\ OlderNames' /\ Handled'
    BY <1>1 DEF StartClean, Types, Unwritten, OlderNames, Handled
  <2>3. Locked'
    <3>1. CASE vmLock[VmOf[n]] = "free"
      <4>1. /\ UNCHANGED <<backup, deleting>>
            /\ vmLock' = [vmLock EXCEPT ![VmOf[n]] = "worker"]
            /\ item' = [item EXCEPT ![n] = "cleaning"]
        BY <1>1, <3>1 DEF StartClean
      <4>2. \A k \in Tasks : k # n => item'[k] = item[k]
        BY <4>1 DEF Types
      <4>3. \A k \in Tasks : item[k] = "cleaning" \/ Holding(k) => VmOf[k] # VmOf[n]
        BY <3>1 DEF Locked
      <4>4. vmLock'[VmOf[n]] = "worker" /\ \A v \in VMs : v # VmOf[n] => vmLock'[v] = vmLock[v]
        BY <4>1 DEF Types
      <4>5. \A k \in Tasks : item'[k] = "cleaning" => vmLock'[VmOf[k]] = "worker"
        BY <4>2, <4>3, <4>4 DEF Locked
      <4>6. \A k \in Tasks : Holding(k)' = Holding(k)
        BY <4>1 DEF Holding
      <4>7. \A k \in Tasks : Holding(k)' => vmLock'[VmOf[k]] = "backup"
        BY <4>3, <4>4, <4>6 DEF Locked
      <4>8. \A v \in VMs : deleting'[v] => vmLock'[v] = "user"
        BY <3>1, <4>1, <4>4 DEF Locked
      <4>9. \A k \in Tasks : item'[k] = "cleaning" => k = n \/ (item[k] = "cleaning" /\ VmOf[k] # VmOf[n])
        BY <4>2, <4>3
      <4>10. /\ \A k, m \in Tasks : item'[k] = "cleaning" /\ item'[m] = "cleaning" /\ k # m => VmOf[k] # VmOf[m]
             /\ \A k, m \in Tasks : Holding(k)' /\ Holding(m)' /\ k # m => VmOf[k] # VmOf[m]
        BY <4>6, <4>9 DEF Locked
      <4>. QED BY <4>5, <4>7, <4>8, <4>10 DEF Locked
    <3>2. CASE vmLock[VmOf[n]] # "free"
      <4>1. /\ UNCHANGED <<vmLock, backup, deleting>>
            /\ \A k \in Tasks : item'[k] = "cleaning" => item[k] = "cleaning"
        BY <1>1, <3>2 DEF StartClean, Types
      <4>. QED BY <4>1 DEF Locked, Holding
    <3>. QED BY <3>1, <3>2
  <2>4. MergeAsked'
    <3>1. UNCHANGED <<toMerge, missed, file, unlinking, backup, late>>
      BY <1>1 DEF StartClean
    <3>2. vmLock[VmOf[n]] = "free" => VmOf[n] \notin late
      BY DEF LateMerging, Merging, Locked, Holding
    <3>3. \A k \in Tasks : item'[k] = "cleaning" => item[k] = "cleaning" \/ VmOf[k] \notin late
      BY <1>1, <3>2 DEF StartClean, Types
    <3>. QED BY <3>1, <3>3, StillRemembered DEF Asked, Remembers
  <2>. QED BY <2>1, <2>2, <2>3, <2>4
<1>2. ASSUME NEW left \in BOOLEAN, EndClean(n, left) PROVE IInv'
  <2>1. /\ toMerge' \subseteq VMs /\ missed' \subseteq toMerge' /\ late' \subseteq VMs
        /\ toMerge' \ missed' \subseteq toMerge \ missed
    BY <1>2, MergedVm DEF EndClean
  <2>2. Types'
    <3>1. <<n, file[n]>> \in Tasks \X Underscores
      BY <1>2 DEF EndClean, Types, Handled
    <3>2. vmLock' \in [VMs -> {"free", "backup", "worker", "user", "stale"}]
      BY <1>2 DEF EndClean, Leave, Types
    <3>. QED BY <1>2, <2>1, <3>1, <3>2 DEF EndClean, Leave, Types
  <2>3. Unwritten' /\ OlderNames' /\ Handled'
    BY <1>2 DEF EndClean, Leave, Types, Unwritten, OlderNames, Handled
  <2>4. Locked'
    BY <1>2, LeaveLocked DEF EndClean
  <2>5. MergeAsked'
    <3>1. SUFFICES ASSUME NEW v \in toMerge' \ missed'
                   PROVE  \E k \in Tasks : VmOf[k] = v /\ Asked(k)'
      BY DEF MergeAsked
    <3>2. PICK k \in Tasks : VmOf[k] = v /\ Asked(k)
      BY <2>1 DEF MergeAsked
    <3>3. k # n
      BY <1>2, <3>1, <3>2 DEF EndClean, Merged, Asked
    <3>4. item'[k] = item[k] /\ UNCHANGED <<file, backup>> /\ unlinking' = unlinking \cup {<<n, file[n]>>}
      BY <1>2, <3>3 DEF EndClean, Leave, Types
    <3>5. late' \subseteq late
      BY <1>2 DEF EndClean, Merged
    <3>6. Asked(k)'
      BY <3>2, <3>3, <3>4, <3>5 DEF Asked, Remembers
    <3>. QED BY <3>2, <3>6
  <2>. QED BY <2>2, <2>3, <2>4, <2>5
<1>3. CASE CleanFails(n)
  <2>1. Types'
    BY <1>3 DEF CleanFails, Leave, Types
  <2>2. Unwritten' /\ OlderNames' /\ Handled'
    BY <1>3 DEF CleanFails, Leave, Types, Unwritten, OlderNames, Handled
  <2>3. Locked'
    BY <1>3, LeaveLocked DEF CleanFails
  <2>4. MergeAsked'
    BY <1>3, StillRemembered DEF CleanFails, Leave, Asked, Remembers
  <2>. QED BY <2>1, <2>2, <2>3, <2>4
<1>. QED BY <1>1, <1>2, <1>3 DEF Clean

LEMMA UnlinkInv ==
  ASSUME IInv, NEW n \in Tasks, NEW p \in Underscores, Unlink(n, p) \/ UnlinkFails(n, p)
  PROVE  IInv'
<1>. USE DEF IInv, repository, backups, worker, requests, history
<1>1. CASE Unlink(n, p)
  <2>1. Types'
    BY <1>1 DEF Unlink, Types
  <2>2. Unwritten' /\ OlderNames' /\ Handled'
    BY <1>1 DEF Unlink, Types, Unwritten, OlderNames, Handled
  <2>3. Locked'
    BY <1>1 DEF Unlink, Types, Locked, Holding
  <2>4. MergeAsked'
    BY <1>1, StillRemembered DEF Unlink, Types, Asked, Remembers
  <2>. QED BY <2>1, <2>2, <2>3, <2>4
<1>2. CASE UnlinkFails(n, p)
  <2>1. Types' /\ Unwritten' /\ OlderNames' /\ Handled'
    BY <1>2 DEF UnlinkFails, Types, Unwritten, OlderNames, Handled
  <2>2. Locked'
    BY <1>2 DEF UnlinkFails, Types, Locked, Holding
  <2>3. MergeAsked'
    BY <1>2, StillRemembered DEF UnlinkFails, Asked, Remembers
  <2>. QED BY <2>1, <2>2, <2>3
<1>. QED BY <1>1, <1>2

\* The steps that leave the tasks and the VMs alone.
LEMMA OtherInv ==
  ASSUME IInv,
         \/ OtherBackup \/ StartWorker \/ List \/ EndBatch \/ Exit \/ ExpireQueueLock
         \/ UNCHANGED vars
  PROVE  IInv'
<1>1. UNCHANGED <<toMerge, file, vmLock, backup, deleting, item, unlinking, late, missed>>
  BY DEF OtherBackup, OtherCheckLock, OtherSpawn, StartWorker, List, EndBatch, Exit, ExpireQueueLock,
         vars, repository, backups, worker, requests, history
<1>2. Types' /\ Unwritten' /\ OlderNames' /\ Handled'
  BY <1>1 DEF IInv, Types, Unwritten, OlderNames, Handled
<1>3. Locked'
  BY <1>1 DEF IInv, Locked, Holding
<1>4. MergeAsked'
  BY <1>1 DEF IInv, MergeAsked, Asked, Remembers
<1>. QED BY <1>2, <1>3, <1>4 DEF IInv

\* Only the lock of a crashed process expires.
LEMMA ExpireInv ==
  ASSUME IInv, NEW v \in VMs, ExpireVmLock(v)
  PROVE  IInv'
<1>. USE DEF IInv, ExpireVmLock, backups, worker, requests, history
<1>1. Types' /\ Unwritten' /\ OlderNames' /\ Handled'
  BY DEF Types, Unwritten, OlderNames, Handled
<1>2. Locked'
  BY DEF Types, Locked, Holding
<1>3. MergeAsked'
  BY DEF ExpireVmLock, MergeAsked, Asked, Remembers
<1>. QED BY <1>1, <1>2, <1>3

LEMMA NextInv == IInv /\ LateMerging /\ [Next]_vars => IInv'
<1>. SUFFICES ASSUME IInv, LateMerging, [Next]_vars PROVE IInv'
  OBVIOUS
<1>1. ASSUME NEW deleted \in SUBSET unlinking, Crash(deleted) PROVE IInv'
  BY <1>1, StopInv DEF Crash, IInv, Types
<1>. QED
  BY <1>1, BackupInv, BackupFaultInv, DeletionInv, BeginInv, CleanInv, UnlinkInv, OtherInv, ExpireInv
     DEF Next, Worker, Expire

\* A merge that goes on keeps its late deletions.
LEMMA StillMerging ==
  ASSUME Types, LateMerging, late' \subseteq late,
         \A v \in late' : vmLock[v] = "worker" => vmLock'[v] = "worker",
         \A n \in Tasks : VmOf[n] \in late' /\ backup[n] = "before" => backup'[n] = "before"
  PROVE  LateMerging'
  BY DEF LateMerging, Merging

LEMMA LateInv == IInv /\ LateMerging /\ [Next]_vars => LateMerging'
<1>. SUFFICES ASSUME IInv, LateMerging, [Next]_vars PROVE LateMerging'
  OBVIOUS
<1>0. Types
  BY DEF IInv
<1>. USE DEF repository, backups, worker, requests, history
<1>1. ASSUME NEW n \in Tasks, Backup(n) \/ BackupFault(n) PROVE LateMerging'
  <2>1. late' \subseteq late /\ (backup[n] = "before" /\ backup'[n] # "before" => VmOf[n] \notin late')
    BY <1>0, <1>1 DEF Types, Backup, BackupFault, StartBackup, EndBefore, EndBackup, Enqueue, CheckLock, Spawn,
                      BeforeFails, EnqueueFails, EndBackupFails, CrashBackup, Merged
  <2>2. \A k \in Tasks : k # n => backup'[k] = backup[k]
    BY <1>0, <1>1 DEF Types, Backup, BackupFault, StartBackup, EndBefore, EndBackup, Enqueue, CheckLock, Spawn,
                      BeforeFails, EnqueueFails, EndBackupFails, CrashBackup
  <2>3. \A v \in VMs : vmLock[v] = "worker" => vmLock'[v] = "worker"
    <3>1. \/ UNCHANGED vmLock
          \/ /\ vmLock[VmOf[n]] # "worker"
             /\ \E lock \in {"backup", "free", "stale"} : vmLock' = [vmLock EXCEPT ![VmOf[n]] = lock]
      <4>1. Holding(n) => vmLock[VmOf[n]] # "worker"
        BY DEF IInv, Locked
      <4>. QED BY <1>1, <4>1 DEF Backup, BackupFault, StartBackup, EndBefore, EndBackup, Enqueue, CheckLock,
                      Spawn, BeforeFails, EnqueueFails, EndBackupFails, CrashBackup, Holding
    <3>. QED BY <1>0, <3>1 DEF Types
  <2>. QED BY <1>0, <2>1, <2>2, <2>3, StillMerging DEF Types
<1>2. ASSUME NEW n \in Tasks, Clean(n) \/ CleanFails(n) PROVE LateMerging'
  <2>1. CASE StartClean(n)
    <3>1. UNCHANGED <<late, backup>> /\ \A v \in VMs : vmLock[v] = "worker" => vmLock'[v] = "worker"
      BY <1>0, <2>1 DEF StartClean, Types
    <3>. QED BY <1>0, <3>1, StillMerging DEF Types
  <2>2. CASE ~ StartClean(n)
    <3>1. Leave(n) /\ late' = late \ {VmOf[n]} /\ UNCHANGED backup
      BY <1>2, <2>2 DEF Clean, EndClean, CleanFails, Merged
    <3>2. \A v \in VMs : v # VmOf[n] => vmLock'[v] = vmLock[v]
      BY <1>0, <3>1 DEF Leave, Types
    <3>. QED BY <1>0, <3>1, <3>2, StillMerging DEF Types
  <2>. QED BY <2>1, <2>2
<1>3. ASSUME NEW v \in VMs, DeleteBackups(v) PROVE LateMerging'
  <2>1. \A w \in VMs : Merging(w) => Merging(w)'
    BY <1>0, <1>3 DEF DeleteBackups, Merging, Types
  <2>2. late' = IF Merging(v) THEN late \cup {v} ELSE late
    BY <1>3 DEF DeleteBackups
  <2>. QED BY <1>0, <2>1, <2>2 DEF LateMerging, Types
<1>4. ASSUME NEW v \in VMs, NEW lock, EndDeletion(v, lock) PROVE LateMerging'
  <2>1. vmLock[v] # "worker"
    BY <1>4 DEF EndDeletion, IInv, Locked
  <2>2. UNCHANGED <<late, backup>> /\ \A w \in VMs : w # v => vmLock'[w] = vmLock[w]
    BY <1>0, <1>4 DEF EndDeletion, Types
  <2>. QED BY <1>0, <2>1, <2>2, StillMerging DEF Types
<1>5. ASSUME NEW lock, NEW deleted, Stop(lock, deleted), UNCHANGED backups PROVE LateMerging'
  <2>1. late' = {v \in late : vmLock[v] # "worker"} /\ UNCHANGED backup
    BY <1>5 DEF Stop
  <2>. QED BY <1>0, <2>1, StillMerging
<1>6. CASE \/ \E n \in Tasks : Rename(n) \/ \E p \in Underscores : Unlink(n, p) \/ UnlinkFails(n, p)
           \/ OtherBackup \/ StartWorker \/ List \/ EndBatch \/ Exit \/ ExpireQueueLock
           \/ UNCHANGED vars
  <2>1. UNCHANGED <<late, vmLock, backup>>
    BY <1>6 DEF Rename, Unlink, UnlinkFails, OtherBackup, OtherCheckLock, OtherSpawn, StartWorker, List,
                EndBatch, Exit, ExpireQueueLock, vars
  <2>. QED BY <2>1 DEF LateMerging, Merging
<1>7. ASSUME NEW v \in VMs, ExpireVmLock(v) PROVE LateMerging'
  <2>1. UNCHANGED <<late, backup>> /\ \A w \in VMs : vmLock[w] = "worker" => vmLock'[w] = "worker"
    BY <1>0, <1>7 DEF ExpireVmLock, Types
  <2>. QED BY <1>0, <2>1, StillMerging DEF Types
<1>8. ASSUME NEW n \in Tasks, Begin(n) PROVE LateMerging'
  BY <1>5, <1>6, <1>8 DEF Begin, Drop, RenameMissing
<1>9. ASSUME NEW deleted \in SUBSET unlinking, Crash(deleted) PROVE LateMerging'
  BY <1>5, <1>9 DEF Crash
<1>10. CASE \E v \in VMs : EndUserClean(v) \/ CrashUserClean(v)
  BY <1>4, <1>10 DEF EndUserClean, CrashUserClean
<1>. QED BY <1>1, <1>2, <1>3, <1>6, <1>7, <1>8, <1>9, <1>10 DEF Next, Worker, Expire

LEMMA Inductive == Spec => []IInv
<1>1. Init => LateMerging
  BY DEF Init, LateMerging
<1>2. Spec => [](IInv /\ LateMerging)
  BY <1>1, InitInv, NextInv, LateInv, PTL DEF Spec
<1>. QED BY <1>2, PTL

-----------------------------------------------------------------------------

\* A VM that has something to merge has a task that will have it merged, but for
\* what nobody asked for (missed): what the user deleted, a backup whose cleanVm()
\* or task failed, or that stopped before its task was written, a task dropped
\* after too many failures.  This is afterBackup() of _MixinRemoteWriter.mjs and
\* the worker of merge-worker/cli.mjs, with any number of backups and VMs, any
\* concurrency, any number of failures, crashes and deletions.
THEOREM NoMergeForgotten == Spec => []MergeRemembered
<1>1. IInv => MergeRemembered
  BY DEF IInv, MergeAsked, Asked, MergeRemembered
<1>. QED BY <1>1, Inductive, PTL

\* The worker cleans a VM with one task at a time and never during a backup of
\* it, by the lock that cleanVm() and beforeBackup() take.
THEOREM Alone == Spec => []CleanedAlone
<1>1. IInv => CleanedAlone
  BY DEF IInv, Locked, Holding, CleanedAlone
<1>. QED BY <1>1, Inductive, PTL


-----------------------------------------------------------------------------

\* The number of names sorted before one of them.
Rank(name) == Cardinality({x \in Names : Before(x, name)})

\* Before() is a strict total order on names, so that they can be sorted: the
\* rank of a name is its place.
LEMMA SortedNames ==
  ASSUME file \in [Tasks -> Underscores \cup {None}]
  PROVE  /\ Names \subseteq Tasks \X Underscores
         /\ Sorted \in [1 .. Cardinality(Names) -> Names]
         /\ Cardinality(Names) \in Nat
         /\ \A i, j \in DOMAIN Sorted : i < j => Before(Sorted[i], Sorted[j])
<1>. DEFINE N == Cardinality(Names)
            below(x) == {y \in Names : Before(y, x)}
            rank == [x \in Names |-> Rank(x) + 1]
<1>1. Names \subseteq Tasks \X Underscores
  BY DEF Names, Queued
<1>2. IsFiniteSet(Names)
  <2>1. IsFiniteSet(Tasks \X Underscores)
    <3>1. IsFiniteSet(Tasks) /\ IsFiniteSet(Underscores)
      BY MaxPrefixNat, Bounds, FS_Interval
    <3>. QED BY <3>1, FS_Product
  <2>. QED BY <1>1, <2>1, FS_Subset
<1>3. N \in Nat
  BY <1>2, FS_CardinalityType
<1>4. \A x \in Names : /\ IsFiniteSet(below(x)) /\ Rank(x) = Cardinality(below(x)) /\ Rank(x) \in 0 .. N - 1
  <2>. SUFFICES ASSUME NEW x \in Names
               PROVE  IsFiniteSet(below(x)) /\ Cardinality(below(x)) \in 0 .. N - 1
    BY DEF Rank
  <2>1. x \in Tasks \X Underscores
    BY <1>1
  <2>2. ~ Before(x, x)
    BY <2>1 DEF Before
  <2>3. below(x) \subseteq Names \ {x}
    BY <2>2
  <2>4. IsFiniteSet(Names \ {x}) /\ Cardinality(Names \ {x}) = N - 1
    BY <1>2, FS_RemoveElement
  <2>5. IsFiniteSet(below(x)) /\ Cardinality(below(x)) <= N - 1
    BY <2>3, <2>4, FS_Subset
  <2>6. Cardinality(below(x)) \in Nat
    BY <2>5, FS_CardinalityType
  <2>. QED BY <1>3, <2>5, <2>6
<1>5. \A x \in Names : Rank(x) \in Int /\ 0 <= Rank(x) /\ Rank(x) < N
  <2>. SUFFICES ASSUME NEW x \in Names PROVE Rank(x) \in Int /\ 0 <= Rank(x) /\ Rank(x) < N
    OBVIOUS
  <2>1. Rank(x) \in 0 .. N - 1
    BY <1>4
  <2>. QED BY <1>3, <2>1
<1>6. \A x, y \in Names : Before(x, y) => Rank(x) < Rank(y)
  <2>. SUFFICES ASSUME NEW x \in Names, NEW y \in Names, Before(x, y)
               PROVE  Rank(x) < Rank(y)
    OBVIOUS
  <2>1. \A z \in Names : Before(z, x) => Before(z, y)
    <3>1. \A z \in Tasks \X Underscores : Before(z, x) => Before(z, y)
      BY <1>1 DEF Before
    <3>. QED BY <3>1, <1>1
  <2>2. x \in below(y) /\ x \notin below(x)
    BY <1>1 DEF Before
  <2>3. below(x) \in SUBSET below(y) /\ below(x) # below(y)
    BY <2>1, <2>2
  <2>4. Cardinality(below(x)) <= Cardinality(below(y)) /\ Cardinality(below(x)) # Cardinality(below(y))
    BY <1>4, <2>3, FS_Subset
  <2>5. Rank(x) <= Rank(y) /\ Rank(x) # Rank(y)
    BY <1>4, <2>4
  <2>. QED BY <1>5, <2>5
<1>7. \A x, y \in Names : x = y \/ Before(x, y) \/ Before(y, x)
  <2>1. \A x, y \in Tasks \X Underscores : x = y \/ Before(x, y) \/ Before(y, x)
    BY DEF Before
  <2>. QED BY <1>1, <2>1
<1>. HIDE DEF N, below
<1>8. rank \in Injection(Names, 1 .. N)
  <2>1. \A x \in Names : Rank(x) + 1 \in 1 .. N
    BY <1>3, <1>5
  <2>2. rank \in [Names -> 1 .. N]
    BY <2>1
  <2>3. \A x, y \in Names : x # y => Rank(x) + 1 # Rank(y) + 1
    BY <1>5, <1>6, <1>7
  <2>4. \A x, y \in Names : rank[x] = rank[y] => x = y
    BY <2>3
  <2>. QED BY <2>2, <2>4 DEF Injection, IsInjective
<1>9. rank \in Surjection(Names, 1 .. N)
  <2>1. IsFiniteSet(1 .. N) /\ Cardinality(1 .. N) = N
    BY <1>3, IntervalCardinality
  <2>2. Cardinality(Names) = Cardinality(1 .. N)
    BY <2>1 DEF N
  <2>. QED BY <1>8, <2>1, <2>2, FS_Injection
<1>. DEFINE entries == [i \in 1 .. N |-> CHOOSE x \in Names : rank[x] = i]
<1>10. \A i \in 1 .. N : entries[i] \in Names /\ Rank(entries[i]) + 1 = i
  BY <1>9 DEF Surjection
<1>11. entries \in [1 .. N -> Names]
  BY <1>10
<1>12. \A i, j \in 1 .. N : i < j => Before(entries[i], entries[j])
  <2>. SUFFICES ASSUME NEW i \in 1 .. N, NEW j \in 1 .. N, i < j PROVE Before(entries[i], entries[j])
    OBVIOUS
  <2>. DEFINE a == entries[i]  b == entries[j]
  <2>1. a \in Names /\ b \in Names /\ Rank(a) + 1 = i /\ Rank(b) + 1 = j
    BY <1>10
  <2>. HIDE DEF a, b
  <2>2. Rank(a) < Rank(b)
    BY <2>1, <1>5
  <2>3. a # b /\ ~ Before(b, a)
    BY <2>1, <2>2, <1>5, <1>6
  <2>4. Before(a, b)
    BY <2>1, <2>3, <1>7
  <2>. QED BY <2>4 DEF a, b
<1>13. \E s \in [1 .. N -> Names] : \A i, j \in DOMAIN s : i < j => Before(s[i], s[j])
  <2>1. DOMAIN entries = 1 .. N
    OBVIOUS
  <2>. HIDE DEF entries
  <2>. QED BY <2>1, <1>11, <1>12
<1>14. Sorted \in [1 .. N -> Names] /\ \A i, j \in DOMAIN Sorted : i < j => Before(Sorted[i], Sorted[j])
  BY <1>13 DEF Sorted, N
<1>. QED BY <1>1, <1>3, <1>14 DEF N

-----------------------------------------------------------------------------

\* The rest of TypeOK, and the listings of an empty queue counted up to MaxTries.
Worked ==
    /\ queueLock \in {"free", "held", "stale"}
    /\ other \in {"idle", "spawning"}
    /\ phase \in {"off", "list", "batch", "exit"}
    /\ tries \in 0 .. MaxTries
    /\ phase # "exit" => tries < MaxTries
    /\ batch \in Seq(Tasks \X Underscores)
    /\ spawned \in 0 .. MaxSpawned
    /\ faults \in 0 .. MaxFaults
    /\ queueLock = "held" <=> phase # "off"

LEMMA WorkedInit == Init => Worked
  BY DEF Init, Worked

LEMMA WorkedStep ==
  ASSUME Types, Worked, [Next]_vars
  PROVE  Worked'
<1>. USE DEF repository, backups, worker, requests, history
<1>0. ASSUME Fault PROVE faults' \in 0 .. MaxFaults
  BY <1>0, Bounds DEF Fault, Worked
<1>1. ASSUME NEW n \in Tasks, Backup(n) PROVE Worked'
  <2>1. CASE Spawn(n)
    BY <2>1, Bounds DEF Worked, Spawn
  <2>2. CASE ~ Spawn(n)
    BY <1>1, <2>2 DEF Worked, Backup, StartBackup, EndBefore, EndBackup, Enqueue, CheckLock
  <2>. QED BY <2>1, <2>2
<1>2. ASSUME NEW n \in Tasks, Clean(n) \/ CleanFails(n) PROVE Worked'
  <2>1. CASE StartClean(n)
    BY <2>1 DEF Worked, StartClean
  <2>2. ASSUME NEW left \in BOOLEAN, EndClean(n, left) PROVE Worked'
    BY <2>2 DEF Worked, EndClean
  <2>3. CASE CleanFails(n)
    BY <2>3, <1>0 DEF Worked, CleanFails
  <2>. QED BY <1>2, <2>1, <2>2, <2>3 DEF Clean
<1>3. ASSUME NEW n \in Tasks, NEW p \in Underscores, Unlink(n, p) \/ UnlinkFails(n, p) PROVE Worked'
  <2>1. CASE Unlink(n, p)
    BY <2>1 DEF Worked, Unlink
  <2>2. CASE UnlinkFails(n, p)
    BY <2>2, <1>0 DEF Worked, UnlinkFails
  <2>. QED BY <1>3, <2>1, <2>2
<1>4. CASE OtherBackup
  <2>1. CASE OtherCheckLock
    BY <2>1 DEF Worked, OtherCheckLock
  <2>2. CASE OtherSpawn
    BY <2>2, Bounds DEF Worked, OtherSpawn
  <2>. QED BY <1>4, <2>1, <2>2 DEF OtherBackup
<1>5. CASE Worker
  <2>1. ASSUME NEW n \in Tasks, Begin(n) PROVE Worked'
    <3>1. CASE Rename(n)
      <4>1. batch' \in Seq(Tasks \X Underscores)
        BY <3>1 DEF Rename, Worked
      <4>. QED BY <3>1, <4>1 DEF Rename, Worked
    <3>2. ASSUME NEW deleted, Stop("free", deleted), UNCHANGED <<toMerge, backups, spawned, faults>>
          PROVE  Worked'
      <4>1. batch' \in Seq(Tasks \X Underscores)
        BY <3>2 DEF Stop
      <4>. QED BY <3>2, <4>1, Bounds DEF Stop, Worked
    <3>3. ASSUME NEW deleted \in SUBSET unlinking, Drop(n, deleted) PROVE Worked'
      BY <3>2, <3>3 DEF Drop, Worked
    <3>4. ASSUME NEW deleted \in SUBSET unlinking, RenameMissing(n, deleted) PROVE Worked'
      BY <3>2, <3>4 DEF RenameMissing, Worked
    <3>. QED BY <2>1, <3>1, <3>3, <3>4 DEF Begin
  <2>2. CASE StartWorker
    BY <2>2 DEF StartWorker, Worked
  <2>3. CASE List
    <3>1. batch' \in Seq(Tasks \X Underscores)
      <4>1. DEFINE N == Cardinality(Names)
      <4>2. /\ Names \subseteq Tasks \X Underscores
            /\ N \in Nat /\ Sorted \in [1 .. N -> Names]
        BY SortedNames DEF Types
      <4>. HIDE DEF N
      <4>3. Sorted \in Seq(Tasks \X Underscores)
        BY <4>2
      <4>. QED BY <2>3, <4>3 DEF List
    <3>2. tries' \in 0 .. MaxTries /\ (phase' # "exit" => tries' < MaxTries)
      BY <2>3 DEF List, Worked
    <3>. QED BY <2>3, <3>1, <3>2 DEF List, Worked
  <2>4. CASE EndBatch
    BY <2>4 DEF EndBatch, Worked
  <2>5. CASE Exit
    BY <2>5 DEF Exit, Worked
  <2>. QED BY <1>5, <2>1, <2>2, <2>3, <2>4, <2>5 DEF Worker
<1>6. ASSUME NEW deleted \in SUBSET unlinking, Crash(deleted) PROVE Worked'
  BY <1>6, <1>0 DEF Crash, Stop, Worked
<1>7. CASE Expire
  BY <1>7 DEF Expire, ExpireQueueLock, ExpireVmLock, Worked
<1>8. CASE UNCHANGED vars
  BY <1>8 DEF vars, Worked
<1>9. ASSUME NEW n \in Tasks, BackupFault(n) PROVE Worked'
  BY <1>9, <1>0 DEF BackupFault, BeforeFails, EnqueueFails, EndBackupFails, CrashBackup, Worked
<1>10. ASSUME NEW v \in VMs, DeleteBackups(v) \/ EndUserClean(v) \/ CrashUserClean(v) PROVE Worked'
  BY <1>10, <1>0 DEF DeleteBackups, EndUserClean, CrashUserClean, EndDeletion, Worked
<1>. QED BY <1>1, <1>2, <1>3, <1>4, <1>5, <1>6, <1>7, <1>8, <1>9, <1>10 DEF Next

\* The types, the worker's state being there only while it holds the lock of the
\* queue: its batch is what List sorted, and it ends after MaxTries listings.
THEOREM TypeCorrect == Spec => []TypeOK
<1>1. IInv => Types
  BY DEF IInv
<1>2. Spec => []Types
  BY <1>1, Inductive, PTL
<1>3. Types /\ Worked /\ [Next]_vars => Worked'
  BY WorkedStep
<1>4. Spec => []Worked
  BY <1>2, <1>3, WorkedInit, PTL DEF Spec
<1>5. Types /\ Worked => TypeOK
  BY DEF Types, Worked, TypeOK
<1>. QED BY <1>2, <1>4, <1>5, PTL

=============================================================================
