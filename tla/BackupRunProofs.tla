--------------------------- MODULE BackupRunProofs ---------------------------
(***************************************************************************)
(* The types of BackupRun, that each run that ends well reaches retention, *)
(* and that no chain of VHDs is longer than the interval of full backups.  *)
(*                                                                         *)
(* The recursive functions on the parents of the VHDs are defined by       *)
(* CHOOSE, so Descent shows first that there is one for each descending    *)
(* definition: UpToDef and SizeDef are what the rest uses.                 *)
(***************************************************************************)
EXTENDS BackupRun, FiniteSetTheorems, WellFoundedInduction, TLAPS

LEMMA Bounds ==
    /\ MaxRuns \in Nat \ {0} /\ ExportRetention \in Nat \ {0} /\ MaxMergedDeltasPerRun \in Nat \ {0}
    /\ SnapshotRetention \in Nat /\ FullInterval \in Nat /\ MaxFaults \in Nat /\ MaxDeleted \in Nat
    /\ DeleteFirst \in BOOLEAN /\ Locks \in BOOLEAN
    /\ None \notin Int
  BY BackupRunAssumption

-----------------------------------------------------------------------------
(* Functions that go down the parents. *)

LEMMA NatInduct ==
  ASSUME NEW S, 0 \in S, \A n \in Nat : n \in S => n + 1 \in S
  PROVE  Nat \subseteq S
<1>. SUFFICES ASSUME NEW y \in Nat, y \notin S PROVE FALSE
  OBVIOUS
<1>1. y \in Nat \ S
  OBVIOUS
<1>2. PICK x \in Nat \ S : \A z \in Nat \ S : <<z, x>> \notin OpToRel(<, Nat)
  BY <1>1, WFMin, NatLessThanWellFounded
<1>3. x # 0 /\ x - 1 \in Nat
  OBVIOUS
<1>4. <<x - 1, x>> \in OpToRel(<, Nat)
  BY <1>3 DEF OpToRel
<1>5. x - 1 \in S
  BY <1>2, <1>3, <1>4
<1>. QED BY <1>3, <1>5

\* Where a function takes its value from a smaller number, and where it does not.
Descends(D, bound, go, next) ==
    /\ D \in SUBSET Nat /\ bound \in Nat /\ \A k \in D : k < bound
    /\ go \in SUBSET D
    /\ \A k \in go : next[k] \in D /\ (next[k] < k \/ next[k] \notin go)

Solves(f, D, go, next, leaf, through) ==
    \A k \in D : f[k] = IF k \in go THEN through[k][f[next[k]]] ELSE leaf[k]

LEMMA Descent ==
  ASSUME NEW D, NEW V, NEW bound, NEW go, NEW next, NEW leaf, NEW through,
         Descends(D, bound, go, next), leaf \in [D -> V], through \in [D -> [V -> V]]
  PROVE  \E f \in [D -> V] : Solves(f, D, go, next, leaf, through)
<1>. USE DEF Descends
<1>. DEFINE Good(f, n) == \A k \in D : k < n \/ k \notin go =>
                              f[k] = IF k \in go THEN through[k][f[next[k]]] ELSE leaf[k]
            S == {n \in Nat : \E f \in [D -> V] : Good(f, n)}
<1>1. 0 \in S
  <2>1. Good(leaf, 0)
    OBVIOUS
  <2>. QED BY <2>1
<1>2. ASSUME NEW n \in Nat, n \in S PROVE n + 1 \in S
  <2>1. PICK f \in [D -> V] : Good(f, n)
    BY <1>2
  <2>2. CASE n \notin go
    <3>1. \A k \in D : k < n + 1 \/ k \notin go => k < n \/ k \notin go
      BY <2>2
    <3>2. Good(f, n + 1)
      BY <2>1, <3>1
    <3>. QED BY <3>2
  <2>3. CASE n \in go
    <3>. DEFINE g == [f EXCEPT ![n] = through[n][f[next[n]]]]
    <3>1. g \in [D -> V]
      BY <2>3
    <3>2. \A k \in D : k # n => g[k] = f[k]
      OBVIOUS
    <3>3. g[n] = through[n][f[next[n]]] /\ next[n] # n /\ g[next[n]] = f[next[n]]
      BY <2>3
    <3>. HIDE DEF g
    <3>4. ASSUME NEW k \in D, k < n + 1 \/ k \notin go
          PROVE  g[k] = IF k \in go THEN through[k][g[next[k]]] ELSE leaf[k]
      <4>1. CASE k = n
        BY <2>3, <3>3, <4>1
      <4>2. CASE k # n
        <5>1. k < n \/ k \notin go
          BY <3>4, <4>2
        <5>2. f[k] = IF k \in go THEN through[k][f[next[k]]] ELSE leaf[k]
          BY <2>1, <5>1
        <5>3. k \in go => next[k] \in D /\ next[k] # n
          BY <2>3, <5>1
        <5>. QED BY <3>2, <4>2, <5>2, <5>3
      <4>. QED BY <4>1, <4>2
    <3>. QED BY <3>1, <3>4
  <2>. QED BY <2>2, <2>3
<1>. HIDE DEF S
<1>3. bound \in S
  BY <1>1, <1>2, NatInduct
<1>4. PICK f \in [D -> V] : Good(f, bound)
  BY <1>3 DEF S
<1>. QED BY <1>4 DEF Solves

-----------------------------------------------------------------------------
(* The parents. *)

Parents == Runs \cup {Full, Unchained}

\* A parent is older.
Older(par) == par \in [Runs -> Parents] /\ \A k \in Runs : par[k] < k \/ par[k] = Unchained

LEMMA ParentsType ==
    /\ Parents \in SUBSET Nat /\ Runs \in SUBSET Parents
    /\ \A k \in Parents : k < MaxRuns + 2
    /\ Full \in Parents /\ Unchained \in Parents /\ Full \notin Runs /\ Unchained \notin Runs
  BY Bounds DEF Parents, Runs, Full, Unchained

LEMMA UpToDef ==
  ASSUME NEW par, Older(par), NEW merge \in SUBSET Runs
  PROVE  /\ UpTo(par, merge) \in [Parents -> Parents]
         /\ \A p \in Parents : UpTo(par, merge)[p] = IF p \in merge THEN UpTo(par, merge)[par[p]] ELSE p
<1>. DEFINE P(f) == f = [p \in Parents |-> IF p \in merge THEN f[par[p]] ELSE p]
<1>1. UpTo(par, merge) = CHOOSE f : P(f)
  BY DEF UpTo, Parents
<1>2. PICK f \in [Parents -> Parents] : \A k \in Parents : f[k] = IF k \in merge THEN f[par[k]] ELSE k
  <2>. DEFINE next == [k \in Parents |-> IF k \in Runs THEN par[k] ELSE 0]
              leaf == [k \in Parents |-> k]
              go_on == [k \in Parents |-> [v \in Parents |-> v]]
  <2>1. next \in [Parents -> Nat] /\ leaf \in [Parents -> Parents] /\ go_on \in [Parents -> [Parents -> Parents]]
    BY ParentsType DEF Older
  <2>2. \A k \in merge : next[k] \in Parents /\ (next[k] < k \/ next[k] \notin merge)
    BY ParentsType DEF Older
  <2>3. merge \in SUBSET Parents /\ MaxRuns + 2 \in Nat
    BY ParentsType, Bounds
  <2>4. \A k \in Parents, v \in Parents : leaf[k] = k /\ go_on[k][v] = v
    OBVIOUS
  <2>5. \A k \in merge : next[k] = par[k]
    BY ParentsType
  <2>. HIDE DEF next, leaf, go_on
  <2>6. Descends(Parents, MaxRuns + 2, merge, next)
    BY <2>1, <2>2, <2>3, ParentsType DEF Descends
  <2>7. PICK f \in [Parents -> Parents] : Solves(f, Parents, merge, next, leaf, go_on)
    BY <2>1, <2>6, Descent
  <2>8. \A k \in merge : next[k] \in Parents /\ k \in Parents
    BY <2>2, <2>3
  <2>. QED BY <2>4, <2>5, <2>7, <2>8 DEF Solves
<1>3. P(f)
  BY <1>2
<1>. HIDE DEF P
<1>4. P(UpTo(par, merge))
  BY <1>1, <1>3
<1>5. UpTo(par, merge) = [p \in Parents |-> IF p \in merge THEN UpTo(par, merge)[par[p]] ELSE p]
  BY <1>4 DEF P
<1>. HIDE DEF UpTo
<1>6. ASSUME NEW u, u = [p \in Parents |-> IF p \in merge THEN u[par[p]] ELSE p] PROVE u \in [Parents -> Parents]
  <2>. DEFINE S == {n \in Nat : \A p \in Parents : p < n \/ p \notin merge => u[p] \in Parents}
  <2>0. \A p \in Parents : u[p] = IF p \in merge THEN u[par[p]] ELSE p
    BY <1>6
  <2>1. 0 \in S
    BY <2>0, ParentsType
  <2>2. ASSUME NEW n \in Nat, n \in S PROVE n + 1 \in S
    <3>1. ASSUME NEW p \in Parents, p \in merge, p < n + 1 PROVE u[p] \in Parents
      <4>1. par[p] \in Parents /\ (par[p] < p \/ par[p] \notin merge)
        BY <3>1, ParentsType DEF Older
      <4>2. p \in Nat /\ par[p] \in Nat
        BY <4>1, ParentsType
      <4>3. par[p] < n \/ par[p] \notin merge
        BY <3>1, <4>1, <4>2
      <4>4. u[par[p]] \in Parents
        BY <2>2, <4>1, <4>3
      <4>. QED BY <2>0, <3>1, <4>4
    <3>. QED BY <2>0, <3>1
  <2>. HIDE DEF S
  <2>3. MaxRuns + 2 \in S
    BY <2>1, <2>2, NatInduct, Bounds
  <2>4. \A p \in Parents : u[p] \in Parents
    BY <2>3, ParentsType DEF S
  <2>. QED BY <1>6, <2>4
<1>. QED BY <1>5, <1>6

\* What VHD p is replaced by is not merged, and not newer.
LEMMA UpToOlder ==
  ASSUME NEW par, Older(par), NEW merge \in SUBSET Runs, NEW p \in Parents
  PROVE  /\ UpTo(par, merge)[p] \in Parents \ merge
         /\ UpTo(par, merge)[p] <= p \/ UpTo(par, merge)[p] = Unchained
<1>. DEFINE u == UpTo(par, merge)
            S == {n \in Nat : \A q \in Parents : q < n \/ q \notin merge =>
                                  u[q] \in Parents \ merge /\ (u[q] <= q \/ u[q] = Unchained)}
<1>0. u \in [Parents -> Parents] /\ \A q \in Parents : u[q] = IF q \in merge THEN u[par[q]] ELSE q
  BY UpToDef
<1>. HIDE DEF u
<1>1. 0 \in S
  BY <1>0, ParentsType
<1>2. ASSUME NEW n \in Nat, n \in S PROVE n + 1 \in S
  <2>1. ASSUME NEW q \in Parents, q \in merge, q < n + 1
        PROVE  u[q] \in Parents \ merge /\ (u[q] <= q \/ u[q] = Unchained)
    <3>1. par[q] \in Parents /\ (par[q] < q \/ par[q] = Unchained)
      BY <2>1, ParentsType DEF Older
    <3>2. par[q] < n \/ par[q] \notin merge
      <4>1. q \in Nat /\ par[q] \in Nat /\ Unchained \notin merge
        BY <3>1, ParentsType
      <4>. QED BY <2>1, <3>1, <4>1
    <3>3. u[par[q]] \in Parents \ merge /\ (u[par[q]] <= par[q] \/ u[par[q]] = Unchained)
      BY <1>2, <3>1, <3>2
    <3>4. par[q] = Unchained => u[par[q]] = Unchained
      BY <1>0, <3>1, ParentsType
    <3>5. u[q] = u[par[q]]
      BY <1>0, <2>1
    <3>6. u[q] \in Nat /\ q \in Nat /\ par[q] \in Nat
      BY <1>0, <3>1, ParentsType
    <3>. QED BY <3>1, <3>3, <3>4, <3>5, <3>6
  <2>2. \A q \in Parents : q \notin merge => u[q] = q /\ u[q] <= q
    BY <1>0, ParentsType
  <2>. QED BY <2>1, <2>2
<1>. HIDE DEF S
<1>3. MaxRuns + 2 \in S
  BY <1>1, <1>2, NatInduct, Bounds
<1>4. u[p] \in Parents \ merge /\ (u[p] <= p \/ u[p] = Unchained)
  BY <1>3, ParentsType DEF S
<1>. QED BY <1>4 DEF u

-----------------------------------------------------------------------------
(* The types. *)

\* The snapshot of the run is made at "snapshot" and has its tags after "tag";
\* the base is an older one, and a chain is not longer than its snapshots.
PoolTypes ==
    /\ untagged \in SUBSET (1 .. now) /\ snapshots \in SUBSET (1 .. now)
    /\ untagged \cap snapshots = {}
    /\ step \in {"before", "select", "remove", "snapshot"} => now \notin untagged \cup snapshots
    /\ exported \in SUBSET Runs
    /\ length \in [Runs -> Nat] /\ \A k \in Runs : length[k] < k
    /\ schedule \in [Runs -> Schedules \cup {None}]
    /\ base \in 1 .. (now - 1) \cup {None}

FileTypes ==
    /\ vhds \in [Remotes -> SUBSET Runs] /\ named \in [Remotes -> SUBSET Runs]
    /\ jsons \in [Remotes -> SUBSET Runs] /\ old \in [Remotes -> SUBSET Runs]
    /\ done \in [Remotes -> SUBSET Runs] /\ deleted \in [Remotes -> SUBSET Runs]
    /\ parent \in [Remotes -> [Runs -> Parents]]
    /\ \A r \in Remotes : Older(parent[r])

Caches == (SUBSET Runs) \cup {None}

ListTypes ==
    /\ cache \in [Remotes -> Caches]
    /\ expired \in [Remotes -> SUBSET Runs] /\ listed \in [Remotes -> SUBSET Runs]

RunTypes ==
    /\ step \in Steps
    /\ now \in 0 .. MaxRuns /\ (step # "idle" => now # 0)
    /\ failed \in BOOLEAN /\ differencing \in BOOLEAN /\ faults \in 0 .. MaxFaults
    /\ writers \in SUBSET Remotes /\ held \in SUBSET Remotes /\ busy \in SUBSET Remotes
    /\ written \in SUBSET Remotes /\ chained \in SUBSET Remotes
    /\ busy \subseteq writers \cup held
    /\ step = "after" => busy \subseteq held

Plans == [delete : SUBSET Runs, merge : SUBSET Runs, forget : SUBSET Runs, list : SUBSET Runs, must : BOOLEAN]

\* On a remote with locks, a run that has the lock cleans alone.
LockTypes ==
    /\ plan \in [Remotes -> [Cleaners -> Plans \cup {None}]]
    /\ \A r \in Remotes :
          /\ plan[r]["run"] # None => r \in held
          /\ Locks /\ r \in held => plan[r]["other"] = None

Types == PoolTypes /\ FileTypes /\ ListTypes /\ RunTypes /\ LockTypes

LEMMA CachesAre == /\ \A c : c \in Caches <=> c \in SUBSET Runs \/ c = None
                   /\ None \in Caches
  BY DEF Caches

LEMMA InitTypes == Init => Types
<1>. SUFFICES ASSUME Init PROVE Types
  OBVIOUS
<1>1. PoolTypes
  BY Bounds DEF Init, PoolTypes, Runs
<1>2. FileTypes
  BY Bounds DEF Init, FileTypes, Runs, Older, Parents, Full
<1>3. RunTypes
  <2>1. /\ step = "idle" /\ now = 0 /\ failed = FALSE /\ differencing = FALSE /\ faults = 0
        /\ writers = {} /\ held = {} /\ busy = {} /\ written = {} /\ chained = {}
    BY DEF Init
  <2>2. 0 \in 0 .. MaxRuns /\ 0 \in 0 .. MaxFaults
    BY Bounds
  <2>. QED BY <2>1, <2>2 DEF RunTypes, Steps
<1>4. LockTypes
  BY DEF Init, LockTypes, Cleaners
<1>5. ListTypes
  BY CachesAre DEF Init, ListTypes
<1>. QED BY <1>1, <1>2, <1>3, <1>4, <1>5 DEF Types

LEMMA LatestSubset == \A n, set : Latest(n, set) \subseteq set
  BY DEF Latest

LEMMA EntriesType == ASSUME Types, NEW r \in Remotes PROVE Entries(r) \in SUBSET Runs
<1>1. cache[r] \in Caches /\ jsons[r] \in SUBSET Runs
  BY DEF Types, FileTypes, ListTypes
<1>2. cache[r] \in SUBSET Runs \/ cache[r] = None
  BY <1>1, CachesAre
<1>. QED BY <1>1, <1>2 DEF Entries

LEMMA FindingsType ==
  ASSUME Types, NEW r \in Remotes, NEW ignored, NEW merge
  PROVE  Findings(r, ignored, merge) \in Plans
  BY DEF Findings, Plans, Types, FileTypes

LEMMA ScanType ==
  ASSUME Types, NEW r \in Remotes, NEW c \in Cleaners, NEW merge, Scan(r, c, merge)
  PROVE  /\ plan[r][c] = None
         /\ plan' \in [Remotes -> [Cleaners -> Plans \cup {None}]]
         /\ \A q \in Remotes, d \in Cleaners : q # r \/ d # c => plan'[q][d] = plan[q][d]
<1>1. PICK ignored \in Ignored(r) : plan' = [plan EXCEPT ![r][c] = Findings(r, ignored, merge)]
  BY DEF Scan
<1>2. Findings(r, ignored, merge) \in Plans
  BY FindingsType
<1>. QED BY <1>1, <1>2 DEF Scan, Types, LockTypes

LEMMA CleanType ==
  ASSUME Types, NEW r \in Remotes, NEW c \in Cleaners, Clean(r, c)
  PROVE  /\ plan[r][c] # None /\ plan[r][c] \in Plans
         /\ plan' \in [Remotes -> [Cleaners -> Plans \cup {None}]]
         /\ plan' = [plan EXCEPT ![r][c] = None]
         /\ vhds' \in [Remotes -> SUBSET Runs] /\ named' = named
         /\ jsons' \in [Remotes -> SUBSET Runs]
         /\ cache' \in {cache, [cache EXCEPT ![r] = plan[r][c].list]}
         /\ cache' \in [Remotes -> Caches]
         /\ parent' \in [Remotes -> [Runs -> Parents]]
         /\ \A q \in Remotes : Older(parent'[q])
<1>. DEFINE merge == plan[r][c].merge \cap vhds[r]
            u == UpTo(parent[r], merge)
<1>1. /\ plan[r][c] # None
      /\ plan' = [plan EXCEPT ![r][c] = None]
      /\ vhds' = [vhds EXCEPT ![r] = @ \ (plan[r][c].delete \cup merge)]
      /\ parent' = [parent EXCEPT ![r] = [k \in Runs |-> u[parent[r][k]]]]
      /\ jsons' = [jsons EXCEPT ![r] = @ \ plan[r][c].forget]
      /\ named' = named
      /\ cache' \in {cache, [cache EXCEPT ![r] = plan[r][c].list]}
  BY DEF Clean, Types, FileTypes, ListTypes
<1>2. plan[r][c] \in Plans /\ plan' \in [Remotes -> [Cleaners -> Plans \cup {None}]]
  BY <1>1 DEF Types, LockTypes
<1>3. merge \in SUBSET Runs /\ \A q \in Remotes : Older(parent[q])
  BY DEF Types, FileTypes
<1>4. \A k \in Runs : parent[r][k] \in Parents /\ (parent[r][k] < k \/ parent[r][k] = Unchained)
  BY <1>3 DEF Older
<1>5. \A p \in Parents : u[p] \in Parents /\ (u[p] <= p \/ u[p] = Unchained)
  BY <1>3, UpToOlder
<1>. HIDE DEF u, merge
<1>6. ASSUME NEW k \in Runs PROVE u[parent[r][k]] \in Parents /\ (u[parent[r][k]] < k \/ u[parent[r][k]] = Unchained)
  <2>1. u[parent[r][k]] \in Nat /\ parent[r][k] \in Nat /\ k \in Nat
    BY <1>4, <1>5, ParentsType
  <2>2. parent[r][k] = Unchained => u[parent[r][k]] = Unchained
    BY <1>3, ParentsType, UpToDef DEF u
  <2>. QED BY <1>4, <1>5, <2>1, <2>2
<1>7. Older([k \in Runs |-> u[parent[r][k]]])
  BY <1>6 DEF Older
<1>8. parent' \in [Remotes -> [Runs -> Parents]] /\ \A q \in Remotes : Older(parent'[q])
  BY <1>1, <1>3, <1>7 DEF Types, FileTypes, Older
<1>9. vhds' \in [Remotes -> SUBSET Runs] /\ jsons' \in [Remotes -> SUBSET Runs]
  BY <1>1 DEF Types, FileTypes
<1>10. cache' \in [Remotes -> Caches]
  <2>1. plan[r][c].list \in Caches
    BY <1>2, CachesAre DEF Plans
  <2>. QED BY <1>1, <2>1 DEF Types, ListTypes
<1>. QED BY <1>1, <1>2, <1>8, <1>9, <1>10

-----------------------------------------------------------------------------
(* The steps keep the types. *)

\* The steps of one writer.
RemoteStep(r) ==
    \/ BeforeBackup(r) \/ EndBeforeBackup(r) \/ Prepare(r) \/ DeleteOldEntry(r)
    \/ WriteVhd(r) \/ WriteMetadata(r) \/ Chain(r) \/ UpdateUuid(r)
    \/ AfterBackup(r) \/ EndAfterBackup(r) \/ WriterFails(r) \/ TransferFails(r)
    \/ CacheDiverges(r) \/ OtherScan(r) \/ OtherClean(r)
    \/ \E k \in Runs : DeleteBackup(r, k)

RunStep ==
    \/ \E s \in Schedules : Start(s)
    \/ BeginSelect \/ SelectBase \/ RemoveUnused \/ Snapshot \/ Tag \/ Export
    \/ BeginChain \/ BeginLength \/ SetLength \/ Mark \/ EndCleanup
    \/ FinallyRemove \/ End \/ PoolFails \/ Crash

LEMMA NextSteps == Next <=> RunStep \/ \E r \in Remotes : RemoteStep(r)
  BY DEF Next, RunStep, RemoteStep

Early == {"before", "select", "remove", "snapshot"}

LEMMA RemotePool ==
  ASSUME NEW r \in Remotes, RemoteStep(r)
  PROVE  UNCHANGED <<pool, now, base, differencing>> /\ (step' = step \/ step' \in {"after", "finally"})
  BY DEF RemoteStep, BeforeBackup, EndBeforeBackup, Prepare, DeleteOldEntry, WriteVhd, WriteMetadata, Chain,
         UpdateUuid, AfterBackup, EndAfterBackup, WriterFails, TransferFails, CacheDiverges, OtherScan, OtherClean,
         DeleteBackup, LoseWriter, choices, run, pool

LEMMA PoolStep ==
  ASSUME Types, [Next]_vars
  PROVE  PoolTypes'
<1>. USE DEF pool, choices, run, vars
<1>0. PoolTypes /\ now \in 0 .. MaxRuns /\ (step # "idle" => now # 0)
  BY DEF Types, RunTypes
<1>1. ASSUME NEW r \in Remotes, RemoteStep(r) PROVE PoolTypes'
  BY <1>0, <1>1, RemotePool DEF PoolTypes
<1>2. ASSUME NEW s \in Schedules, Start(s) PROVE PoolTypes'
  <2>1. /\ now' = now + 1 /\ UNCHANGED <<untagged, snapshots, exported, length>> /\ base' = None
        /\ schedule' = [schedule EXCEPT ![now'] = s]
    BY <1>2 DEF Start
  <2>2. now \in Nat /\ 1 .. now \subseteq 1 .. now' /\ now' \notin 1 .. now
    BY <1>0, <2>1, Bounds
  <2>. QED BY <1>0, <2>1, <2>2 DEF PoolTypes
<1>3. CASE BeginSelect
  BY <1>0, <1>3 DEF BeginSelect, PoolTypes
<1>4. CASE SelectBase
  <2>1. step = "select" /\ UNCHANGED <<untagged, snapshots, exported, length, schedule, now>> /\ step' = "remove"
    BY <1>4 DEF SelectBase
  <2>2. base' = None \/ base' \in LastExported
    BY <1>4 DEF SelectBase
  <2>3. LastExported \subseteq snapshots
    BY LatestSubset DEF LastExported
  <2>4. base' \in snapshots => base' \in 1 .. (now - 1)
    BY <1>0, <2>1, Bounds DEF PoolTypes
  <2>. QED BY <1>0, <2>1, <2>2, <2>3, <2>4 DEF PoolTypes
<1>5. CASE RemoveUnused \/ FinallyRemove \/ PoolFails
  <2>1. /\ snapshots' \in SUBSET snapshots /\ UNCHANGED <<untagged, exported, length, schedule, now, base>>
        /\ step' \in Early => step \in Early
    BY <1>5 DEF RemoveUnused, FinallyRemove, PoolFails, Early
  <2>. QED BY <1>0, <2>1 DEF PoolTypes, Early
<1>6. CASE Snapshot
  <2>1. /\ step = "snapshot" /\ step' = "tag" /\ untagged' = untagged \cup {now}
        /\ UNCHANGED <<snapshots, exported, length, schedule, now, base>>
    BY <1>6 DEF Snapshot
  <2>2. now \in 1 .. now
    BY <1>0, <2>1, Bounds
  <2>. QED BY <1>0, <2>1, <2>2 DEF PoolTypes
<1>7. CASE Tag
  <2>1. /\ step = "tag" /\ step' = "prepare" /\ untagged' = untagged \ {now} /\ snapshots' = snapshots \cup {now}
        /\ UNCHANGED <<exported, length, schedule, now, base>>
    BY <1>7 DEF Tag
  <2>2. now \in 1 .. now
    BY <1>0, <2>1, Bounds
  <2>. QED BY <1>0, <2>1, <2>2 DEF PoolTypes
<1>8. CASE SetLength
  <2>1. /\ step = "length" /\ step' = "mark"
        /\ UNCHANGED <<untagged, snapshots, exported, schedule, now, base>>
        /\ length' = [length EXCEPT ![now] = IF base = None THEN 0 ELSE length[base] + 1]
    BY <1>8 DEF SetLength
  <2>2. now \in Runs /\ now \in Nat /\ MaxRuns \in Nat
    BY <1>0, <2>1, Bounds DEF Runs
  <2>3. base # None => base \in Runs /\ base < now
    BY <1>0, <2>2 DEF PoolTypes, Runs
  <2>4. base # None => length[base] + 1 \in Nat /\ length[base] + 1 < now
    BY <1>0, <2>2, <2>3 DEF PoolTypes, Runs
  <2>5. length' \in [Runs -> Nat] /\ \A k \in Runs : length'[k] < k
    BY <1>0, <2>1, <2>2, <2>4 DEF PoolTypes
  <2>. QED BY <1>0, <2>1, <2>5 DEF PoolTypes
<1>9. CASE Mark
  <2>1. now \in Runs
    BY <1>0, <1>9, Bounds DEF Mark, Runs
  <2>. QED BY <1>0, <1>9, <2>1 DEF Mark, PoolTypes
<1>10. CASE Export \/ BeginChain \/ BeginLength \/ EndCleanup \/ End \/ Crash
  <2>1. UNCHANGED <<untagged, snapshots, exported, length, schedule, now, base>> /\ step' \notin Early
    BY <1>10 DEF Export, BeginChain, BeginLength, EndCleanup, End, Crash, Early
  <2>. QED BY <1>0, <2>1 DEF PoolTypes, Early
<1>11. CASE UNCHANGED vars
  BY <1>0, <1>11 DEF PoolTypes
<1>. QED BY <1>1, <1>2, <1>3, <1>4, <1>5, <1>6, <1>7, <1>8, <1>9, <1>10, <1>11, NextSteps DEF RunStep


LEMMA FileStep ==
  ASSUME Types, [Next]_vars
  PROVE  FileTypes'
<1>. USE DEF pool, files, choices, run, history, vars
<1>0. FileTypes /\ now \in 0 .. MaxRuns /\ (step # "idle" => now \in Runs)
  BY Bounds DEF Types, RunTypes, Runs
<1>1. ASSUME NEW r \in Remotes, RemoteStep(r) PROVE FileTypes'
  <2>1. CASE BeforeBackup(r) \/ AfterBackup(r) \/ WriterFails(r) \/ TransferFails(r) \/ CacheDiverges(r) \/ OtherScan(r)
    <3>1. UNCHANGED <<vhds, parent, named, jsons, old, done, deleted>>
      BY <2>1 DEF BeforeBackup, AfterBackup, WriterFails, TransferFails, CacheDiverges, OtherScan, Fail
    <3>. QED BY <1>0, <3>1 DEF FileTypes
  <2>2. CASE EndBeforeBackup(r) \/ EndAfterBackup(r) \/ OtherClean(r)
    <3>1. PICK c \in Cleaners : Clean(r, c)
      BY <2>2 DEF EndBeforeBackup, EndAfterBackup, OtherClean, Cleaners
    <3>2. UNCHANGED <<old, done, deleted>>
      BY <2>2 DEF EndBeforeBackup, EndAfterBackup, OtherClean
    <3>. QED BY <1>0, <3>1, <3>2, CleanType DEF FileTypes
  <2>3. CASE Prepare(r)
    <3>1. UNCHANGED <<vhds, parent, named, jsons, done, deleted>> /\ old' = [old EXCEPT ![r] = OldEntries(r)]
      BY <2>3 DEF Prepare
    <3>2. OldEntries(r) \subseteq Runs
      BY EntriesType DEF OldEntries, GetOldEntries, Listed
    <3>. QED BY <1>0, <3>1, <3>2 DEF FileTypes
  <2>4. CASE DeleteOldEntry(r) \/ \E k \in Runs : DeleteBackup(r, k)
    <3>1. ASSUME NEW k \in Runs, jsons' = [jsons EXCEPT ![r] = @ \ {k}],
                 deleted' \in {deleted, [deleted EXCEPT ![r] = @ \cup {k}]},
                 old' \in {old, [old EXCEPT ![r] = @ \ {k}]}, UNCHANGED <<vhds, parent, named, done>>
          PROVE  FileTypes'
      <4>1. jsons' \in [Remotes -> SUBSET Runs] /\ old' \in [Remotes -> SUBSET Runs]
        BY <1>0, <3>1 DEF FileTypes
      <4>2. [deleted EXCEPT ![r] = deleted[r] \cup {k}] \in [Remotes -> SUBSET Runs]
        BY <1>0 DEF FileTypes
      <4>. QED BY <1>0, <3>1, <4>1, <4>2 DEF FileTypes
    <3>2. CASE DeleteOldEntry(r)
      <4>1. PICK k \in Latest(1, old[r]) :
                /\ jsons' = [jsons EXCEPT ![r] = @ \ {k}]
                /\ old' = [old EXCEPT ![r] = @ \ {k}]
        BY <3>2 DEF DeleteOldEntry
      <4>2. k \in Runs
        BY <1>0, LatestSubset DEF FileTypes
      <4>. QED BY <3>1, <3>2, <4>1, <4>2 DEF DeleteOldEntry
    <3>. QED BY <2>4, <3>1, <3>2 DEF DeleteBackup
  <2>5. CASE WriteVhd(r)
    <3>1. /\ vhds' = [vhds EXCEPT ![r] = @ \cup {now}]
          /\ parent' = [parent EXCEPT ![r][now] = IF differencing THEN Unchained ELSE Full]
          /\ UNCHANGED <<named, jsons, old, done, deleted>> /\ now \in Runs
      BY <1>0, <2>5 DEF WriteVhd
    <3>2. Full < now /\ Full \in Parents /\ Unchained \in Parents
      BY <3>1, Bounds DEF Runs, Full, Parents
    <3>3. \A q \in Remotes : Older(parent'[q])
      BY <1>0, <3>1, <3>2 DEF FileTypes, Older
    <3>. QED BY <1>0, <3>1, <3>3 DEF FileTypes, Older
  <2>6. CASE WriteMetadata(r)
    BY <1>0, <2>6 DEF WriteMetadata, FileTypes
  <2>7. CASE Chain(r)
    <3>1. \/ UNCHANGED <<files, old, done, deleted>>
          \/ /\ parent' = [parent EXCEPT ![r][now] = base] /\ base \in vhds[r]
             /\ UNCHANGED <<vhds, named, jsons, old, done, deleted>> /\ now \in Runs
      BY <1>0, <2>7 DEF Chain
    <3>2. base \in vhds[r] => base \in Parents /\ base < now
      <4>1. base \in vhds[r] => base \in Runs /\ base \in Nat /\ base # None
        BY <1>0, Bounds DEF FileTypes, Runs
      <4>. QED BY <4>1, <1>0, Bounds DEF Types, PoolTypes, Parents
    <3>3. CASE UNCHANGED <<files, old, done, deleted>>
      BY <1>0, <3>3 DEF FileTypes
    <3>4. CASE ~UNCHANGED <<files, old, done, deleted>>
      <4>1. /\ parent' = [parent EXCEPT ![r][now] = base] /\ now \in Runs
            /\ UNCHANGED <<vhds, named, jsons, old, done, deleted>>
            /\ base \in Parents /\ base < now
        BY <3>1, <3>2, <3>4
      <4>2. \A q \in Remotes : Older(parent'[q])
        BY <1>0, <4>1 DEF FileTypes, Older
      <4>. QED BY <1>0, <4>1, <4>2 DEF FileTypes, Older
    <3>. QED BY <3>3, <3>4
  <2>8. CASE UpdateUuid(r)
    BY <1>0, <2>8, SMTT(20) DEF UpdateUuid, FileTypes
  <2>. QED BY <1>1, <2>1, <2>2, <2>3, <2>4, <2>5, <2>6, <2>7, <2>8 DEF RemoteStep
<1>2. ASSUME RunStep \/ UNCHANGED vars PROVE FileTypes'
  <2>1. CASE EndCleanup
    BY <1>0, <2>1 DEF EndCleanup, FileTypes
  <2>2. ASSUME NEW s \in Schedules, Start(s) PROVE FileTypes'
    BY <1>0, <2>2 DEF Start, FileTypes
  <2>3. CASE BeginSelect \/ SelectBase \/ RemoveUnused \/ Snapshot \/ Tag \/ Export \/ BeginChain \/ BeginLength
             \/ SetLength \/ Mark \/ FinallyRemove \/ End \/ PoolFails \/ Crash \/ UNCHANGED vars
    <3>1. UNCHANGED <<files, old, done, deleted>>
      BY <2>3 DEF BeginSelect, SelectBase, RemoveUnused, Snapshot, Tag, Export, BeginChain, BeginLength,
             SetLength, Mark, FinallyRemove, End, PoolFails, Crash, Fail
    <3>. QED BY <1>0, <3>1 DEF FileTypes
  <2>. QED BY <1>2, <2>1, <2>2, <2>3 DEF RunStep
<1>. QED BY <1>1, <1>2, NextSteps

\* A change of one entry of the cache, if there is one.
LEMMA UpdateCacheType ==
  ASSUME Types, NEW r \in Remotes, NEW removed, NEW added \in SUBSET Runs, UpdateCache(r, removed, added)
  PROVE  cache' \in [Remotes -> Caches]
<1>1. cache \in [Remotes -> Caches] /\ cache[r] \in Caches
  BY DEF Types, ListTypes
<1>2. cache[r] # None => (cache[r] \ removed) \cup added \in SUBSET Runs
  BY <1>1, CachesAre
<1>3. cache[r] # None => (cache[r] \ removed) \cup added \in Caches
  BY <1>2, CachesAre
<1>. QED BY <1>1, <1>3 DEF UpdateCache

LEMMA ListStep ==
  ASSUME Types, [Next]_vars
  PROVE  ListTypes'
<1>. USE DEF pool, files, choices, run, history, vars
<1>0. ListTypes /\ FileTypes /\ now \in 0 .. MaxRuns /\ (step # "idle" => now \in Runs)
  BY Bounds DEF Types, RunTypes, Runs
<1>1. ASSUME NEW r \in Remotes, RemoteStep(r) PROVE ListTypes'
  <2>1. CASE BeforeBackup(r) \/ WriteVhd(r) \/ Chain(r) \/ UpdateUuid(r) \/ AfterBackup(r) \/ WriterFails(r)
             \/ TransferFails(r) \/ OtherScan(r)
    <3>1. UNCHANGED <<cache, expired, listed>>
      BY <2>1 DEF BeforeBackup, WriteVhd, Chain, UpdateUuid, AfterBackup, WriterFails, TransferFails, OtherScan, Fail
    <3>. QED BY <1>0, <3>1 DEF ListTypes
  <2>2. CASE EndBeforeBackup(r) \/ EndAfterBackup(r) \/ OtherClean(r)
    <3>1. PICK c \in Cleaners : Clean(r, c)
      BY <2>2 DEF EndBeforeBackup, EndAfterBackup, OtherClean, Cleaners
    <3>2. UNCHANGED <<expired, listed>>
      BY <2>2 DEF EndBeforeBackup, EndAfterBackup, OtherClean
    <3>. QED BY <1>0, <3>1, <3>2, CleanType DEF ListTypes
  <2>3. CASE Prepare(r)
    <3>1. /\ cache' = [cache EXCEPT ![r] = Entries(r)] /\ listed' = [listed EXCEPT ![r] = Entries(r)]
          /\ expired' = expired
      BY <2>3 DEF Prepare
    <3>. QED BY <1>0, <3>1, EntriesType, CachesAre DEF ListTypes
  <2>4. CASE DeleteOldEntry(r)
    <3>1. PICK k \in Latest(1, old[r]) : expired' = [expired EXCEPT ![r] = @ \cup {k}] /\ UpdateCache(r, {k}, {})
      BY <2>4 DEF DeleteOldEntry
    <3>2. k \in Runs /\ listed' = listed
      BY <1>0, <2>4, LatestSubset DEF DeleteOldEntry, FileTypes
    <3>3. cache' \in [Remotes -> Caches]
      BY <3>1, UpdateCacheType
    <3>. QED BY <1>0, <3>1, <3>2, <3>3 DEF ListTypes
  <2>5. CASE WriteMetadata(r)
    <3>1. UpdateCache(r, {}, {now}) /\ now \in Runs /\ UNCHANGED <<expired, listed>>
      BY <1>0, <2>5 DEF WriteMetadata
    <3>. QED BY <1>0, <3>1, UpdateCacheType DEF ListTypes
  <2>6. ASSUME NEW k \in Runs, DeleteBackup(r, k) PROVE ListTypes'
    <3>1. UpdateCache(r, {k}, {}) /\ UNCHANGED <<expired, listed>>
      BY <2>6 DEF DeleteBackup
    <3>. QED BY <1>0, <3>1, UpdateCacheType DEF ListTypes
  <2>7. CASE CacheDiverges(r)
    <3>1. PICK names \in (SUBSET (jsons[r] \cup deleted[r] \cup expired[r])) \cup {None} : cache' = [cache EXCEPT ![r] = names]
      BY <2>7 DEF CacheDiverges
    <3>2. names \in SUBSET Runs \/ names = None
      BY <1>0 DEF FileTypes, ListTypes
    <3>3. UNCHANGED <<expired, listed>>
      BY <2>7 DEF CacheDiverges, Fail
    <3>. QED BY <1>0, <3>1, <3>2, <3>3, CachesAre DEF ListTypes
  <2>. QED BY <1>1, <2>1, <2>2, <2>3, <2>4, <2>5, <2>6, <2>7 DEF RemoteStep
<1>2. CASE RunStep \/ UNCHANGED vars
  <2>1. UNCHANGED <<cache, expired>> /\ listed' \in {listed, [r \in Remotes |-> {}]}
    BY <1>2 DEF RunStep, Start, BeginSelect, SelectBase, RemoveUnused, Snapshot, Tag, Export, BeginChain,
         BeginLength, SetLength, Mark, EndCleanup, FinallyRemove, End, PoolFails, Crash, Fail
  <2>. QED BY <1>0, <2>1 DEF ListTypes
<1>. QED BY <1>1, <1>2, NextSteps

LEMMA LoseWriterRun ==
  ASSUME RunTypes, NEW r \in Remotes, NEW next \in {"after", "finally"}, LoseWriter(r, next)
  PROVE  /\ step' \in {step, next} /\ failed' \in BOOLEAN /\ writers' = writers \ {r} /\ busy' \subseteq busy \cup held
         /\ step' = step => busy' = busy \ {r} \/ busy' = {} \/ busy' = held
         /\ busy' \subseteq writers' \cup held
         /\ step' = "after" => busy' \subseteq held
  BY DEF LoseWriter, RunTypes

LEMMA RunTypeStep ==
  ASSUME Types, [Next]_vars
  PROVE  RunTypes'
<1>. USE DEF pool, files, choices, run, history, vars
<1>0. RunTypes
  BY DEF Types
<1>1. ASSUME NEW r \in Remotes, RemoteStep(r) PROVE RunTypes'
  <2>1. ASSUME NEW next \in {"after", "finally"}, LoseWriter(r, next), step \notin {"idle", "after"},
               UNCHANGED <<now, differencing, held, written, chained>>, faults' \in 0 .. MaxFaults
        PROVE  RunTypes'
    BY <1>0, <2>1, LoseWriterRun DEF RunTypes, Steps
  <2>2. CASE BeforeBackup(r)
    <3>1. CASE LoseWriter(r, "after") /\ UNCHANGED <<held, plan>>
      BY <1>0, <2>1, <2>2, <3>1 DEF BeforeBackup, RunTypes
    <3>2. CASE held' = held \cup {r} /\ UNCHANGED <<step, failed, writers, busy>>
      BY <1>0, <2>2, <3>2 DEF BeforeBackup, RunTypes
    <3>. QED BY <2>2, <3>1, <3>2 DEF BeforeBackup
  <2>3. CASE Chain(r)
    BY <1>0, <2>1, <2>3 DEF Chain, RunTypes
  <2>4. CASE UpdateUuid(r)
    BY <1>0, <2>1, <2>4 DEF UpdateUuid, RunTypes
  <2>5. CASE WriterFails(r)
    <3>1. faults' \in 0 .. MaxFaults
      BY <1>0, <2>5, Bounds DEF WriterFails, Fail, RunTypes
    <3>. QED BY <1>0, <2>1, <2>5, <3>1 DEF WriterFails
  <2>6. CASE EndBeforeBackup(r) \/ Prepare(r) \/ DeleteOldEntry(r) \/ WriteVhd(r) \/ WriteMetadata(r)
    BY <1>0, <2>6 DEF EndBeforeBackup, Prepare, DeleteOldEntry, WriteVhd, WriteMetadata, RunTypes
  <2>7. CASE EndAfterBackup(r)
    BY <1>0, <2>7 DEF EndAfterBackup, RunTypes
  <2>8. CASE TransferFails(r)
    <3>1. faults' \in 0 .. MaxFaults
      BY <1>0, <2>8, Bounds DEF TransferFails, Fail, RunTypes
    <3>. QED BY <1>0, <2>8, <3>1 DEF TransferFails, RunTypes
  <2>9. CASE CacheDiverges(r)
    <3>1. faults' \in 0 .. MaxFaults
      BY <1>0, <2>9, Bounds DEF CacheDiverges, Fail, RunTypes
    <3>. QED BY <1>0, <2>9, <3>1 DEF CacheDiverges, RunTypes
  <2>10. CASE AfterBackup(r) \/ OtherScan(r) \/ OtherClean(r) \/ \E k \in Runs : DeleteBackup(r, k)
    <3>1. UNCHANGED <<run, faults>>
      BY <2>10 DEF AfterBackup, OtherScan, OtherClean, DeleteBackup
    <3>. QED BY <1>0, <3>1 DEF RunTypes
  <2>. QED BY <1>1, <2>2, <2>3, <2>4, <2>5, <2>6, <2>7, <2>8, <2>9, <2>10 DEF RemoteStep
<1>2. CASE RunStep
  <2>1. ASSUME NEW s \in Schedules, Start(s) PROVE RunTypes'
    <3>1. now' \in 0 .. MaxRuns /\ now' # 0
      BY <1>0, <2>1, Bounds DEF Start, RunTypes
    <3>. QED BY <1>0, <2>1, <3>1 DEF Start, RunTypes, Steps
  <2>2. CASE BeginSelect \/ SelectBase \/ RemoveUnused \/ Snapshot \/ Tag
    BY <1>0, <2>2 DEF BeginSelect, SelectBase, RemoveUnused, Snapshot, Tag, RunTypes, Steps
  <2>3. CASE Export \/ BeginChain \/ BeginLength \/ SetLength \/ Mark
    BY <1>0, <2>3 DEF Export, BeginChain, BeginLength, SetLength, Mark, RunTypes, Steps
  <2>4. CASE EndCleanup \/ FinallyRemove \/ End
    BY <1>0, <2>4 DEF EndCleanup, FinallyRemove, End, RunTypes, Steps
  <2>5. CASE PoolFails \/ Crash
    <3>1. faults' \in 0 .. MaxFaults
      BY <1>0, <2>5, Bounds DEF PoolFails, Crash, Fail, RunTypes
    <3>2. PoolFails => step # "idle"
      BY DEF PoolFails
    <3>. QED BY <1>0, <2>5, <3>1, <3>2 DEF PoolFails, Crash, RunTypes, Steps
  <2>. QED BY <1>2, <2>1, <2>2, <2>3, <2>4, <2>5 DEF RunStep
<1>3. CASE UNCHANGED vars
  BY <1>0, <1>3 DEF RunTypes
<1>. QED BY <1>1, <1>2, <1>3, NextSteps

LEMMA LockStep ==
  ASSUME Types, [Next]_vars
  PROVE  LockTypes'
<1>. USE DEF pool, files, choices, run, history, vars
<1>0. LockTypes
  BY DEF Types
<1>1. ASSUME NEW r \in Remotes, RemoteStep(r) PROVE LockTypes'
  <2>1. CASE BeforeBackup(r)
    <3>1. CASE UNCHANGED <<held, plan>>
      BY <1>0, <3>1 DEF LockTypes
    <3>2. CASE held' = held \cup {r} /\ Scan(r, "run", TRUE) /\ ~(Locks /\ plan[r]["other"] # None)
      BY <1>0, <3>2, ScanType DEF LockTypes, Cleaners
    <3>. QED BY <2>1, <3>1, <3>2 DEF BeforeBackup
  <2>2. CASE AfterBackup(r)
    <3>1. Scan(r, "run", ~Locks) /\ held' = held /\ r \in held
      BY <2>2 DEF AfterBackup, Types, RunTypes
    <3>. QED BY <1>0, <3>1, ScanType DEF LockTypes, Cleaners
  <2>3. CASE OtherScan(r)
    <3>1. PICK merge : Scan(r, "other", merge)
      BY <2>3 DEF OtherScan
    <3>2. held' = held /\ (Locks => r \notin held)
      BY <2>3 DEF OtherScan
    <3>. QED BY <1>0, <3>1, <3>2, ScanType DEF LockTypes, Cleaners
  <2>4. CASE EndBeforeBackup(r)
    <3>1. held' = held /\ Clean(r, "run") /\ "run" \in Cleaners
      BY <2>4 DEF EndBeforeBackup, Cleaners
    <3>2. /\ plan' = [plan EXCEPT ![r]["run"] = None]
          /\ plan' \in [Remotes -> [Cleaners -> Plans \cup {None}]]
      BY <3>1, CleanType
    <3>. QED BY <1>0, <3>1, <3>2 DEF LockTypes, Cleaners
  <2>5. CASE EndAfterBackup(r)
    BY <1>0, <2>5, CleanType DEF EndAfterBackup, LockTypes, Cleaners
  <2>6. CASE OtherClean(r)
    <3>1. held' = held /\ Clean(r, "other") /\ "other" \in Cleaners
      BY <2>6 DEF OtherClean, Cleaners
    <3>2. /\ plan' = [plan EXCEPT ![r]["other"] = None]
          /\ plan' \in [Remotes -> [Cleaners -> Plans \cup {None}]]
      BY <3>1, CleanType
    <3>. QED BY <1>0, <3>1, <3>2 DEF LockTypes, Cleaners
  <2>7. CASE Prepare(r) \/ DeleteOldEntry(r) \/ WriteVhd(r) \/ WriteMetadata(r) \/ Chain(r) \/ UpdateUuid(r)
             \/ WriterFails(r) \/ TransferFails(r) \/ CacheDiverges(r) \/ \E k \in Runs : DeleteBackup(r, k)
    <3>1. plan' = plan /\ held' = held
      BY <2>7 DEF Prepare, DeleteOldEntry, WriteVhd, WriteMetadata, Chain, UpdateUuid, WriterFails, TransferFails,
                  CacheDiverges, DeleteBackup
    <3>. QED BY <1>0, <3>1 DEF LockTypes
  <2>. QED BY <1>1, <2>1, <2>2, <2>3, <2>4, <2>5, <2>6, <2>7 DEF RemoteStep
<1>2. CASE RunStep
  <2>1. CASE Crash
    <3>1. plan' = [r \in Remotes |-> [plan[r] EXCEPT !["run"] = None]] /\ held' = {}
      BY <2>1 DEF Crash
    <3>. QED BY <1>0, <3>1 DEF LockTypes, Cleaners
  <2>2. CASE ~Crash
    <3>1. plan' = plan /\ held' = held
      BY <1>2, <2>2 DEF RunStep, Start, BeginSelect, SelectBase, RemoveUnused, Snapshot, Tag, Export, BeginChain,
             BeginLength, SetLength, Mark, EndCleanup, FinallyRemove, End, PoolFails
    <3>. QED BY <1>0, <3>1 DEF LockTypes
  <2>. QED BY <2>1, <2>2
<1>3. CASE UNCHANGED vars
  BY <1>0, <1>3 DEF LockTypes
<1>. QED BY <1>1, <1>2, <1>3, NextSteps

LEMMA TypesAlways == Spec => []Types
<1>1. Types /\ [Next]_vars => Types'
  BY PoolStep, FileStep, ListStep, RunTypeStep, LockStep DEF Types
<1>. QED BY <1>1, InitTypes, PTL DEF Spec

\* The pool, the remotes and the run keep their types: a parent is older than its
\* child, a chain is not longer than its snapshots, and a run that has the lock of
\* a remote is alone to clean it.
THEOREM TypeCorrect == Spec => []TypeOK
<1>1. Types => TypeOK
  <2>. SUFFICES ASSUME Types PROVE TypeOK
    OBVIOUS
  <2>1. length \in [Runs -> 0 .. MaxRuns]
    <3>1. \A k \in Runs : length[k] \in 0 .. MaxRuns
      BY Bounds DEF Types, PoolTypes, Runs
    <3>. QED BY <3>1 DEF Types, PoolTypes
  <2>2. base \in Runs \cup {None}
    BY Bounds DEF Types, PoolTypes, RunTypes, Runs
  <2>3. /\ untagged \cup snapshots \subseteq 1 .. now /\ untagged \cap snapshots = {}
        /\ exported \subseteq Runs /\ schedule \in [Runs -> Schedules \cup {None}]
    BY DEF Types, PoolTypes
  <2>4. /\ {vhds, named, jsons, old, done, deleted, expired, listed} \subseteq [Remotes -> SUBSET Runs]
        /\ parent \in [Remotes -> [Runs -> Runs \cup {Full, Unchained}]]
        /\ \A r \in Remotes, k \in Runs : parent[r][k] < k \/ parent[r][k] = Unchained
    BY DEF Types, FileTypes, ListTypes, Parents, Older
  <2>5. /\ step \in Steps /\ now \in 0 .. MaxRuns /\ failed \in BOOLEAN /\ differencing \in BOOLEAN
        /\ {writers, held, busy, written, chained} \subseteq SUBSET Remotes
        /\ busy \subseteq writers \cup held /\ faults \in 0 .. MaxFaults
    BY DEF Types, RunTypes
  <2>6. Locks => \A r \in Remotes : plan[r]["run"] # None => r \in held /\ plan[r]["other"] = None
    BY DEF Types, LockTypes
  <2>7. \A r \in Remotes : cache[r] = None \/ cache[r] \in SUBSET Runs
    BY CachesAre DEF Types, ListTypes
  <2>. QED BY <2>1, <2>2, <2>3, <2>4, <2>5, <2>6, <2>7 DEF TypeOK
<1>. QED BY <1>1, TypesAlways, PTL


-----------------------------------------------------------------------------
(* Retention. *)

LEMMA FiniteRuns ==
    /\ \A set \in SUBSET Runs : IsFiniteSet(set) /\ Cardinality(set) \in Nat /\ Cardinality(set) <= MaxRuns
    /\ \A small, set \in SUBSET Runs : small \subseteq set => Cardinality(small) <= Cardinality(set)
<1>1. IsFiniteSet(1 .. MaxRuns)
  BY Bounds, FS_Interval
<1>2. Cardinality(1 .. MaxRuns) = MaxRuns
  BY Bounds, FS_Interval
<1>3. IsFiniteSet(Runs) /\ Cardinality(Runs) = MaxRuns
  BY <1>1, <1>2 DEF Runs
<1>4. \A set \in SUBSET Runs : IsFiniteSet(set)
  BY <1>3, FS_Subset
<1>. QED BY <1>3, <1>4, FS_Subset, FS_CardinalityType

\* There are at most n latest ones: those after the oldest of them, and itself.
LEMMA LatestCardinality ==
  ASSUME NEW set \in SUBSET Runs, NEW n \in Int
  PROVE  /\ Latest(n, set) \in SUBSET set
         /\ n <= 0 => Latest(n, set) = {}
         /\ n >= 0 => Cardinality(Latest(n, set)) <= n
<1>1. Latest(n, set) \in SUBSET set /\ Latest(n, set) \in SUBSET Runs
  BY LatestSubset
<1>2. \A k \in Runs : {j \in set : j > k} \in SUBSET Runs
  OBVIOUS
<1>3. ASSUME n <= 0 PROVE Latest(n, set) = {}
  BY <1>2, <1>3, FiniteRuns DEF Latest
<1>4. ASSUME n >= 0, Latest(n, set) # {} PROVE Cardinality(Latest(n, set)) <= n
  <2>1. Runs \subseteq Nat
    BY DEF Runs
  <2>2. PICK k \in Latest(n, set) : \A j \in Latest(n, set) : <<j, k>> \notin OpToRel(<, Nat)
    BY <1>1, <1>4, <2>1, WFMin, NatLessThanWellFounded
  <2>3. \A j \in Latest(n, set) : ~(j < k)
    BY <1>1, <2>1, <2>2 DEF OpToRel
  <2>. DEFINE after == {j \in set : j > k}
  <2>0. k \in set /\ k \in Nat /\ k \in Runs /\ \A j \in set : j \in Nat
    BY <1>1, <2>1, <2>2
  <2>4. Latest(n, set) \subseteq after \cup {k}
    <3>1. ASSUME NEW j \in Latest(n, set) PROVE j \in after \cup {k}
      <4>1. j \in set /\ j \in Nat /\ ~(j < k)
        BY <1>1, <2>0, <2>3
      <4>. QED BY <2>0, <4>1
    <3>. QED BY <3>1
  <2>5. after \in SUBSET Runs /\ k \in Runs /\ k \notin after
    <3>1. ~(k > k)
      BY <2>0
    <3>. QED BY <2>0, <3>1
  <2>6. Cardinality(after) < n
    BY <2>2 DEF Latest
  <2>. HIDE DEF after
  <2>7. Cardinality(after \cup {k}) = Cardinality(after) + 1
    BY <2>5, FiniteRuns, FS_AddElement
  <2>8. after \cup {k} \in SUBSET Runs
    BY <2>5
  <2>9. Cardinality(Latest(n, set)) <= Cardinality(after \cup {k})
    BY <1>1, <2>4, <2>8, FiniteRuns
  <2>. QED BY <1>1, <2>5, <2>6, <2>7, <2>8, <2>9, FiniteRuns
<1>5. Cardinality({}) = 0
  BY FS_EmptySet
<1>. QED BY <1>1, <1>3, <1>4, <1>5

Exporting == {"transfer", "chain", "length", "mark", "cleanup"}

\* The backups of the schedule among those that the list named, and what the
\* choice of the old entries leaves of them, the new backup aside.
Known(r)   == {k \in jsons[r] \cap listed[r] : schedule[k] = schedule[now]}
Left(r)    == (Known(r) \ old[r]) \ {now}
Counted(r) == {k \in jsons[r] \cap (listed[r] \cup {now}) : schedule[k] = schedule[now]}

\* The old entries of r are chosen, and they are deleted.
Chosen(r)  == step \in Exporting \/ (step = "prepare" /\ (r \notin busy \/ old[r] # {}))
Emptied(r) ==
    \/ DeleteFirst /\ (step \in Exporting \/ (step = "prepare" /\ r \notin busy))
    \/ step = "cleanup" /\ r \notin busy

Retention ==
    \A r \in writers :
        /\ Chosen(r) => Cardinality(Left(r)) < ExportRetention
        /\ Emptied(r) => old[r] = {}
        /\ step = "finally" /\ ~failed => Cardinality(Counted(r)) <= ExportRetention

LEMMA LeftType ==
  ASSUME Types, NEW r \in Remotes
  PROVE  Left(r) \in SUBSET Runs /\ Counted(r) \in SUBSET Runs /\ Listed(r, schedule[now]) \in SUBSET Runs
  BY EntriesType DEF Types, FileTypes, Left, Known, Counted, Listed

\* Entries go, and no others are chosen.
LEMMA RetentionSame ==
  ASSUME Types, Retention, UNCHANGED <<schedule, now>>, writers' \subseteq writers,
         step' = "finally" /\ ~failed' => step = "finally" /\ ~failed,
         \A r \in writers' :
             /\ step' = "finally" => Counted(r)' \subseteq Counted(r)
             /\ Left(r)' \subseteq Left(r)
             /\ Chosen(r)' => Chosen(r)
             /\ Emptied(r)' => old'[r] = {}
  PROVE  Retention'
<1>. SUFFICES ASSUME NEW r \in writers'
              PROVE  /\ Chosen(r)' => Cardinality(Left(r)') < ExportRetention
                     /\ Emptied(r)' => old'[r] = {}
                     /\ step' = "finally" /\ ~failed' => Cardinality(Counted(r)') <= ExportRetention
  BY DEF Retention
<1>1. r \in Remotes /\ r \in writers
  BY DEF Types, RunTypes
<1>2. ASSUME Chosen(r)' PROVE Cardinality(Left(r)') < ExportRetention
  <2>1. Left(r)' \subseteq Left(r) /\ Left(r) \in SUBSET Runs /\ Cardinality(Left(r)) < ExportRetention
    BY <1>1, <1>2, LeftType DEF Retention
  <2>2. Left(r)' \in SUBSET Runs
    BY <2>1
  <2>3. /\ Cardinality(Left(r)') \in Nat /\ Cardinality(Left(r)) \in Nat
        /\ Cardinality(Left(r)') <= Cardinality(Left(r))
    BY <2>1, <2>2, FiniteRuns
  <2>. QED BY <2>1, <2>3, Bounds
<1>3. ASSUME step' = "finally", ~failed' PROVE Cardinality(Counted(r)') <= ExportRetention
  <2>2. Counted(r)' \subseteq Counted(r)
    BY <1>3
  <2>3. Cardinality(Counted(r)) <= ExportRetention /\ Counted(r) \in SUBSET Runs
    BY <1>1, <1>3, LeftType DEF Retention
  <2>4. Counted(r)' \in SUBSET Runs
    BY <2>2, <2>3
  <2>5. /\ Cardinality(Counted(r)') \in Nat /\ Cardinality(Counted(r)) \in Nat
        /\ Cardinality(Counted(r)') <= Cardinality(Counted(r))
    BY <2>2, <2>3, <2>4, FiniteRuns
  <2>. QED BY <2>3, <2>5, Bounds
<1>. QED BY <1>2, <1>3

LEMMA RetentionInit == Init => Retention
  BY DEF Init, Retention


\* The choice, when it is not limited: all but ExportRetention - 1.
LEMMA PrepareRetention ==
  ASSUME Types, NEW r \in Remotes, MaxRuns <= MaxMergedDeltasPerRun
  PROVE  Cardinality(Listed(r, schedule[now]) \ OldEntries(r)) < ExportRetention
<1>. DEFINE found   == Listed(r, schedule[now])
            entries == GetOldEntries(ExportRetention - 1, found)
            kept    == Latest(ExportRetention - 1, found)
<1>1. found \in SUBSET Runs
  BY LeftType
<1>2. entries = found \ kept
  BY DEF GetOldEntries
<1>. HIDE DEF found
<1>3. kept \in SUBSET found /\ Cardinality(kept) <= ExportRetention - 1
  BY <1>1, LatestCardinality, Bounds
<1>4. entries \in SUBSET Runs
  BY <1>1, <1>2
<1>. HIDE DEF entries
<1>5. Cardinality(entries) - MaxMergedDeltasPerRun \in Int /\ Cardinality(entries) - MaxMergedDeltasPerRun <= 0
  BY <1>4, FiniteRuns, Bounds
<1>6. Latest(Cardinality(entries) - MaxMergedDeltasPerRun, entries) = {}
  BY <1>4, <1>5, LatestCardinality
<1>7. OldEntries(r) = entries
  BY <1>6 DEF OldEntries, entries, found
<1>8. found \ OldEntries(r) = kept
  BY <1>2, <1>3, <1>7
<1>9. kept \in SUBSET Runs
  BY <1>1, <1>3
<1>. HIDE DEF kept
<1>10. Cardinality(kept) < ExportRetention
  BY <1>3, <1>9, FiniteRuns, Bounds
<1>. QED BY <1>8, <1>10 DEF found

\* No entry is chosen before the writers prepare.
Unchosen == step \in Early \cup {"tag"} => \A r \in Remotes : old[r] = {}

LEMMA UnchosenStep ==
  ASSUME Types, Unchosen, [Next]_vars
  PROVE  Unchosen'
<1>. USE DEF pool, files, choices, run, history, vars
<1>1. ASSUME NEW r \in Remotes, RemoteStep(r) PROVE Unchosen'
  <2>1. step' = step \/ step' \in {"after", "finally"}
    BY <1>1, RemotePool
  <2>2. old' = old \/ step \in {"prepare", "cleanup"}
    BY <1>1 DEF RemoteStep, BeforeBackup, EndBeforeBackup, Prepare, DeleteOldEntry, WriteVhd, WriteMetadata, Chain,
         UpdateUuid, AfterBackup, EndAfterBackup, WriterFails, TransferFails, CacheDiverges, OtherScan, OtherClean, DeleteBackup
  <2>. QED BY <2>1, <2>2 DEF Unchosen, Early
<1>2. ASSUME NEW s \in Schedules, Start(s) PROVE Unchosen'
  BY <1>2 DEF Start, Unchosen
<1>3. CASE BeginSelect \/ SelectBase \/ RemoveUnused \/ Snapshot \/ UNCHANGED vars
  BY <1>3 DEF BeginSelect, SelectBase, RemoveUnused, Snapshot, Unchosen, Early
<1>4. CASE Tag \/ Export \/ BeginChain \/ BeginLength \/ SetLength \/ Mark \/ EndCleanup \/ FinallyRemove \/ End
           \/ PoolFails \/ Crash
  <2>1. step' \notin Early \cup {"tag"}
    BY <1>4 DEF Tag, Export, BeginChain, BeginLength, SetLength, Mark, EndCleanup, FinallyRemove, End, PoolFails,
         Crash, Early
  <2>. QED BY <2>1 DEF Unchosen
<1>. QED BY <1>1, <1>2, <1>3, <1>4, NextSteps DEF RunStep

LEMMA RetentionStep ==
  ASSUME Types, Retention, Unchosen, MaxRuns <= MaxMergedDeltasPerRun, [Next]_vars
  PROVE  Retention'
<1>. USE DEF pool, files, choices, run, history, vars
<1>0. /\ FileTypes /\ writers \in SUBSET Remotes /\ (step # "idle" => now \in Runs)
  BY Bounds DEF Types, RunTypes, Runs
<1>1. ASSUME NEW r \in Remotes, RemoteStep(r) PROVE Retention'
  <2>0. UNCHANGED <<schedule, now>>
    BY <1>1, RemotePool
  <2>1. CASE BeforeBackup(r) \/ AfterBackup(r) \/ OtherScan(r)
    <3>1. /\ UNCHANGED <<jsons, listed, old, step>> \/ step' = "after"
          /\ UNCHANGED busy \/ step \in {"before", "after"}
          /\ writers' \subseteq writers /\ (step' = step => failed' = failed)
      BY <2>1 DEF BeforeBackup, AfterBackup, OtherScan, LoseWriter
    <3>2. step' \in {"before", "after"} => Retention'
      BY DEF Retention, Chosen, Emptied, Exporting
    <3>3. ASSUME step' \notin {"before", "after"} PROVE Retention'
      <4>1. UNCHANGED <<jsons, listed, old, step, busy, failed>>
        BY <3>1, <3>3
      <4>. QED BY <2>0, <3>1, <4>1, RetentionSame DEF Retention, Left, Known, Counted, Chosen, Emptied
    <3>. QED BY <3>2, <3>3
  <2>2. CASE EndBeforeBackup(r) \/ EndAfterBackup(r) \/ OtherClean(r) \/ CacheDiverges(r)
             \/ \E k \in Runs : DeleteBackup(r, k)
    <3>1. \A q \in Remotes : jsons'[q] \subseteq jsons[q]
      <4>1. \A c \in Cleaners : Clean(r, c) => jsons' = [jsons EXCEPT ![r] = @ \ plan[r][c].forget]
        BY DEF Clean
      <4>2. ASSUME NEW gone, jsons' = [jsons EXCEPT ![r] = @ \ gone] PROVE \A q \in Remotes : jsons'[q] \subseteq jsons[q]
        BY <1>0, <4>2 DEF FileTypes
      <4>. QED BY <2>2, <4>1, <4>2 DEF EndBeforeBackup, EndAfterBackup, OtherClean, CacheDiverges, DeleteBackup, Cleaners
    <3>2. /\ UNCHANGED <<step, failed, writers, old, listed>>
          /\ UNCHANGED busy \/ step \in {"before", "after"}
      BY <2>2 DEF EndBeforeBackup, EndAfterBackup, OtherClean, CacheDiverges, DeleteBackup, Fail
    <3>3. \A q \in writers' : /\ Left(q)' \subseteq Left(q) /\ Counted(q)' \subseteq Counted(q)
                              /\ Chosen(q)' => Chosen(q)
                              /\ Emptied(q)' => Emptied(q)
      BY <1>0, <2>0, <3>1, <3>2 DEF Left, Known, Counted, Chosen, Emptied, Exporting
    <3>. QED BY <1>0, <2>0, <3>1, <3>2, <3>3, RetentionSame DEF Retention
  <2>3. CASE Prepare(r)
    <3>1. /\ step = "prepare" /\ r \in busy /\ old[r] = {} /\ UNCHANGED <<jsons, step, failed, writers>>
          /\ old' = [old EXCEPT ![r] = OldEntries(r)]
          /\ busy' = IF DeleteFirst /\ old'[r] # {} THEN busy ELSE busy \ {r}
      BY <2>3 DEF Prepare
    <3>2. old'[r] = OldEntries(r) /\ listed'[r] = Entries(r) /\ \A q \in Remotes : q # r => listed'[q] = listed[q]
      BY <1>0, <2>3, <3>1 DEF Prepare, FileTypes, Types, ListTypes
    <3>3. Cardinality(Left(r)') < ExportRetention
      <4>1. Known(r)' \subseteq Listed(r, schedule[now])
        BY <2>0, <3>2 DEF Known, Listed
      <4>2. Listed(r, schedule[now]) \ OldEntries(r) \in SUBSET Runs
        BY LeftType
      <4>3. Left(r)' \subseteq (Listed(r, schedule[now]) \ OldEntries(r)) \ {now}
        BY <2>0, <3>2, <4>1 DEF Left
      <4>4. Left(r)' \in SUBSET Runs /\ Left(r)' \subseteq Listed(r, schedule[now]) \ OldEntries(r)
        BY <4>2, <4>3
      <4>5. /\ Cardinality(Left(r)') \in Nat /\ Cardinality(Listed(r, schedule[now]) \ OldEntries(r)) \in Nat
            /\ Cardinality(Left(r)') <= Cardinality(Listed(r, schedule[now]) \ OldEntries(r))
        BY <4>2, <4>4, FiniteRuns
      <4>. QED BY <4>5, PrepareRetention, Bounds
    <3>4. \A q \in writers : q # r => Left(q)' = Left(q) /\ old'[q] = old[q] /\ (q \in busy' <=> q \in busy)
      BY <1>0, <2>0, <3>1, <3>2 DEF FileTypes, Left, Known
    <3>5. ASSUME NEW q \in writers', q # r
          PROVE  /\ Chosen(q)' => Cardinality(Left(q)') < ExportRetention
                 /\ Emptied(q)' => old'[q] = {}
      BY <3>1, <3>4, <3>5 DEF Retention, Chosen, Emptied
    <3>6. Emptied(r)' => old'[r] = {}
      BY <3>1 DEF Emptied, Exporting
    <3>. QED BY <3>1, <3>3, <3>5, <3>6 DEF Retention
  <2>4. CASE DeleteOldEntry(r)
    <3>1. PICK k \in Latest(1, old[r]) :
              /\ jsons' = [jsons EXCEPT ![r] = @ \ {k}]
              /\ old' = [old EXCEPT ![r] = @ \ {k}]
      BY <2>4 DEF DeleteOldEntry
    <3>2. /\ step = IF DeleteFirst THEN "prepare" ELSE "cleanup"
          /\ r \in busy /\ UNCHANGED <<step, failed, writers, listed>>
          /\ busy' = IF old'[r] = {} THEN busy \ {r} ELSE busy
      BY <2>4 DEF DeleteOldEntry
    <3>3. k \in old[r]
      BY LatestSubset
    <3>4. \A q \in writers : /\ jsons'[q] \subseteq jsons[q]
                             /\ Left(q)' \subseteq Left(q)
                             /\ q # r => old'[q] = old[q] /\ (q \in busy' <=> q \in busy)
      BY <1>0, <2>0, <3>1, <3>2, <3>3 DEF FileTypes, Left, Known
    <3>5. \A q \in writers' : Chosen(q)' => Chosen(q)
      BY <3>2, <3>3, <3>4 DEF Chosen, Exporting
    <3>6. \A q \in writers' : Emptied(q)' => old'[q] = {}
      BY <3>2, <3>4 DEF Retention, Emptied, Exporting
    <3>7. step' # "finally"
      BY <3>2
    <3>. QED BY <1>0, <2>0, <3>2, <3>4, <3>5, <3>6, <3>7, RetentionSame
  <2>5. CASE WriteVhd(r) \/ WriteMetadata(r) \/ TransferFails(r)
    <3>1. /\ step = "transfer" /\ UNCHANGED <<step, failed, writers, old, listed>>
          /\ jsons' = jsons \/ jsons' = [jsons EXCEPT ![r] = @ \cup {now}]
      BY <2>5 DEF WriteVhd, WriteMetadata, TransferFails, Fail
    <3>2. \A q \in writers : Left(q)' \subseteq Left(q)
      <4>1. \A q \in writers : jsons'[q] \subseteq jsons[q] \cup {now}
        BY <1>0, <3>1 DEF FileTypes
      <4>. QED BY <2>0, <3>1, <4>1 DEF Left, Known
    <3>3. \A q \in writers : (Chosen(q)' => Chosen(q)) /\ (Emptied(q)' => Emptied(q))
      BY <3>1 DEF Chosen, Emptied, Exporting
    <3>. QED BY <2>0, <3>1, <3>2, <3>3, RetentionSame DEF Retention
  <2>6. CASE Chain(r) \/ UpdateUuid(r)
    <3>1. /\ step = "chain" /\ UNCHANGED <<jsons, old, listed>> /\ writers' \subseteq writers
          /\ \/ UNCHANGED <<step, failed>>
             \/ step' = "finally" /\ failed'
      BY <2>6 DEF Chain, UpdateUuid, LoseWriter
    <3>2. \A q \in writers' : /\ Counted(q)' \subseteq Counted(q) /\ Left(q)' \subseteq Left(q)
                              /\ (Chosen(q)' => Chosen(q)) /\ (Emptied(q)' => Emptied(q))
      BY <2>0, <3>1 DEF Left, Known, Counted, Chosen, Emptied, Exporting
    <3>. QED BY <2>0, <3>1, <3>2, RetentionSame DEF Retention
  <2>7. CASE WriterFails(r)
    <3>1. /\ UNCHANGED <<jsons, old, listed>> /\ writers' = writers \ {r} /\ step \in {"before", "prepare", "chain", "cleanup"}
          /\ \/ UNCHANGED <<step, failed>> /\ busy' = busy \ {r}
             \/ step' = "finally" /\ failed'
             \/ step' = "after"
      BY <2>7 DEF WriterFails, LoseWriter, Fail
    <3>2. \A q \in writers' : /\ Counted(q)' \subseteq Counted(q) /\ Left(q)' \subseteq Left(q)
                              /\ (Chosen(q)' => Chosen(q)) /\ (Emptied(q)' => Emptied(q))
      BY <2>0, <3>1 DEF Left, Known, Counted, Chosen, Emptied, Exporting
    <3>. QED BY <2>0, <3>1, <3>2, RetentionSame DEF Retention
  <2>. QED BY <1>1, <2>1, <2>2, <2>3, <2>4, <2>5, <2>6, <2>7 DEF RemoteStep
<1>2. ASSUME NEW s \in Schedules, Start(s) PROVE Retention'
  BY <1>2 DEF Start, Retention, Chosen, Emptied, Exporting
<1>3. CASE BeginSelect \/ SelectBase \/ RemoveUnused \/ Snapshot \/ FinallyRemove \/ End \/ Crash
  <2>1. step' \in {"select", "remove", "snapshot", "tag", "after", "idle"}
    BY <1>3 DEF BeginSelect, SelectBase, RemoveUnused, Snapshot, FinallyRemove, End, Crash
  <2>. QED BY <2>1 DEF Retention, Chosen, Emptied, Exporting
<1>4. CASE Tag
  <2>1. step' = "prepare" /\ busy' = writers /\ writers' = writers
    BY <1>4 DEF Tag
  <2>2. \A q \in writers : old[q] = {}
    BY <1>0, <1>4 DEF Tag, Unchosen
  <2>. QED BY <2>1, <2>2, <1>4 DEF Tag, Retention, Chosen, Emptied, Exporting
<1>5. CASE Export \/ BeginChain \/ BeginLength \/ SetLength \/ Mark
  <2>1. /\ UNCHANGED <<schedule, now, writers, jsons, old, listed, failed>>
        /\ \/ step = "prepare" /\ busy = {} /\ step' = "transfer"
           \/ step \in Exporting /\ step' \in Exporting
        /\ step' = "cleanup" => busy' = IF DeleteFirst THEN {} ELSE {q \in writers : old[q] # {}}
    BY <1>5 DEF Export, BeginChain, BeginLength, SetLength, Mark, Exporting
  <2>2. step' # "finally"
    BY <2>1 DEF Exporting
  <2>3. \A q \in writers' : Left(q)' \subseteq Left(q) /\ (Chosen(q)' => Chosen(q))
    BY <2>1 DEF Left, Known, Chosen, Exporting
  <2>4. \A q \in writers' : Emptied(q)' => old'[q] = {}
    <3>1. step' # "prepare"
      BY <2>1 DEF Exporting
    <3>. QED BY <2>1, <3>1 DEF Retention, Emptied
  <2>. QED BY <2>1, <2>2, <2>3, <2>4, RetentionSame
<1>6. CASE EndCleanup
  <2>1. step = "cleanup" /\ busy = {} /\ step' = "finally" /\ UNCHANGED <<schedule, now, writers, jsons, old, listed, failed>>
    BY <1>6 DEF EndCleanup
  <2>2. ASSUME NEW r \in writers PROVE Cardinality(Counted(r)) <= ExportRetention
    <3>1. old[r] = {} /\ Cardinality(Left(r)) < ExportRetention
      BY <2>1 DEF Retention, Chosen, Emptied, Exporting
    <3>2. Counted(r) \subseteq Left(r) \cup {now}
      BY <3>1 DEF Left, Known, Counted
    <3>3. now \in Runs /\ r \in Remotes
      BY <1>0, <2>1
    <3>4. Left(r) \in SUBSET Runs /\ now \notin Left(r) /\ Left(r) \cup {now} \in SUBSET Runs
      BY <3>3, LeftType DEF Left
    <3>5. Cardinality(Left(r) \cup {now}) = Cardinality(Left(r)) + 1
      BY <3>4, FiniteRuns, FS_AddElement
    <3>6. Counted(r) \in SUBSET Runs
      BY <3>2, <3>4
    <3>7. /\ Cardinality(Counted(r)) <= Cardinality(Left(r) \cup {now})
          /\ Cardinality(Left(r)) \in Nat /\ Cardinality(Counted(r)) \in Nat
      BY <3>2, <3>4, <3>6, FiniteRuns
    <3>. QED BY <3>1, <3>5, <3>7, Bounds
  <2>3. \A r \in writers : Counted(r)' = Counted(r)
    BY <2>1 DEF Counted
  <2>. QED BY <2>1, <2>2, <2>3 DEF Retention, Chosen, Emptied, Exporting
<1>7. CASE PoolFails
  <2>1. step' \in {"after", "finally"} /\ failed'
    BY <1>7 DEF PoolFails
  <2>. QED BY <2>1 DEF Retention, Chosen, Emptied, Exporting
<1>8. CASE UNCHANGED vars
  BY <1>0, <1>8, RetentionSame DEF Retention, Left, Known, Counted, Chosen, Emptied
<1>. QED BY <1>1, <1>2, <1>3, <1>4, <1>5, <1>6, <1>7, <1>8, NextSteps DEF RunStep


\* When a run ends well, no remote has more backups of its schedule than are to be
\* kept, of those that the list named and of its own, whatever earlier runs left and
\* whatever the cache is: as long as a run may delete them all, which it
\* may when maxMergedDeltasPerRun is not set.
THEOREM RetentionHolds ==
  ASSUME MaxRuns <= MaxMergedDeltasPerRun
  PROVE  Spec => []RetentionReached
<1>1. Init => Unchosen
  BY DEF Init, Unchosen
<1>2. Types /\ Unchosen /\ Retention /\ [Next]_vars => Unchosen' /\ Retention'
  BY UnchosenStep, RetentionStep
<1>3. Retention => RetentionReached
  BY DEF Retention, RetentionReached, Counted
<1>. QED BY <1>1, <1>2, <1>3, RetentionInit, TypesAlways, PTL DEF Spec


-----------------------------------------------------------------------------
(* The length of the chains. *)

LEMMA OldestFirst ==
  ASSUME NEW S, \A k \in Runs : (\A j \in Runs : j < k => j \in S) => k \in S
  PROVE  Runs \subseteq S
<1>. DEFINE Below == {n \in Nat : \A j \in Runs : j < n => j \in S}
<1>1. Runs \subseteq Nat
  BY DEF Runs
<1>2. 0 \in Below
  BY DEF Runs
<1>3. ASSUME NEW n \in Nat, n \in Below PROVE n + 1 \in Below
  <2>1. ASSUME NEW j \in Runs, j < n + 1 PROVE j \in S
    <3>1. j \in Nat /\ (j < n \/ j = n)
      BY <1>1, <2>1
    <3>. QED BY <1>3, <3>1
  <2>. QED BY <2>1
<1>. HIDE DEF Below
<1>4. Nat \subseteq Below
  BY <1>2, <1>3, NatInduct
<1>5. ASSUME NEW k \in Runs PROVE k \in S
  <2>1. k + 1 \in Nat /\ k < k + 1
    BY <1>1
  <2>. QED BY <1>4, <2>1 DEF Below
<1>. QED BY <1>5

\* A VHD has one VHD more than its parent in its chain.
LEMMA SizeDef ==
  ASSUME NEW par, Older(par)
  PROVE  /\ Size(par) \in [Runs -> Nat \ {0}]
         /\ \A k \in Runs : Size(par)[k] = IF par[k] \in Runs THEN Size(par)[par[k]] + 1 ELSE 1
<1>. DEFINE P(f) == f = [k \in Runs |-> IF par[k] \in Runs THEN f[par[k]] + 1 ELSE 1]
            go   == {k \in Runs : par[k] \in Runs}
            leaf == [k \in Runs |-> 1]
            more == [k \in Runs |-> [n \in Nat \ {0} |-> n + 1]]
<1>1. Size(par) = CHOOSE f : P(f)
  BY DEF Size
<1>2. leaf \in [Runs -> Nat \ {0}] /\ more \in [Runs -> [Nat \ {0} -> Nat \ {0}]]
  OBVIOUS
<1>3. \A k \in Runs : leaf[k] = 1 /\ \A n \in Nat \ {0} : more[k][n] = n + 1
  OBVIOUS
<1>4. Descends(Runs, MaxRuns + 1, go, par)
  BY ParentsType, Bounds DEF Descends, Older, Runs
<1>. HIDE DEF leaf, more
<1>5. PICK f \in [Runs -> Nat \ {0}] : Solves(f, Runs, go, par, leaf, more)
  BY <1>2, <1>4, Descent
<1>6. P(f)
  BY <1>3, <1>5 DEF Solves
<1>. HIDE DEF P
<1>7. P(Size(par))
  BY <1>1, <1>6
<1>8. Size(par) = [k \in Runs |-> IF par[k] \in Runs THEN Size(par)[par[k]] + 1 ELSE 1]
  BY <1>7 DEF P
<1>. HIDE DEF Size
<1>9. ASSUME NEW s, s = [k \in Runs |-> IF par[k] \in Runs THEN s[par[k]] + 1 ELSE 1] PROVE s \in [Runs -> Nat \ {0}]
  <2>. DEFINE S == {k \in Runs : s[k] \in Nat \ {0}}
  <2>1. ASSUME NEW k \in Runs, \A j \in Runs : j < k => j \in S PROVE k \in S
    <3>1. s[k] = IF par[k] \in Runs THEN s[par[k]] + 1 ELSE 1
      BY <1>9
    <3>2. par[k] \in Runs => par[k] < k
      BY ParentsType DEF Older
    <3>. QED BY <2>1, <3>1, <3>2
  <2>2. Runs \subseteq S
    BY <2>1, OldestFirst
  <2>. QED BY <1>9, <2>2
<1>. QED BY <1>8, <1>9

\* The chain of a VHD is not longer when VHDs of it are merged.
LEMMA SizeMerged ==
  ASSUME NEW par, Older(par), NEW merge \in SUBSET Runs, NEW par2, Older(par2),
         par2 = [k \in Runs |-> UpTo(par, merge)[par[k]]]
  PROVE  \A k \in Runs : Size(par2)[k] <= Size(par)[k]
<1>. DEFINE u == UpTo(par, merge)
            before == Size(par)
            after == Size(par2)
<1>1. \A p \in Parents : /\ u[p] = IF p \in merge THEN u[par[p]] ELSE p
                         /\ u[p] \in Parents /\ (u[p] <= p \/ u[p] = Unchained)
  BY UpToDef, UpToOlder
<1>2. /\ before \in [Runs -> Nat \ {0}] /\ after \in [Runs -> Nat \ {0}]
      /\ \A k \in Runs : before[k] = IF par[k] \in Runs THEN before[par[k]] + 1 ELSE 1
      /\ \A k \in Runs : after[k] = IF par2[k] \in Runs THEN after[par2[k]] + 1 ELSE 1
  BY SizeDef
<1>3. \A k \in Runs : par2[k] = u[par[k]]
  OBVIOUS
<1>. HIDE DEF u, before, after
<1>4. ASSUME NEW p \in Runs PROVE u[p] \in Runs => before[u[p]] <= before[p]
  <2>. DEFINE S == {q \in Runs : u[q] \in Runs => before[u[q]] <= before[q]}
  <2>1. ASSUME NEW q \in Runs, \A j \in Runs : j < q => j \in S PROVE q \in S
    <3>1. CASE q \in merge
      <4>1. u[q] = u[par[q]] /\ par[q] \in Parents /\ (par[q] < q \/ par[q] = Unchained)
        BY <1>1, <3>1, ParentsType DEF Older
      <4>2. par[q] \notin Runs => u[par[q]] = par[q]
        BY <1>1, <4>1
      <4>3. CASE par[q] \in Runs
        <5>1. par[q] \in S /\ before[q] = before[par[q]] + 1
          BY <1>2, <2>1, <4>1, <4>3, ParentsType
        <5>2. before[q] \in Nat /\ before[par[q]] \in Nat /\ (u[q] \in Runs => before[u[q]] \in Nat)
          BY <1>2, <4>3
        <5>. QED BY <4>1, <5>1, <5>2
      <4>. QED BY <4>1, <4>2, <4>3
    <3>2. CASE q \notin merge
      <4>1. u[q] = q
        BY <1>1, <3>2, ParentsType
      <4>2. before[q] \in Nat
        BY <1>2
      <4>. QED BY <4>1, <4>2
    <3>. QED BY <3>1, <3>2
  <2>2. Runs \subseteq S
    BY <2>1, OldestFirst
  <2>. QED BY <2>2
<1>5. ASSUME NEW k \in Runs PROVE after[k] <= before[k]
  <2>. DEFINE S == {q \in Runs : after[q] <= before[q]}
  <2>1. ASSUME NEW q \in Runs, \A j \in Runs : j < q => j \in S PROVE q \in S
    <3>1. after[q] \in Nat \ {0} /\ before[q] \in Nat \ {0} /\ par[q] \in Parents
      BY <1>2 DEF Older
    <3>2. CASE par2[q] \in Runs
      <4>1. par[q] \in Runs
        BY <1>1, <1>3, <3>1, <3>2
      <4>2. par2[q] < q
        BY <3>2, ParentsType DEF Older
      <4>3. after[par2[q]] <= before[par2[q]]
        BY <2>1, <3>2, <4>2
      <4>4. before[par2[q]] <= before[par[q]]
        BY <1>3, <1>4, <3>2, <4>1
      <4>5. after[q] = after[par2[q]] + 1 /\ before[q] = before[par[q]] + 1
        BY <1>2, <3>2, <4>1
      <4>6. after[par2[q]] \in Nat /\ before[par2[q]] \in Nat /\ before[par[q]] \in Nat
        BY <1>2, <3>2, <4>1
      <4>. QED BY <4>3, <4>4, <4>5, <4>6
    <3>3. CASE par2[q] \notin Runs
      BY <1>2, <3>1, <3>3
    <3>. QED BY <3>2, <3>3
  <2>2. Runs \subseteq S
    BY <2>1, OldestFirst
  <2>. QED BY <2>2
<1>. QED BY <1>5 DEF before, after

\* That of the others is the same when the parent of a VHD without children changes.
LEMMA SizeOthers ==
  ASSUME NEW par, Older(par), NEW par2, Older(par2), NEW n \in Runs,
         \A k \in Runs : par[k] # n, \A k \in Runs \ {n} : par2[k] = par[k]
  PROVE  \A k \in Runs \ {n} : Size(par2)[k] = Size(par)[k]
<1>. DEFINE S == {k \in Runs : k # n => Size(par2)[k] = Size(par)[k]}
<1>1. ASSUME NEW k \in Runs, \A j \in Runs : j < k => j \in S PROVE k \in S
  <2>1. par[k] \in Runs => par[k] < k
    BY ParentsType DEF Older
  <2>. QED BY <1>1, <2>1, SizeDef
<1>2. Runs \subseteq S
  BY <1>1, OldestFirst
<1>. QED BY <1>2


\* There is one latest run.
LEMMA LatestOne ==
  ASSUME NEW set \in SUBSET Runs
  PROVE  \A k, j \in Latest(1, set) : k = j
<1>. SUFFICES ASSUME NEW k \in Latest(1, set), NEW j \in Latest(1, set), j > k PROVE FALSE
  <2>1. Latest(1, set) \in SUBSET Runs
    BY LatestSubset
  <2>2. Latest(1, set) \in SUBSET Nat
    BY <2>1 DEF Runs
  <2>. QED BY <2>2
<1>1. j \in {i \in set : i > k} /\ {i \in set : i > k} \in SUBSET Runs /\ Cardinality({i \in set : i > k}) < 1
  BY LatestSubset DEF Latest
<1>2. Cardinality({i \in set : i > k}) = 0
  BY <1>1, FiniteRuns
<1>3. {i \in set : i > k} = {}
  BY <1>1, <1>2, FiniteRuns, FS_EmptySet
<1>. QED BY <1>1, <1>3

\* DELTA_CHAIN_LENGTH is at least the number of VHDs of a chain, less one, and a
\* base is chosen before it has reached its limit.
Bounded ==
    /\ \A r \in Remotes, k \in Runs : k > now => parent[r][k] = Full
    /\ \A r \in Remotes, k \in exported : Size(parent[r])[k] <= length[k] + 1
    /\ now # 0 => \A r \in Remotes : Size(parent[r])[now] <= IF base = None THEN 1 ELSE length[base] + 2
    /\ base # None => base \in exported /\ (FullInterval # 0 => length[base] + 1 < FullInterval)
    /\ step \in {"before", "select"} => base = None
    /\ step = "mark" => length[now] = IF base = None THEN 0 ELSE length[base] + 1
    /\ exported \subseteq 1 .. now
    /\ step \notin {"cleanup", "finally", "after", "idle"} => now \notin exported
    /\ FullInterval # 0 => \A r \in Remotes, k \in Runs : Size(parent[r])[k] <= FullInterval

LEMMA BoundedInit == Init => Bounded
<1>. SUFFICES ASSUME Init PROVE Bounded
  OBVIOUS
<1>1. \A r \in Remotes, k \in Runs : parent[r][k] = Full
  BY DEF Init
<1>2. \A r \in Remotes : Older(parent[r])
  BY InitTypes DEF Types, FileTypes
<1>3. \A r \in Remotes, k \in Runs : Size(parent[r])[k] = 1
  BY <1>1, <1>2, SizeDef, ParentsType
<1>4. exported = {} /\ now = 0 /\ base = None /\ step = "idle"
  BY DEF Init
<1>. QED BY <1>1, <1>3, <1>4, Bounds DEF Bounded

\* The pool, the run and the parents are the same.
LEMMA BoundedSame ==
  ASSUME Bounded, UNCHANGED <<exported, length, parent, now, base>>, step' # "mark",
         step' \in {"before", "select"} => step \in {"before", "select"},
         step' \notin {"cleanup", "finally", "after", "idle"} => step \notin {"cleanup", "finally", "after", "idle"}
  PROVE  Bounded'
  BY DEF Bounded

\* The chains are not longer.
LEMMA BoundedLess ==
  ASSUME Types, Types', Bounded, UNCHANGED <<exported, length, now, base, step>>,
         \A r \in Remotes, k \in Runs : k > now => parent'[r][k] = Full,
         \A r \in Remotes, k \in Runs : Size(parent'[r])[k] <= Size(parent[r])[k]
  PROVE  Bounded'
<1>1. \A r \in Remotes, k \in Runs : /\ Size(parent'[r])[k] \in Nat /\ Size(parent[r])[k] \in Nat
                                     /\ Size(parent'[r])[k] <= Size(parent[r])[k]
  BY SizeDef DEF Types, FileTypes
<1>2. exported \subseteq Runs /\ length \in [Runs -> Nat] /\ (base # None => base \in Runs) /\ (now # 0 => now \in Runs)
  BY Bounds DEF Types, PoolTypes, RunTypes, Runs
<1>3. ASSUME NEW r \in Remotes, NEW k \in exported PROVE Size(parent'[r])[k] <= length'[k] + 1
  <2>1. k \in Runs /\ length[k] \in Nat /\ Size(parent[r])[k] <= length[k] + 1
    BY <1>2 DEF Bounded
  <2>. QED BY <1>1, <2>1
<1>4. ASSUME now # 0, NEW r \in Remotes PROVE Size(parent'[r])[now] <= IF base = None THEN 1 ELSE length[base] + 2
  <2>1. /\ now \in Runs /\ (base # None => length[base] \in Nat)
        /\ Size(parent[r])[now] <= IF base = None THEN 1 ELSE length[base] + 2
    BY <1>2, <1>4 DEF Bounded
  <2>. QED BY <1>1, <2>1
<1>5. FullInterval # 0 => \A r \in Remotes, k \in Runs : Size(parent'[r])[k] <= FullInterval
  BY <1>1, Bounds DEF Bounded
<1>. QED BY <1>3, <1>4, <1>5 DEF Bounded

LEMMA CleanBounded ==
  ASSUME Types, Types', Bounded, NEW r \in Remotes, NEW c \in Cleaners, Clean(r, c),
         UNCHANGED <<exported, length, now, base, step>>
  PROVE  Bounded'
<1>. DEFINE merge == plan[r][c].merge \cap vhds[r]
<1>1. parent' = [parent EXCEPT ![r] = [k \in Runs |-> UpTo(parent[r], merge)[parent[r][k]]]]
  BY DEF Clean, Types, FileTypes
<1>2. merge \in SUBSET Runs /\ parent \in [Remotes -> [Runs -> Parents]]
  BY DEF Types, FileTypes
<1>3. \A q \in Remotes : Older(parent[q]) /\ Older(parent'[q])
  BY DEF Types, FileTypes
<1>. HIDE DEF merge
<1>4. parent'[r] = [k \in Runs |-> UpTo(parent[r], merge)[parent[r][k]]]
  BY <1>1, <1>2
<1>5. \A k \in Runs : Size(parent'[r])[k] <= Size(parent[r])[k]
  BY <1>2, <1>3, <1>4, SizeMerged
<1>6. \A q \in Remotes : q # r => parent'[q] = parent[q]
  BY <1>1, <1>2
<1>7. \A q \in Remotes, k \in Runs : Size(parent[q])[k] <= Size(parent[q])[k]
  BY <1>3, SizeDef
<1>8. \A q \in Remotes, k \in Runs : Size(parent'[q])[k] <= Size(parent[q])[k]
  BY <1>5, <1>6, <1>7
<1>9. \A k \in Runs : k > now => parent'[r][k] = Full
  <2>1. UpTo(parent[r], merge)[Full] = Full
    BY <1>2, <1>3, UpToDef, ParentsType
  <2>. QED BY <1>4, <2>1 DEF Bounded
<1>10. \A q \in Remotes, k \in Runs : k > now => parent'[q][k] = Full
  BY <1>6, <1>9 DEF Bounded
<1>. QED BY <1>8, <1>10, BoundedLess

LEMMA BoundedStep ==
  ASSUME Types, Types', Bounded, [Next]_vars
  PROVE  Bounded'
<1>. USE DEF pool, files, choices, run, history, vars
<1>0. /\ parent \in [Remotes -> [Runs -> Parents]] /\ now \in 0 .. MaxRuns
      /\ (step # "idle" => now \in Runs) /\ MaxRuns \in Nat /\ Runs = 1 .. MaxRuns
      /\ length \in [Runs -> Nat] /\ exported \subseteq Runs
      /\ \A r \in Remotes : Older(parent[r]) /\ Older(parent'[r])
      /\ base # None => base \in Runs /\ base < now
  <2>1. /\ parent \in [Remotes -> [Runs -> Parents]] /\ now \in 0 .. MaxRuns /\ length \in [Runs -> Nat]
        /\ exported \subseteq Runs /\ \A r \in Remotes : Older(parent[r]) /\ Older(parent'[r])
    BY DEF Types, FileTypes, PoolTypes, RunTypes
  <2>2. (step # "idle" => now \in Runs) /\ MaxRuns \in Nat /\ Runs = 1 .. MaxRuns
    BY <2>1, Bounds DEF Types, RunTypes, Runs
  <2>3. base # None => base \in Runs /\ base < now
    BY <2>1, <2>2 DEF Types, PoolTypes
  <2>. QED BY <2>1, <2>2, <2>3
<1>1. ASSUME NEW r \in Remotes, RemoteStep(r) PROVE Bounded'
  <2>0. UNCHANGED <<pool, now, base>> /\ (step' = step \/ step' \in {"after", "finally"})
    BY <1>1, RemotePool
  <2>1. CASE parent' = parent
    BY <2>0, <2>1 DEF Bounded
  <2>2. ASSUME step \in {"transfer", "chain"}, step' = step, NEW p \in Parents,
               parent' = [parent EXCEPT ![r][now] = p],
               p \in Runs => base # None /\ p = base
        PROVE  Bounded'
    <3>1. /\ now \in Runs /\ now \notin exported
          /\ \A q \in Remotes, k \in Runs : /\ q # r \/ k # now => parent'[q][k] = parent[q][k]
                                            /\ q # r => parent'[q] = parent[q]
          /\ parent'[r][now] = p
      BY <1>0, <2>2 DEF Bounded
    <3>2. \A k \in Runs : parent[r][k] # now
      <4>1. ASSUME NEW k \in Runs, parent[r][k] = now PROVE FALSE
        <5>1. now \in Nat /\ k \in Nat /\ now # Unchained /\ now # Full
          BY <1>0, <3>1 DEF Unchained, Full
        <5>2. now < k
          BY <1>0, <4>1, <5>1 DEF Older
        <5>. QED BY <4>1, <5>1, <5>2 DEF Bounded
      <4>. QED BY <4>1
    <3>0. Older(parent[r]) /\ Older(parent'[r]) /\ \A k \in Runs \ {now} : parent'[r][k] = parent[r][k]
      BY <1>0, <3>1
    <3>3. \A k \in Runs \ {now} : Size(parent'[r])[k] = Size(parent[r])[k]
      BY <3>0, <3>1, <3>2, SizeOthers
    <3>4. \A q \in Remotes, k \in Runs : q # r \/ k # now => Size(parent'[q])[k] = Size(parent[q])[k]
      BY <3>1, <3>3
    <3>5. Size(parent'[r])[now] = IF p \in Runs THEN Size(parent'[r])[p] + 1 ELSE 1
      BY <3>0, <3>1, SizeDef
    <3>6. ASSUME p \in Runs
          PROVE  /\ Size(parent'[r])[p] = Size(parent[r])[base] /\ Size(parent[r])[base] <= length[base] + 1
                 /\ Size(parent[r])[base] \in Nat /\ length[base] \in Nat
      <4>1. p = base /\ base \in Runs /\ base # now
        BY <1>0, <2>2, <3>6
      <4>2. Size(parent'[r])[p] = Size(parent[r])[base]
        BY <3>4, <4>1
      <4>3. base \in exported /\ length[base] \in Nat
        BY <1>0, <2>2, <3>6, <4>1 DEF Bounded
      <4>4. Size(parent[r])[base] \in Nat
        BY <3>0, <4>1, SizeDef
      <4>. QED BY <4>2, <4>3, <4>4 DEF Bounded
    <3>7. base # None => length[base] \in Nat
      BY <1>0
    <3>8. Size(parent'[r])[now] <= IF base = None THEN 1 ELSE length[base] + 2
      BY <2>2, <3>5, <3>6, <3>7
    <3>9. FullInterval # 0 => Size(parent'[r])[now] <= FullInterval
      BY <3>5, <3>6, <2>2, Bounds DEF Bounded
    <3>10. \A q \in Remotes, k \in Runs : k > now => parent'[q][k] = Full
      <4>1. ~(now > now)
        BY <1>0
      <4>. QED BY <3>1, <4>1 DEF Bounded
    <3>11. \A q \in Remotes : Size(parent'[q])[now] <= IF base = None THEN 1 ELSE length[base] + 2
      BY <3>1, <3>4, <3>8, <1>0, Bounds DEF Bounded
    <3>12. \A q \in Remotes, k \in exported : Size(parent'[q])[k] <= length[k] + 1
      BY <1>0, <3>1, <3>4 DEF Bounded
    <3>13. FullInterval # 0 => \A q \in Remotes, k \in Runs : Size(parent'[q])[k] <= FullInterval
      BY <3>4, <3>9 DEF Bounded
    <3>. QED BY <2>0, <2>2, <3>10, <3>11, <3>12, <3>13 DEF Bounded
  <2>3. CASE EndBeforeBackup(r) \/ EndAfterBackup(r) \/ OtherClean(r)
    <3>1. PICK c \in Cleaners : Clean(r, c)
      BY <2>3 DEF EndBeforeBackup, EndAfterBackup, OtherClean, Cleaners
    <3>2. step' = step
      BY <2>3 DEF EndBeforeBackup, EndAfterBackup, OtherClean
    <3>. QED BY <2>0, <3>1, <3>2, CleanBounded
  <2>4. CASE WriteVhd(r)
    <3>1. parent' = [parent EXCEPT ![r][now] = IF differencing THEN Unchained ELSE Full] /\ step = "transfer" /\ step' = step
      BY <2>4 DEF WriteVhd
    <3>. QED BY <2>2, <3>1, ParentsType
  <2>5. CASE Chain(r)
    <3>1. CASE parent' = [parent EXCEPT ![r][now] = base] /\ base \in vhds[r] /\ step' = step /\ step = "chain"
      <4>1. base \in Runs /\ base # None
        BY <3>1, Bounds DEF Types, FileTypes, Runs
      <4>. QED BY <2>2, <3>1, <4>1, ParentsType
    <3>. QED BY <2>1, <2>5, <3>1 DEF Chain
  <2>6. CASE BeforeBackup(r) \/ AfterBackup(r) \/ OtherScan(r) \/ (\E k \in Runs : DeleteBackup(r, k)) \/ Prepare(r)
             \/ DeleteOldEntry(r) \/ WriteMetadata(r) \/ TransferFails(r) \/ CacheDiverges(r) \/ UpdateUuid(r)
             \/ WriterFails(r)
    <3>1. parent' = parent
      BY <2>6 DEF BeforeBackup, AfterBackup, OtherScan, DeleteBackup, Prepare, DeleteOldEntry, WriteMetadata,
                  TransferFails, CacheDiverges, UpdateUuid, WriterFails
    <3>. QED BY <2>1, <3>1
  <2>. QED BY <1>1, <2>3, <2>4, <2>5, <2>6 DEF RemoteStep
<1>2. ASSUME NEW s \in Schedules, Start(s) PROVE Bounded'
  <2>1. /\ step = "idle" /\ now < MaxRuns /\ now' = now + 1 /\ base' = None /\ step' = "before"
        /\ UNCHANGED <<exported, length, parent>>
    BY <1>2 DEF Start
  <2>2. now' \in Runs /\ now' > now /\ now' \notin 1 .. now /\ 1 .. now \subseteq 1 .. now'
    BY <1>0, <2>1
  <2>3. \A r \in Remotes : Size(parent[r])[now'] = 1
    BY <1>0, <2>2, SizeDef, ParentsType, SMTT(20) DEF Bounded
  <2>4. \A r \in Remotes, k \in Runs : k > now' => parent'[r][k] = Full
    BY <1>0, <2>1, <2>2 DEF Bounded
  <2>5. exported' \subseteq 1 .. now' /\ now' \notin exported'
    BY <2>1, <2>2 DEF Bounded
  <2>6. now' # 0 => \A r \in Remotes : Size(parent'[r])[now'] <= IF base' = None THEN 1 ELSE length'[base'] + 2
    BY <2>1, <2>3
  <2>7. \A r \in Remotes, k \in exported' : Size(parent'[r])[k] <= length'[k] + 1
    BY <2>1 DEF Bounded
  <2>8. FullInterval # 0 => \A r \in Remotes, k \in Runs : Size(parent'[r])[k] <= FullInterval
    BY <2>1 DEF Bounded
  <2>. QED BY <2>1, <2>4, <2>5, <2>6, <2>7, <2>8 DEF Bounded
<1>3. CASE SelectBase
  <2>1. /\ step = "select" /\ step' = "remove" /\ UNCHANGED <<exported, length, parent, now>>
        /\ \/ base' = None
           \/ (\E k \in LastExported : ~FullIntervalReached(k)) /\ base' = CHOOSE k \in LastExported : TRUE
    BY <1>3 DEF SelectBase
  <2>2. ASSUME base' # None PROVE base' \in exported /\ base' \in Runs /\ ~FullIntervalReached(base')
    <3>1. PICK k \in LastExported : ~FullIntervalReached(k)
      BY <2>1, <2>2
    <3>2. base' \in LastExported
      BY <2>1, <2>2, <3>1
    <3>3. snapshots \cap exported \in SUBSET Runs
      BY <1>0
    <3>4. base' = k
      BY <3>1, <3>2, <3>3, LatestOne DEF LastExported
    <3>5. LastExported \subseteq exported
      BY LatestSubset DEF LastExported
    <3>. QED BY <1>0, <3>1, <3>4, <3>5
  <2>3. base' # None /\ FullInterval # 0 => length[base'] + 1 < FullInterval
    <3>1. base' # None => length[base'] \in Nat
      BY <1>0, <2>2
    <3>. QED BY <2>2, <3>1, Bounds DEF FullIntervalReached
  <2>4. now # 0 => \A r \in Remotes : Size(parent'[r])[now] <= IF base' = None THEN 1 ELSE length[base'] + 2
    <3>1. base = None
      BY <2>1 DEF Bounded
    <3>2. ASSUME NEW r \in Remotes, now # 0 PROVE Size(parent[r])[now] <= IF base' = None THEN 1 ELSE length[base'] + 2
      <4>1. Size(parent[r])[now] <= 1 /\ Size(parent[r])[now] \in Nat
        BY <1>0, <3>1, <3>2, SizeDef DEF Bounded
      <4>2. base' # None => length[base'] \in Nat
        BY <1>0, <2>2
      <4>. QED BY <4>1, <4>2
    <3>. QED BY <2>1, <3>2
  <2>. QED BY <2>1, <2>2, <2>3, <2>4 DEF Bounded
<1>4. CASE SetLength
  <2>1. /\ step = "length" /\ step' = "mark" /\ UNCHANGED <<exported, parent, now, base>>
        /\ length' = [length EXCEPT ![now] = IF base = None THEN 0 ELSE length[base] + 1]
    BY <1>4 DEF SetLength
  <2>2. now \in Runs /\ now \notin exported /\ (base # None => base # now /\ base \in Runs)
    BY <1>0, <2>1 DEF Bounded
  <2>3. \A k \in Runs : k # now => length'[k] = length[k]
    BY <1>0, <2>1
  <2>4. length'[now] = IF base = None THEN 0 ELSE length[base] + 1
    BY <1>0, <2>1, <2>2
  <2>5. \A k \in exported : length'[k] = length[k]
    BY <1>0, <2>2, <2>3
  <2>6. base # None => length'[base] = length[base]
    BY <2>2, <2>3
  <2>. QED BY <2>1, <2>4, <2>5, <2>6 DEF Bounded
<1>5. CASE Mark
  <2>1. step = "mark" /\ step' = "cleanup" /\ UNCHANGED <<length, parent, now, base>> /\ exported' = exported \cup {now}
    BY <1>5 DEF Mark
  <2>2. ASSUME NEW r \in Remotes PROVE Size(parent[r])[now] <= length[now] + 1
    <3>1. now \in Runs /\ now # 0 /\ (base # None => length[base] \in Nat) /\ Size(parent[r])[now] \in Nat
      BY <1>0, <2>1, SizeDef
    <3>. QED BY <2>1, <3>1 DEF Bounded
  <2>3. now \in 1 .. now
    BY <1>0, <2>1
  <2>. QED BY <2>1, <2>2, <2>3 DEF Bounded
<1>6. CASE BeginSelect \/ RemoveUnused \/ Snapshot \/ Tag \/ Export \/ BeginChain \/ BeginLength \/ EndCleanup
           \/ FinallyRemove \/ End \/ PoolFails \/ Crash
  <2>1. UNCHANGED <<exported, length, parent, now, base>>
    BY <1>6 DEF BeginSelect, RemoveUnused, Snapshot, Tag, Export, BeginChain, BeginLength, EndCleanup, FinallyRemove,
                End, PoolFails, Crash
  <2>2. /\ step' \notin {"mark", "before"} /\ (step' = "select" => step = "before")
        /\ step' \notin {"cleanup", "finally", "after", "idle"} => step \notin {"cleanup", "finally", "after", "idle"}
    BY <1>6 DEF BeginSelect, RemoveUnused, Snapshot, Tag, Export, BeginChain, BeginLength, EndCleanup, FinallyRemove,
                End, PoolFails, Crash
  <2>. QED BY <2>1, <2>2, BoundedSame
<1>7. CASE UNCHANGED vars
  BY <1>7 DEF Bounded
<1>. QED BY <1>1, <1>2, <1>3, <1>4, <1>5, <1>6, <1>7, NextSteps DEF RunStep

\* "the maximum length of a delta chain": fullInterval bounds all the chains of all
\* the remotes, whatever fails, is deleted or merged.
THEOREM ChainsBounded == Spec => []ChainBounded
<1>1. Types /\ Types' /\ Bounded /\ [Next]_vars => Bounded'
  BY BoundedStep
<1>2. Types /\ Bounded => ChainBounded
  BY DEF Types, FileTypes, Bounded, ChainBounded
<1>. QED BY <1>1, <1>2, BoundedInit, TypesAlways, PTL DEF Spec

=============================================================================
