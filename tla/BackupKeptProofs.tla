-------------------------- MODULE BackupKeptProofs --------------------------
(***************************************************************************)
(* That what the runs of BackupRun report as made is kept, and is a base   *)
(* for the next run.                                                       *)
(*                                                                         *)
(* Both follow from what is true of one remote: what cleanVm() is about to *)
(* delete is in no chain that a metadata needs (SafeAt), as no VHD comes   *)
(* between another one and its parent (OrderedAt), which the snapshots     *)
(* cause (Snapped, NumberedAt); what a writer has done step by step        *)
(* (TransferredAt, BasedAt); and that each old entry has enough newer      *)
(* backups that are not old entries (SparedAt), although the list of the   *)
(* backups may be stale: it names none that never was one (CachedAt), and  *)
(* each one that was deleted as too old has enough newer ones (KeptAt).    *)
(***************************************************************************)
EXTENDS BackupRunProofs

-----------------------------------------------------------------------------
(* Whole chains. *)

\* A property of a VHD and of that of its parent.
LEMMA DownTheChain ==
  ASSUME NEW par, Older(par), NEW leaf \in [Runs -> BOOLEAN], NEW through \in [Runs -> [BOOLEAN -> BOOLEAN]]
  PROVE  \E f \in [Runs -> BOOLEAN] :
             \A k \in Runs : f[k] = IF par[k] \in Runs THEN through[k][f[par[k]]] ELSE leaf[k]
<1>. DEFINE go == {k \in Runs : par[k] \in Runs}
<1>1. Descends(Runs, MaxRuns + 1, go, par)
  BY ParentsType, Bounds DEF Descends, Older, Runs
<1>2. PICK f \in [Runs -> BOOLEAN] : Solves(f, Runs, go, par, leaf, through)
  BY <1>1, Descent
<1>3. \A k \in Runs : f[k] = IF k \in go THEN through[k][f[par[k]]] ELSE leaf[k]
  BY <1>2 DEF Solves
<1>. QED BY <1>3

LEMMA WholeDef ==
  ASSUME NEW par, Older(par), NEW S
  PROVE  \A k \in Runs : Whole(par, S)[k] <=>
             k \in S /\ (par[k] \in Runs => Whole(par, S)[par[k]]) /\ par[k] # Unchained
<1>. DEFINE P(f) == f = [k \in Runs |-> /\ k \in S
                                        /\ par[k] \in Runs => f[par[k]]
                                        /\ par[k] # Unchained]
            leaf == [k \in Runs |-> k \in S /\ par[k] # Unchained]
            more == [k \in Runs |-> [b \in BOOLEAN |-> k \in S /\ b /\ par[k] # Unchained]]
<1>1. Whole(par, S) = CHOOSE f : P(f)
  BY DEF Whole
<1>2. leaf \in [Runs -> BOOLEAN] /\ more \in [Runs -> [BOOLEAN -> BOOLEAN]]
  OBVIOUS
<1>3. \A k \in Runs : /\ leaf[k] = (k \in S /\ par[k] # Unchained)
                      /\ \A b \in BOOLEAN : more[k][b] = (k \in S /\ b /\ par[k] # Unchained)
  OBVIOUS
<1>. HIDE DEF leaf, more
<1>4. PICK f \in [Runs -> BOOLEAN] :
          \A k \in Runs : f[k] = IF par[k] \in Runs THEN more[k][f[par[k]]] ELSE leaf[k]
  BY <1>2, DownTheChain
<1>5. ASSUME NEW k \in Runs
      PROVE  f[k] = (/\ k \in S
                     /\ par[k] \in Runs => f[par[k]]
                     /\ par[k] # Unchained)
  <2>1. CASE par[k] \in Runs
    <3>1. f[par[k]] \in BOOLEAN /\ f[k] = more[k][f[par[k]]]
      BY <1>4, <2>1
    <3>. QED BY <1>3, <2>1, <3>1
  <2>2. CASE par[k] \notin Runs
    <3>1. f[k] = leaf[k]
      BY <1>4, <2>2
    <3>. QED BY <1>3, <2>2, <3>1
  <2>. QED BY <2>1, <2>2
<1>6. P(f)
  BY <1>4, <1>5
<1>. HIDE DEF P
<1>7. P(Whole(par, S))
  BY <1>1, <1>6
<1>8. Whole(par, S) = [k \in Runs |-> /\ k \in S
                                      /\ par[k] \in Runs => Whole(par, S)[par[k]]
                                      /\ par[k] # Unchained]
  BY <1>7 DEF P
<1>. HIDE DEF Whole
<1>. QED BY <1>8


LEMMA OrphanDef ==
  ASSUME NEW par, Older(par), NEW seen
  PROVE  \A k \in Runs : Orphan(par, seen)[k] <=>
             \/ par[k] = Unchained
             \/ par[k] \in Runs /\ (par[k] \notin seen \/ Orphan(par, seen)[par[k]])
<1>. DEFINE P(f) == f = [k \in Runs |-> \/ par[k] = Unchained
                                        \/ par[k] \in Runs /\ (par[k] \notin seen \/ f[par[k]])]
            leaf == [k \in Runs |-> par[k] = Unchained]
            more == [k \in Runs |-> [b \in BOOLEAN |-> par[k] = Unchained \/ par[k] \notin seen \/ b]]
<1>1. Orphan(par, seen) = CHOOSE f : P(f)
  BY DEF Orphan
<1>2. leaf \in [Runs -> BOOLEAN] /\ more \in [Runs -> [BOOLEAN -> BOOLEAN]]
  OBVIOUS
<1>3. \A k \in Runs : /\ leaf[k] = (par[k] = Unchained)
                      /\ \A b \in BOOLEAN : more[k][b] = (par[k] = Unchained \/ par[k] \notin seen \/ b)
  OBVIOUS
<1>. HIDE DEF leaf, more
<1>4. PICK f \in [Runs -> BOOLEAN] :
          \A k \in Runs : f[k] = IF par[k] \in Runs THEN more[k][f[par[k]]] ELSE leaf[k]
  BY <1>2, DownTheChain
<1>5. ASSUME NEW k \in Runs
      PROVE  f[k] = (\/ par[k] = Unchained
                     \/ par[k] \in Runs /\ (par[k] \notin seen \/ f[par[k]]))
  <2>1. CASE par[k] \in Runs
    <3>1. f[par[k]] \in BOOLEAN /\ f[k] = more[k][f[par[k]]]
      BY <1>4, <2>1
    <3>. QED BY <1>3, <2>1, <3>1
  <2>2. CASE par[k] \notin Runs
    <3>1. f[k] = leaf[k]
      BY <1>4, <2>2
    <3>. QED BY <1>3, <2>2, <3>1
  <2>. QED BY <2>1, <2>2
<1>6. P(f)
  BY <1>4, <1>5
<1>. HIDE DEF P
<1>7. P(Orphan(par, seen))
  BY <1>1, <1>6
<1>8. Orphan(par, seen) = [k \in Runs |-> \/ par[k] = Unchained
                                          \/ par[k] \in Runs /\ (par[k] \notin seen \/ Orphan(par, seen)[par[k]])]
  BY <1>7 DEF P
<1>. HIDE DEF Orphan
<1>. QED BY <1>8

LEMMA NeedsDef ==
  ASSUME NEW par, Older(par), NEW p \in Runs
  PROVE  \A k \in Runs : Needs(par, p)[k] <=> k = p \/ (par[k] \in Runs /\ Needs(par, p)[par[k]])
<1>. DEFINE P(f) == f = [k \in Runs |-> k = p \/ (par[k] \in Runs /\ f[par[k]])]
            leaf == [k \in Runs |-> k = p]
            more == [k \in Runs |-> [b \in BOOLEAN |-> k = p \/ b]]
<1>1. Needs(par, p) = CHOOSE f : P(f)
  BY DEF Needs
<1>2. leaf \in [Runs -> BOOLEAN] /\ more \in [Runs -> [BOOLEAN -> BOOLEAN]]
  OBVIOUS
<1>3. \A k \in Runs : leaf[k] = (k = p) /\ \A b \in BOOLEAN : more[k][b] = (k = p \/ b)
  OBVIOUS
<1>. HIDE DEF leaf, more
<1>4. PICK f \in [Runs -> BOOLEAN] :
          \A k \in Runs : f[k] = IF par[k] \in Runs THEN more[k][f[par[k]]] ELSE leaf[k]
  BY <1>2, DownTheChain
<1>5. ASSUME NEW k \in Runs PROVE f[k] = (k = p \/ (par[k] \in Runs /\ f[par[k]]))
  <2>1. CASE par[k] \in Runs
    <3>1. f[par[k]] \in BOOLEAN /\ f[k] = more[k][f[par[k]]]
      BY <1>4, <2>1
    <3>. QED BY <1>3, <2>1, <3>1
  <2>2. CASE par[k] \notin Runs
    <3>1. f[k] = leaf[k]
      BY <1>4, <2>2
    <3>. QED BY <1>3, <2>2, <3>1
  <2>. QED BY <2>1, <2>2
<1>6. P(f)
  BY <1>4, <1>5
<1>. HIDE DEF P
<1>7. P(Needs(par, p))
  BY <1>1, <1>6
<1>8. Needs(par, p) = [k \in Runs |-> k = p \/ (par[k] \in Runs /\ Needs(par, p)[par[k]])]
  BY <1>7 DEF P
<1>. HIDE DEF Needs
<1>. QED BY <1>8

\* What needs a VHD needs its parent.
LEMMA NeedsParent ==
  ASSUME NEW par, Older(par), NEW p \in Runs, par[p] \in Runs, NEW k \in Runs, Needs(par, p)[k]
  PROVE  Needs(par, par[p])[k]
<1>. DEFINE S == {j \in Runs : Needs(par, p)[j] => Needs(par, par[p])[j]}
<1>1. ASSUME NEW j \in Runs, \A i \in Runs : i < j => i \in S PROVE j \in S
  <2>1. /\ Needs(par, p)[j] <=> j = p \/ (par[j] \in Runs /\ Needs(par, p)[par[j]])
        /\ Needs(par, par[p])[j] <=> j = par[p] \/ (par[j] \in Runs /\ Needs(par, par[p])[par[j]])
        /\ Needs(par, par[p])[par[p]]
    BY NeedsDef
  <2>2. par[j] \in Runs => par[j] < j
    BY ParentsType DEF Older
  <2>. QED BY <1>1, <2>1, <2>2
<1>2. Runs \subseteq S
  BY <1>1, OldestFirst
<1>. QED BY <1>2

\* The VHDs of S whose chain is whole.
SoundIn(par, S) == {k \in Runs : Whole(par, S)[k]}

LEMMA SoundInDef ==
  ASSUME NEW par, Older(par), NEW S
  PROVE  \A k \in Runs : k \in SoundIn(par, S) <=>
             k \in S /\ (par[k] \in Runs => par[k] \in SoundIn(par, S)) /\ par[k] # Unchained
<1>. SUFFICES ASSUME NEW k \in Runs
              PROVE  k \in SoundIn(par, S) <=>
                         k \in S /\ (par[k] \in Runs => par[k] \in SoundIn(par, S)) /\ par[k] # Unchained
  OBVIOUS
<1>1. Whole(par, S)[k] <=> k \in S /\ (par[k] \in Runs => Whole(par, S)[par[k]]) /\ par[k] # Unchained
  BY WholeDef
<1>2. \A j \in Runs : j \in SoundIn(par, S) <=> Whole(par, S)[j]
  BY DEF SoundIn
<1>. QED BY <1>1, <1>2

\* What happens to later VHDs changes no chain.
LEMMA SoundBefore ==
  ASSUME NEW par, Older(par), NEW par2, Older(par2), NEW S, NEW S2, NEW n \in Nat,
         \A k \in Runs : k < n => par2[k] = par[k] /\ (k \in S2 <=> k \in S)
  PROVE  \A k \in Runs : k < n => (k \in SoundIn(par2, S2) <=> k \in SoundIn(par, S))
<1>. DEFINE T == {k \in Runs : k < n => (k \in SoundIn(par2, S2) <=> k \in SoundIn(par, S))}
<1>1. ASSUME NEW k \in Runs, \A j \in Runs : j < k => j \in T PROVE k \in T
  <2>1. /\ k \in SoundIn(par, S) <=>
               k \in S /\ (par[k] \in Runs => par[k] \in SoundIn(par, S)) /\ par[k] # Unchained
        /\ k \in SoundIn(par2, S2) <=>
               k \in S2 /\ (par2[k] \in Runs => par2[k] \in SoundIn(par2, S2)) /\ par2[k] # Unchained
    BY SoundInDef
  <2>2. par[k] \in Runs => par[k] < k
    BY ParentsType DEF Older
  <2>3. ASSUME k < n, par[k] \in Runs PROVE par[k] < n
    <3>1. k \in Nat /\ par[k] \in Nat
      BY <2>3, ParentsType
    <3>. QED BY <2>2, <2>3, <3>1
  <2>. QED BY <1>1, <2>1, <2>2, <2>3
<1>2. Runs \subseteq T
  BY <1>1, OldestFirst
<1>. QED BY <1>2

\* A cleaning keeps whole the chains of which it deletes nothing.
Cleaned(par, S, merge, delete, par2) ==
    /\ merge \in SUBSET Runs
    /\ Older(par) /\ Older(par2) /\ par2 = [k \in Runs |-> UpTo(par, merge)[par[k]]]
    /\ \A k \in SoundIn(par, S) \ delete : par[k] \in Runs => par[k] \notin delete

LEMMA SoundCleaned ==
  ASSUME NEW par, NEW S, NEW merge, NEW delete, NEW par2, Cleaned(par, S, merge, delete, par2)
  PROVE  SoundIn(par, S) \ (delete \cup merge) \subseteq SoundIn(par2, S \ (delete \cup merge))
<1>. USE DEF Cleaned
<1>. DEFINE u  == UpTo(par, merge)
            S2 == S \ (delete \cup merge)
            T  == {k \in Runs : k \in SoundIn(par, S) \ delete =>
                        u[k] = Full \/ (u[k] \in Runs /\ u[k] \in SoundIn(par2, S2))}
<1>0. \A p \in Parents : u[p] = IF p \in merge THEN u[par[p]] ELSE p
  BY UpToDef
<1>1. \A k \in Runs : par2[k] = u[par[k]] /\ par[k] \in Parents
  BY DEF Older
<1>. HIDE DEF u
<1>2. ASSUME NEW k \in Runs, \A j \in Runs : j < k => j \in T PROVE k \in T
  <2>. SUFFICES ASSUME k \in SoundIn(par, S) \ delete
                PROVE  u[k] = Full \/ (u[k] \in Runs /\ u[k] \in SoundIn(par2, S2))
    OBVIOUS
  <2>1. k \in S /\ (par[k] \in Runs => par[k] \in SoundIn(par, S)) /\ par[k] # Unchained
    BY SoundInDef
  <2>2. par[k] \in Runs => par[k] < k
    BY ParentsType DEF Older
  <2>3. u[par[k]] = Full \/ (u[par[k]] \in Runs /\ u[par[k]] \in SoundIn(par2, S2))
    <3>1. CASE par[k] \in Runs
      BY <1>2, <2>1, <2>2, <3>1
    <3>2. CASE par[k] \notin Runs
      <4>1. par[k] = Full /\ Full \in Parents /\ Full \notin merge
        BY <1>1, <2>1, <3>2, ParentsType DEF Parents
      <4>. QED BY <1>0, <4>1
    <3>. QED BY <3>1, <3>2
  <2>4. CASE k \in merge
    BY <1>0, <2>3, <2>4, ParentsType
  <2>5. CASE k \notin merge
    <3>1. u[k] = k /\ k \in S2
      BY <1>0, <2>1, <2>5, ParentsType
    <3>2. par2[k] # Unchained /\ (par2[k] \in Runs => par2[k] \in SoundIn(par2, S2))
      BY <1>1, <2>3, ParentsType, Bounds DEF Full, Unchained
    <3>3. k \in SoundIn(par2, S2)
      BY <3>1, <3>2, SoundInDef
    <3>. QED BY <3>1, <3>3
  <2>. QED BY <2>4, <2>5
<1>3. Runs \subseteq T
  BY <1>2, OldestFirst
<1>. SUFFICES ASSUME NEW k \in SoundIn(par, S) \ (delete \cup merge) PROVE k \in SoundIn(par2, S2)
  OBVIOUS
<1>4. k \in Runs /\ u[k] = k
  BY <1>0, ParentsType DEF SoundIn
<1>. QED BY <1>3, <1>4, ParentsType

-----------------------------------------------------------------------------
(* The invariant. *)

\* The VHDs of r whose chain is whole, and the backups that retention may count:
\* what cleanVm() does not delete, and what the user did.
Sound(r) == SoundIn(parent[r], vhds[r])
Solid(r) == (jsons[r] \cap Sound(r)) \cup deleted[r]

Begun  == {"before", "select", "remove", "snapshot", "tag", "prepare"}
Built  == {"remove", "snapshot", "tag", "prepare", "transfer", "chain"}
Tagged == {"prepare", "transfer", "chain", "length", "mark", "cleanup"}
Over   == {"idle", "finally", "after"}

\* A run that makes a snapshot has removed all but the last one.
Snapped ==
    /\ step \in Tagged => now \in snapshots
    /\ step = "cleanup" => now \in exported
    /\ \A i, j, k \in snapshots : ~(i < j /\ j < k)
    /\ step \in {"snapshot", "tag"} => \A i, j \in snapshots : i = j
    /\ \A k \in 1 .. now : schedule[k] \in Schedules

\* What there is was made by a run whose snapshot was not newer than the last one.
NumberedAt(r) ==
    /\ vhds[r] \cup jsons[r] \cup done[r] \cup deleted[r] \subseteq 1 .. now
    /\ step \in Begun => now \notin vhds[r] \cup jsons[r] \cup deleted[r]
    /\ step \notin Over => now \notin done[r]
    /\ \A k \in vhds[r] : \E j \in snapshots : k <= j

\* No VHD comes between another one and its parent, and the base is the last one.
OrderedAt(r) ==
    /\ \A k \in vhds[r] : parent[r][k] \in Runs => \A j \in vhds[r] : ~(parent[r][k] < j /\ j < k)
    /\ step \in {"snapshot", "tag", "prepare"} /\ base \in snapshots => \A k \in vhds[r] : k <= base
    /\ step \in {"transfer", "chain"} /\ differencing => base \in Runs /\ \A k \in vhds[r] \ {now} : k <= base

\* What cleanVm() is about to do deletes no metadata but those without a whole
\* chain, and nothing in the chains of the others.
SafeFor(p, metadata, sound, par) ==
    /\ \A k \in metadata : k \in p.forget <=> k \notin sound
    /\ p.merge \cap metadata = {}
    /\ metadata \cap sound \cap p.delete = {}
    /\ \A k \in sound \ p.delete : par[k] \in Runs => par[k] \notin p.delete

SafeAt(r) == \A c \in Cleaners : plan[r][c] # None => SafeFor(plan[r][c], jsons[r], Sound(r), parent[r])

\* A run cleans before and after the rest, and has the lock of its writers.
Planned ==
    /\ step \notin Over \cup {"before"} => writers \subseteq held
    /\ step = "before" => writers \subseteq held \cup busy
    /\ step # "after" => busy \subseteq writers
    /\ \A r \in Remotes : plan[r]["run"] # None => r \in busy /\ step \in {"before", "after"}

\* What a writer that is still used has done.
TransferredAt(r) ==
    /\ step \in Begun => r \notin written
    /\ step \in Begun \cup {"transfer"} => r \notin chained
    /\ r \in writers =>
        /\ step = "transfer" /\ r \notin written => now \notin vhds[r]
        /\ (step = "transfer" /\ r \in written \ busy) \/ (step = "chain" /\ now \in vhds[r])
               => now \in jsons[r] \cup deleted[r]
        /\ step \in {"transfer", "chain"} /\ ~differencing /\ now \in vhds[r] => parent[r][now] = Full
        /\ step = "chain" /\ r \in chained => now \in Sound(r)
        /\ step = "chain" /\ r \notin busy => now \in Sound(r) \cap named[r]
        /\ step \in {"length", "mark", "cleanup"} => now \in Sound(r) \cap named[r] \cap (jsons[r] \cup deleted[r])

\* Once a run has cleaned, what is listed is whole, and so is the base.
BasedAt(r) ==
    r \in writers =>
        /\ (step = "before" /\ r \notin busy) \/ step \in Begun \ {"before"} => jsons[r] \subseteq Sound(r)
        /\ step \in Built /\ base # None => base \in Sound(r)

\* There are enough backups after an old one that do not go with it.
Newer(set, e, s) == {j \in set : e < j /\ schedule[j] = s}

SparedAt(r) ==
    step \notin Over /\ r \in writers =>
        \A e \in old[r] :
            /\ e < now /\ schedule[e] = schedule[now]
            /\ Cardinality(Newer((Solid(r) \ old[r]) \ {now}, e, schedule[now])) >= ExportRetention - 1

\* The backups of which a cache may have kept the name.
Past(r) == jsons[r] \cup deleted[r] \cup expired[r]

CachedAt(r) ==
    /\ \A k \in expired[r] : k < now
    /\ cache[r] # None => cache[r] \subseteq Past(r)
    /\ \A c \in Cleaners : plan[r][c] # None =>
           /\ plan[r][c].list \subseteq Past(r) \ plan[r][c].forget
           /\ plan[r][c].forget # {} => plan[r][c].must

\* An old entry that a stale cache still names has newer ones for it too.
KeptAt(r) ==
    \A k \in (done[r] \cup expired[r]) \ deleted[r] :
        \/ k \in jsons[r] \cap Sound(r)
        \/ Cardinality(Newer(Solid(r), k, schedule[k])) >= ExportRetention

ReadyAt(r) ==
    \A k \in LastExported : k \in done[r] \ deleted[r] => k \in named[r] \cap jsons[r] \cap Sound(r)

\* The settings under which a backup is kept.
Settings == Locks /\ ~DeleteFirst /\ SnapshotRetention = 0 /\ "metadata" \notin Failures

Shape   == Snapped /\ Planned /\ \A r \in Remotes : NumberedAt(r) /\ OrderedAt(r) /\ SafeAt(r)
Promise == \A r \in Remotes : TransferredAt(r) /\ BasedAt(r) /\ SparedAt(r) /\ CachedAt(r) /\ KeptAt(r) /\ ReadyAt(r)

-----------------------------------------------------------------------------
(* What cleanVm() finds. *)

LEMMA SoundDef ==
  ASSUME Types, NEW r \in Remotes
  PROVE  /\ Sound(r) \in SUBSET Runs /\ Sound(r) \subseteq vhds[r]
         /\ \A k \in Runs : k \in Sound(r) <=>
                k \in vhds[r] /\ (parent[r][k] \in Runs => parent[r][k] \in Sound(r)) /\ parent[r][k] # Unchained
<1>1. Older(parent[r])
  BY DEF Types, FileTypes
<1>. QED BY <1>1, SoundInDef DEF Sound, SoundIn

\* The VHDs that are ignored have no whole chain.
LEMMA SeenSound ==
  ASSUME Types, NEW r \in Remotes, OrderedAt(r), NEW ignored \in Ignored(r)
  PROVE  Sound(r) \cap ignored = {}
<1>. SUFFICES ASSUME NEW k \in Sound(r), k \in ignored PROVE FALSE
  OBVIOUS
<1>0. k \in Runs /\ k \in vhds[r] /\ parent[r][k] # Unchained /\ vhds[r] \in SUBSET Runs
  BY SoundDef DEF Types, FileTypes
<1>1. Older(parent[r])
  BY DEF Types, FileTypes
<1>2. parent[r][k] \in Runs \cup {Full}
  BY <1>0, <1>1 DEF Older, Parents
<1>3. k \in Children(r, parent[r][k])
  BY <1>0 DEF Children
<1>4. parent[r][k] \in Runs
  BY <1>2, <1>3 DEF Ignored
<1>5. Children(r, parent[r][k]) \subseteq {k}
  <2>. SUFFICES ASSUME NEW j \in vhds[r], parent[r][j] = parent[r][k], j # k PROVE FALSE
    BY DEF Children
  <2>1. j \in Nat /\ k \in Nat /\ parent[r][k] \in Nat /\ j \in Runs
    BY <1>0, <1>4, ParentsType
  <2>2. parent[r][k] < j /\ parent[r][k] < k
    BY <1>0, <1>1, <1>4, <2>1, ParentsType DEF Older
  <2>3. ~(j < k) /\ ~(k < j)
    BY <1>0, <1>4, <2>2 DEF OrderedAt
  <2>. QED BY <2>1, <2>3
<1>6. Children(r, parent[r][k]) \ ignored = {}
  BY <1>5
<1>7. Cardinality(Children(r, parent[r][k]) \ ignored) = 1
  BY <1>3, <1>4, Bounds DEF Ignored, Full, Runs
<1>. QED BY <1>6, <1>7, FS_EmptySet

LEMMA FindingsSafe ==
  ASSUME Types, NEW r \in Remotes, OrderedAt(r), NEW ignored \in Ignored(r), NEW merge
  PROVE  SafeFor(Findings(r, ignored, merge), jsons[r], Sound(r), parent[r])
<1>. DEFINE seen    == vhds[r] \ ignored
            orphans == {k \in vhds[r] : Orphan(parent[r], seen)[k]}
            kept    == seen \ orphans
            used    == kept \cap jsons[r]
            needed  == {p \in kept : \E k \in used : Needs(parent[r], p)[k]}
            found   == Findings(r, ignored, merge)
<1>0. /\ found.delete = orphans \cup (kept \ needed)
      /\ found.merge = IF merge THEN needed \ used ELSE {}
      /\ found.forget = jsons[r] \ kept
  BY DEF Findings
<1>1. vhds[r] \in SUBSET Runs /\ jsons[r] \in SUBSET Runs /\ Older(parent[r])
  BY DEF Types, FileTypes
<1>2. \A k \in Runs : Orphan(parent[r], seen)[k] <=>
             \/ parent[r][k] = Unchained
             \/ parent[r][k] \in Runs /\ (parent[r][k] \notin seen \/ Orphan(parent[r], seen)[parent[r][k]])
  BY <1>1, OrphanDef
<1>3. \A k \in Runs : parent[r][k] \in Runs => parent[r][k] < k
  BY <1>1, ParentsType DEF Older
<1>. HIDE DEF found
<1>4. kept = Sound(r)
  <2>. DEFINE T == {k \in Runs : k \in kept <=> k \in Sound(r)}
  <2>1. ASSUME NEW k \in Runs, \A j \in Runs : j < k => j \in T PROVE k \in T
    <3>1. k \in Sound(r) <=>
              k \in vhds[r] /\ (parent[r][k] \in Runs => parent[r][k] \in Sound(r)) /\ parent[r][k] # Unchained
      BY SoundDef
    <3>2. k \in Sound(r) => k \notin ignored
      BY SeenSound
    <3>3. parent[r][k] \in Runs => (parent[r][k] \in kept <=> parent[r][k] \in Sound(r))
      BY <1>3, <2>1
    <3>4. parent[r][k] = Unchained => parent[r][k] \notin Runs
      BY ParentsType
    <3>. QED BY <1>2, <3>1, <3>2, <3>3, <3>4
  <2>2. Runs \subseteq T
    BY <2>1, OldestFirst
  <2>. QED BY <1>1, <2>2, SoundDef
<1>5. \A k \in used : k \in needed
  BY <1>1, NeedsDef
<1>6. ASSUME NEW k \in Sound(r), k \in needed, parent[r][k] \in Runs PROVE parent[r][k] \in needed
  <2>1. PICK j \in used : Needs(parent[r], k)[j]
    BY <1>6
  <2>2. j \in Runs /\ k \in Runs
    BY <1>1, SoundDef
  <2>3. Needs(parent[r], parent[r][k])[j]
    BY <1>1, <1>6, <2>1, <2>2, NeedsParent
  <2>4. parent[r][k] \in kept
    BY <1>4, <1>6, <2>2, SoundDef
  <2>. QED BY <2>1, <2>3, <2>4
<1>. HIDE DEF orphans, needed
<1>7. \A k \in kept : k \notin orphans
  OBVIOUS
<1>8. needed \subseteq kept
  BY DEF needed
<1>9. \A k \in Sound(r) \ found.delete : parent[r][k] \in Runs => parent[r][k] \notin found.delete
  BY <1>0, <1>4, <1>6, <1>7, <1>8
<1>. QED BY <1>0, <1>4, <1>5, <1>7, <1>8, <1>9 DEF SafeFor, found

-----------------------------------------------------------------------------
(* The snapshots. *)

\* The last one of a set.
LEMMA LatestLast ==
  ASSUME NEW set \in SUBSET Runs, NEW j \in set
  PROVE  \E k \in Latest(1, set) : j <= k
<1>. DEFINE S == {n \in Nat : MaxRuns - n \in set /\ j <= MaxRuns - n}
<1>0. Runs \subseteq Nat /\ \A k \in Runs : k <= MaxRuns
  BY DEF Runs
<1>1. MaxRuns - j \in S
  <2>1. j \in Nat /\ j <= MaxRuns
    BY <1>0
  <2>. QED BY <2>1, Bounds
<1>2. PICK n \in S : \A i \in S : <<i, n>> \notin OpToRel(<, Nat)
  BY <1>1, WFMin, NatLessThanWellFounded
<1>3. \A i \in S : ~(i < n)
  BY <1>2 DEF OpToRel
<1>. DEFINE k == MaxRuns - n
<1>4. k \in set /\ j <= k /\ k \in Nat /\ n \in Nat
  BY <1>0, <1>2
<1>5. ASSUME NEW i \in set, i > k PROVE FALSE
  <2>1. i \in Nat /\ i <= MaxRuns /\ j \in Nat
    BY <1>0
  <2>2. MaxRuns - i \in Nat /\ MaxRuns - i < n /\ MaxRuns - (MaxRuns - i) = i /\ j <= i
    BY <1>4, <1>5, <2>1, Bounds
  <2>3. MaxRuns - i \in S
    BY <2>2
  <2>. QED BY <1>3, <2>2, <2>3
<1>6. {i \in set : i > k} = {}
  BY <1>5
<1>7. k \in Latest(1, set)
  BY <1>4, <1>6, FS_EmptySet DEF Latest
<1>. QED BY <1>4, <1>7

LEMMA RunsAre == ASSUME Types PROVE 1 .. now \subseteq Runs /\ now \in Nat /\ (step # "idle" => now \in Runs)
  BY Bounds DEF Types, RunTypes, Runs

\* Without retention of snapshots, only the last one is kept.
LEMMA LastSnapshot ==
  ASSUME Types, Snapped, Settings
  PROVE  /\ snapshots \in SUBSET Runs /\ snapshots \in SUBSET Nat /\ \A k \in snapshots : k <= now
         /\ snapshots \ UnusedSnapshots = Latest(1, snapshots)
         /\ \A k \in snapshots : \E j \in snapshots \ UnusedSnapshots : k <= j
<1>1. snapshots \in SUBSET (1 .. now) /\ snapshots \in SUBSET Runs /\ snapshots \in SUBSET Nat
  BY RunsAre DEF Types, PoolTypes
<1>2. \A s : Latest(0, {k \in snapshots : schedule[k] = s}) = {}
  <2>. SUFFICES ASSUME NEW s PROVE Latest(0, {k \in snapshots : schedule[k] = s}) = {}
    OBVIOUS
  <2>1. {k \in snapshots : schedule[k] = s} \in SUBSET Runs
    BY <1>1
  <2>. QED BY <2>1, LatestCardinality
<1>3. UnusedSnapshots = snapshots \ Latest(1, snapshots)
  <2>1. \A k \in snapshots : k \in 1 .. now /\ schedule[k] \in Schedules
    BY <1>1 DEF Snapped
  <2>2. \A s : GetOldEntries(0, {k \in snapshots : schedule[k] = s}) = {k \in snapshots : schedule[k] = s}
    BY <1>2 DEF GetOldEntries
  <2>. DEFINE G(s) == GetOldEntries(SnapshotRetention, {k \in snapshots : schedule[k] = s})
  <2>3. UnusedSnapshots = (UNION {G(s) : s \in Schedules}) \ Latest(1, snapshots)
    BY Zenon DEF UnusedSnapshots
  <2>4. \A s : G(s) = {k \in snapshots : schedule[k] = s}
    BY <2>2 DEF Settings
  <2>. HIDE DEF G
  <2>5. ASSUME NEW k \in snapshots PROVE \E s \in Schedules : k \in G(s)
    BY <2>1, <2>4
  <2>6. \A s : G(s) \subseteq snapshots
    BY <2>4
  <2>. QED BY <2>3, <2>5, <2>6
<1>4. snapshots \ UnusedSnapshots = Latest(1, snapshots)
  BY <1>3, LatestSubset
<1>5. \A k \in snapshots : k \in Nat /\ k \in 1 .. now /\ k <= now
  BY <1>1
<1>6. \A k \in snapshots : \E j \in Latest(1, snapshots) : k <= j
  BY <1>1, LatestLast
<1>. QED BY <1>1, <1>4, <1>5, <1>6

LEMMA SnappedStep ==
  ASSUME Types, Snapped, Settings, [Next]_vars
  PROVE  Snapped'
<1>. USE DEF pool, choices, run, vars
<1>0. /\ snapshots \in SUBSET Nat /\ now \in Nat /\ \A k \in snapshots : k <= now
      /\ \A i, j, k \in snapshots : ~(i < j /\ j < k)
      /\ \A k \in 1 .. now : schedule[k] \in Schedules
  BY LastSnapshot, RunsAre DEF Snapped
<1>1. ASSUME NEW r \in Remotes, RemoteStep(r) PROVE Snapped'
  BY <1>1, RemotePool DEF Snapped, Tagged
<1>2. ASSUME NEW s \in Schedules, Start(s) PROVE Snapped'
  <2>1. /\ now' = now + 1 /\ UNCHANGED <<snapshots, exported>> /\ step' = "before"
        /\ schedule' = [schedule EXCEPT ![now'] = s] /\ now' \in Runs
    BY <1>0, <1>2, Bounds DEF Start, Runs
  <2>2. \A k \in 1 .. now' : k \in 1 .. now \/ k = now'
    BY <1>0, <2>1
  <2>3. schedule'[now'] = s /\ \A k \in 1 .. now : schedule'[k] = schedule[k]
    BY <1>0, <2>1 DEF Types, PoolTypes
  <2>. QED BY <1>0, <2>1, <2>2, <2>3 DEF Snapped, Tagged
<1>3. CASE RemoveUnused
  <2>1. /\ step = "remove" /\ step' = "snapshot" /\ snapshots' = snapshots \ UnusedSnapshots
        /\ UNCHANGED <<exported, schedule, now>>
    BY <1>3 DEF RemoveUnused
  <2>2. \A i, j \in snapshots' : i = j
    BY <2>1, LastSnapshot, LatestOne
  <2>. QED BY <1>0, <2>1, <2>2 DEF Snapped, Tagged
<1>4. CASE FinallyRemove \/ PoolFails
  <2>1. /\ snapshots' \in SUBSET snapshots /\ UNCHANGED <<exported, schedule, now>> /\ step' \in Over
    BY <1>4 DEF FinallyRemove, PoolFails, Over
  <2>. QED BY <1>0, <2>1 DEF Snapped, Tagged, Over
<1>5. CASE Tag
  <2>1. /\ step = "tag" /\ step' = "prepare" /\ snapshots' = snapshots \cup {now}
        /\ UNCHANGED <<exported, schedule, now>> /\ \A i, j \in snapshots : i = j
    BY <1>5 DEF Tag, Snapped
  <2>2. ASSUME NEW i \in snapshots', NEW j \in snapshots', NEW k \in snapshots', i < j, j < k PROVE FALSE
    <3>1. i \in snapshots /\ j \in snapshots /\ i \in Nat /\ j \in Nat
      <4>1. i <= now /\ j <= now /\ k <= now /\ {i, j, k} \subseteq Nat
        BY <1>0, <2>1
      <4>2. i # now /\ j # now
        BY <1>0, <2>2, <4>1
      <4>. QED BY <2>1, <4>1, <4>2
    <3>2. i = j
      BY <2>1, <3>1
    <3>. QED BY <2>2, <3>1, <3>2
  <2>. QED BY <1>0, <2>1, <2>2 DEF Snapped, Tagged
<1>6. CASE Mark
  BY <1>0, <1>6 DEF Mark, Snapped, Tagged
<1>7. CASE BeginSelect \/ SelectBase \/ Snapshot \/ Export \/ BeginChain \/ BeginLength \/ SetLength \/ EndCleanup \/ End \/ Crash
  <2>1. /\ UNCHANGED <<snapshots, exported, schedule, now>> /\ step' # "cleanup"
        /\ step' \in Tagged => step \in Tagged
        /\ step' \in {"snapshot", "tag"} => step \in {"snapshot", "tag"}
    BY <1>7 DEF BeginSelect, SelectBase, Snapshot, Export, BeginChain, BeginLength, SetLength, EndCleanup, End, Crash,
                Tagged
  <2>. QED BY <1>0, <2>1 DEF Snapped
<1>8. CASE UNCHANGED vars
  BY <1>8 DEF Snapped
<1>. QED BY <1>1, <1>2, <1>3, <1>4, <1>5, <1>6, <1>7, <1>8, NextSteps DEF RunStep

-----------------------------------------------------------------------------
(* The numbers of the runs. *)

\* What the steps of a writer do to the VHDs.
VhdStep(r) ==
    \/ UNCHANGED <<vhds, parent>>
    \/ \E c \in Cleaners : Clean(r, c)
    \/ WriteVhd(r)
    \/ /\ step = "chain" /\ r \in busy /\ differencing /\ {now, base} \subseteq vhds[r]
       /\ parent' = [parent EXCEPT ![r][now] = base] /\ vhds' = vhds

LEMMA RemoteVhds ==
  ASSUME NEW r \in Remotes, RemoteStep(r)
  PROVE  VhdStep(r)
<1>1. CASE EndBeforeBackup(r) \/ EndAfterBackup(r) \/ OtherClean(r)
  BY <1>1 DEF VhdStep, EndBeforeBackup, EndAfterBackup, OtherClean, Cleaners
<1>2. CASE WriteVhd(r)
  BY <1>2 DEF VhdStep
<1>3. CASE Chain(r)
  BY <1>3 DEF VhdStep, Chain
<1>4. CASE BeforeBackup(r) \/ Prepare(r) \/ DeleteOldEntry(r) \/ WriteMetadata(r) \/ UpdateUuid(r) \/ AfterBackup(r)
           \/ WriterFails(r) \/ TransferFails(r) \/ CacheDiverges(r) \/ OtherScan(r)
           \/ \E k \in Runs : DeleteBackup(r, k)
  BY <1>4 DEF VhdStep, BeforeBackup, Prepare, DeleteOldEntry, WriteMetadata, UpdateUuid, AfterBackup, WriterFails,
              TransferFails, CacheDiverges, OtherScan, DeleteBackup, files
<1>. QED BY <1>1, <1>2, <1>3, <1>4 DEF RemoteStep

\* The VHDs and the metadata that a step adds are those of the run.
LEMMA RemoteFiles ==
  ASSUME Types, NEW r \in Remotes, RemoteStep(r), NEW q \in Remotes
  PROVE  /\ vhds'[q] \subseteq vhds[q] \cup (IF step = "transfer" THEN {now} ELSE {})
         /\ jsons'[q] \subseteq jsons[q] \cup (IF step = "transfer" THEN {now} ELSE {})
         /\ done' = done /\ deleted'[q] \subseteq deleted[q] \cup jsons[q]
<1>. USE DEF pool, files, choices, run, history
<1>0. FileTypes
  BY DEF Types
<1>1. CASE BeforeBackup(r) \/ Prepare(r) \/ Chain(r) \/ UpdateUuid(r) \/ AfterBackup(r) \/ WriterFails(r)
           \/ TransferFails(r) \/ CacheDiverges(r) \/ OtherScan(r)
  BY <1>1 DEF BeforeBackup, Prepare, Chain, UpdateUuid, AfterBackup, WriterFails, TransferFails, CacheDiverges, OtherScan, Fail
<1>2. CASE EndBeforeBackup(r) \/ EndAfterBackup(r) \/ OtherClean(r)
  <2>1. PICK c \in Cleaners : Clean(r, c) /\ UNCHANGED <<done, deleted>>
    BY <1>2 DEF EndBeforeBackup, EndAfterBackup, OtherClean, Cleaners
  <2>. QED BY <1>0, <2>1 DEF Clean, FileTypes
<1>3. CASE DeleteOldEntry(r)
  BY <1>0, <1>3 DEF DeleteOldEntry, FileTypes
<1>4. CASE WriteVhd(r)
  BY <1>0, <1>4 DEF WriteVhd, FileTypes
<1>5. CASE WriteMetadata(r)
  BY <1>0, <1>5 DEF WriteMetadata, FileTypes
<1>6. ASSUME NEW k \in Runs, DeleteBackup(r, k)
      PROVE  /\ vhds' = vhds /\ done' = done
             /\ jsons'[q] \subseteq jsons[q] /\ deleted'[q] \subseteq deleted[q] \cup jsons[q]
  BY <1>0, <1>6 DEF DeleteBackup, FileTypes
<1>. QED BY <1>1, <1>2, <1>3, <1>4, <1>5, <1>6 DEF RemoteStep

LEMMA NumberedStep ==
  ASSUME Types, Snapped, Settings, \A q \in Remotes : NumberedAt(q), [Next]_vars, NEW q \in Remotes
  PROVE  NumberedAt(q)'
<1>. USE DEF pool, files, choices, run, history, vars
<1>0. /\ NumberedAt(q) /\ vhds[q] \in SUBSET Nat /\ now \in Nat
      /\ snapshots \in SUBSET Nat /\ (step # "idle" => now \in 1 .. now)
  BY RunsAre DEF Types, FileTypes, PoolTypes, Runs
<1>1. ASSUME NEW r \in Remotes, RemoteStep(r) PROVE NumberedAt(q)'
  <2>1. /\ vhds'[q] \subseteq vhds[q] \cup (IF step = "transfer" THEN {now} ELSE {})
        /\ jsons'[q] \subseteq jsons[q] \cup (IF step = "transfer" THEN {now} ELSE {})
        /\ done' = done /\ deleted'[q] \subseteq deleted[q] \cup jsons[q]
    BY <1>1, RemoteFiles
  <2>2. UNCHANGED <<snapshots, now>> /\ (step' = step \/ step' \in Over)
    BY <1>1, RemotePool DEF Over
  <2>3. step = "transfer" => now \in snapshots /\ now <= now /\ now \in 1 .. now
    BY <1>0 DEF Snapped, Tagged
  <2>4. step' \in Begun => step' = step /\ step # "transfer"
    BY <2>2 DEF Begun, Over
  <2>5. vhds'[q] \cup jsons'[q] \cup done'[q] \cup deleted'[q] \subseteq 1 .. now'
    BY <1>0, <2>1, <2>2, <2>3 DEF NumberedAt
  <2>6. \A k \in vhds'[q] : \E j \in snapshots' : k <= j
    BY <1>0, <2>1, <2>2, <2>3 DEF NumberedAt
  <2>. QED BY <1>0, <2>1, <2>2, <2>4, <2>5, <2>6 DEF NumberedAt
<1>2. ASSUME NEW s \in Schedules, Start(s) PROVE NumberedAt(q)'
  <2>1. UNCHANGED <<vhds, jsons, done, deleted, snapshots>> /\ now' = now + 1
    BY <1>2 DEF Start
  <2>2. 1 .. now \subseteq 1 .. now' /\ now' \notin 1 .. now
    BY <1>0, <2>1
  <2>. QED BY <1>0, <2>1, <2>2 DEF NumberedAt
<1>3. CASE RemoveUnused \/ FinallyRemove \/ PoolFails
  <2>1. /\ UNCHANGED <<vhds, jsons, done, deleted, now>> /\ step # "idle"
        /\ snapshots \ UnusedSnapshots \subseteq snapshots' /\ (step' = "snapshot" => step \in Begun)
        /\ (step' = "snapshot" /\ step = "remove") \/ step' \in Over
    BY <1>3 DEF RemoveUnused, FinallyRemove, PoolFails, Begun, Over, Fail
  <2>2. \A k \in vhds[q] : \E j \in snapshots : k <= j
    BY <1>0 DEF NumberedAt
  <2>3. \A k \in snapshots : \E j \in snapshots' : k <= j
    BY <2>1, LastSnapshot
  <2>4. snapshots' \subseteq snapshots
    BY <1>3 DEF RemoveUnused, FinallyRemove, PoolFails
  <2>5. \A k \in vhds[q] : \E j \in snapshots' : k <= j
    <3>. SUFFICES ASSUME NEW k \in vhds[q] PROVE \E j \in snapshots' : k <= j
      OBVIOUS
    <3>1. PICK i \in snapshots : k <= i
      BY <2>2
    <3>2. PICK j \in snapshots' : i <= j
      BY <2>3
    <3>3. k \in Nat /\ i \in Nat /\ j \in Nat
      BY <1>0, <2>4
    <3>. QED BY <3>1, <3>2, <3>3
  <2>. QED BY <1>0, <2>1, <2>5 DEF NumberedAt, Begun, Over
<1>4. CASE EndCleanup
  <2>1. /\ UNCHANGED <<vhds, jsons, deleted, snapshots, now>> /\ step' = "finally" /\ step = "cleanup"
        /\ done' = [r \in Remotes |-> IF r \in writers THEN done[r] \cup {now} ELSE done[r]]
    BY <1>4 DEF EndCleanup
  <2>. QED BY <1>0, <2>1 DEF NumberedAt, Begun, Over
<1>5. CASE BeginSelect \/ SelectBase \/ Snapshot \/ Tag \/ Export \/ BeginChain \/ BeginLength \/ SetLength \/ Mark
           \/ End \/ Crash
  <2>1. /\ UNCHANGED <<vhds, jsons, done, deleted, now>> /\ snapshots \subseteq snapshots'
        /\ step' \in Begun => step \in Begun
        /\ step' \notin Over => step \notin Over
    BY <1>5 DEF BeginSelect, SelectBase, Snapshot, Tag, Export, BeginChain, BeginLength, SetLength, Mark, End, Crash,
                Begun, Over, Fail
  <2>. QED BY <1>0, <2>1 DEF NumberedAt
<1>6. CASE UNCHANGED vars
  BY <1>0, <1>6 DEF NumberedAt
<1>. QED BY <1>1, <1>2, <1>3, <1>4, <1>5, <1>6, NextSteps DEF RunStep

-----------------------------------------------------------------------------
(* The order of the VHDs. *)

\* A VHD that gets the parent of one that is merged follows it.
LEMMA OrderCleaned ==
  ASSUME NEW par, Older(par), NEW S \in SUBSET Runs, NEW merge \in SUBSET S,
         \A k \in S : par[k] \in Runs => \A j \in S : ~(par[k] < j /\ j < k),
         NEW k \in S, UpTo(par, merge)[par[k]] \in Runs, NEW j \in S \ merge
  PROVE  ~(UpTo(par, merge)[par[k]] < j /\ j < k)
<1>. DEFINE u == UpTo(par, merge)
            T == {i \in Runs : i \in S /\ u[par[i]] \in Runs => ~(u[par[i]] < j /\ j < i)}
<1>0. \A p \in Parents : u[p] = IF p \in merge THEN u[par[p]] ELSE p
  BY UpToDef
<1>1. \A i \in Runs : par[i] \in Parents /\ (par[i] \in Runs => par[i] < i)
  BY ParentsType DEF Older
<1>. HIDE DEF u
<1>2. ASSUME NEW i \in Runs, \A h \in Runs : h < i => h \in T PROVE i \in T
  <2>. SUFFICES ASSUME i \in S, u[par[i]] \in Runs, u[par[i]] < j, j < i PROVE FALSE
    OBVIOUS
  <2>1. CASE par[i] \notin merge
    BY <1>0, <1>1, <2>1
  <2>2. CASE par[i] \in merge
    <3>1. par[i] \in Runs /\ par[i] \in S /\ par[i] < i /\ u[par[i]] = u[par[par[i]]]
      BY <1>0, <1>1, <2>2
    <3>2. ~(j < par[i]) /\ ~(par[i] < j) /\ j # par[i]
      BY <1>2, <2>2, <3>1
    <3>3. j \in Nat /\ par[i] \in Nat
      BY <3>1, ParentsType
    <3>. QED BY <3>2, <3>3
  <2>. QED BY <2>1, <2>2
<1>3. Runs \subseteq T
  BY <1>2, OldestFirst
<1>. QED BY <1>3 DEF u

\* A cleaning, in terms of the operators on chains.
LEMMA CleanIs ==
  ASSUME Types, NEW r \in Remotes, NEW c \in Cleaners, Clean(r, c)
  PROVE  \E merge \in SUBSET Runs :
            /\ merge = plan[r][c].merge \cap vhds[r]
            /\ vhds'[r] = vhds[r] \ (plan[r][c].delete \cup merge)
            /\ parent'[r] = [k \in Runs |-> UpTo(parent[r], merge)[parent[r][k]]]
            /\ jsons'[r] = jsons[r] \ plan[r][c].forget
            /\ Older(parent[r]) /\ Older(parent'[r])
            /\ \A q \in Remotes \ {r} : vhds'[q] = vhds[q] /\ parent'[q] = parent[q] /\ jsons'[q] = jsons[q]
<1>. DEFINE merge == plan[r][c].merge \cap vhds[r]
            new   == [k \in Runs |-> UpTo(parent[r], merge)[parent[r][k]]]
<1>1. /\ vhds' = [vhds EXCEPT ![r] = vhds[r] \ (plan[r][c].delete \cup merge)]
      /\ parent' = [parent EXCEPT ![r] = new]
      /\ jsons' = [jsons EXCEPT ![r] = jsons[r] \ plan[r][c].forget]
  BY DEF Clean
<1>2. merge \in SUBSET Runs
  BY DEF Types, FileTypes
<1>3. Older(parent[r]) /\ Older(parent'[r])
  BY CleanType DEF Types, FileTypes
<1>. HIDE DEF merge
<1>4. new = [k \in Runs |-> UpTo(parent[r], merge)[parent[r][k]]]
  OBVIOUS
<1>. HIDE DEF new
<1>5. vhds'[r] = vhds[r] \ (plan[r][c].delete \cup merge) /\ parent'[r] = new /\ jsons'[r] = jsons[r] \ plan[r][c].forget
  BY <1>1 DEF Types, FileTypes
<1>6. \A q \in Remotes \ {r} : vhds'[q] = vhds[q] /\ parent'[q] = parent[q] /\ jsons'[q] = jsons[q]
  BY <1>1 DEF Types, FileTypes
<1>7. merge = plan[r][c].merge \cap vhds[r]
  BY DEF merge
<1>. QED BY <1>2, <1>3, <1>4, <1>5, <1>6, <1>7

\* The steps of a writer change the VHDs of its remote.
LEMMA RemoteOthers ==
  ASSUME Types, NEW r \in Remotes, VhdStep(r), NEW q \in Remotes, q # r
  PROVE  vhds'[q] = vhds[q] /\ parent'[q] = parent[q]
<1>1. CASE \E c \in Cleaners : Clean(r, c)
  BY <1>1, CleanIs
<1>2. CASE ~\E c \in Cleaners : Clean(r, c)
  BY <1>2 DEF VhdStep, WriteVhd, Types, FileTypes
<1>. QED BY <1>1, <1>2

LEMMA OrderedStep ==
  ASSUME Types, Snapped, Snapped', Settings, [Next]_vars, NEW q \in Remotes,
         NumberedAt(q), NumberedAt(q)', OrderedAt(q)
  PROVE  OrderedAt(q)'
<1>. USE DEF pool, files, choices, run, history, vars
<1>0. /\ vhds[q] \in SUBSET Nat /\ now \in Nat /\ vhds[q] \in SUBSET Runs /\ \A k \in vhds[q] : k <= now
      /\ snapshots \in SUBSET Nat /\ (step # "idle" => now \in Runs)
      /\ Older(parent[q]) /\ base \in 1 .. (now - 1) \cup {None} /\ base # now
      /\ \A k \in vhds[q] : parent[q][k] \in Runs => \A j \in vhds[q] : ~(parent[q][k] < j /\ j < k)
  <2>1. \A k \in vhds[q] : k \in 1 .. now
    BY DEF NumberedAt
  <2>2. base # now
    BY RunsAre, Bounds DEF Types, PoolTypes
  <2>. QED BY <2>1, <2>2, RunsAre DEF Types, FileTypes, PoolTypes, Runs, OrderedAt
<1>1. ASSUME NEW r \in Remotes, RemoteStep(r) PROVE OrderedAt(q)'
  <2>1. UNCHANGED <<snapshots, now, base, differencing>> /\ (step' = step \/ step' \in Over)
    BY <1>1, RemotePool DEF Over
  <2>2. vhds'[q] \subseteq vhds[q] \cup (IF step = "transfer" THEN {now} ELSE {})
    BY <1>1, RemoteFiles
  <2>3. step' \in {"snapshot", "tag", "prepare"} => step' = step /\ vhds'[q] \subseteq vhds[q]
    BY <2>1, <2>2 DEF Over
  <2>4. step' \in {"transfer", "chain"} => step' = step /\ vhds'[q] \ {now'} \subseteq vhds[q] \ {now}
    BY <2>1, <2>2 DEF Over
  <2>5. SUFFICES ASSUME NEW k \in vhds'[q], parent'[q][k] \in Runs, NEW j \in vhds'[q], parent'[q][k] < j, j < k
                 PROVE  FALSE
    BY <2>1, <2>3, <2>4 DEF OrderedAt
  <2>6. VhdStep(r)
    BY <1>1, RemoteVhds
  <2>7. CASE r # q \/ UNCHANGED <<vhds, parent>>
    BY <1>0, <2>5, <2>6, <2>7, RemoteOthers
  <2>8. ASSUME NEW c \in Cleaners, Clean(r, c), r = q PROVE FALSE
    <3>1. PICK merge \in SUBSET Runs :
              /\ merge = plan[r][c].merge \cap vhds[r]
              /\ vhds'[r] = vhds[r] \ (plan[r][c].delete \cup merge)
              /\ parent'[r] = [i \in Runs |-> UpTo(parent[r], merge)[parent[r][i]]]
      BY <2>8, CleanIs
    <3>2. k \in vhds[q] /\ k \in Runs /\ j \in vhds[q] \ merge /\ merge \in SUBSET vhds[q]
      BY <1>0, <2>8, <3>1
    <3>3. parent'[q][k] = UpTo(parent[q], merge)[parent[q][k]]
      BY <2>8, <3>1, <3>2
    <3>. QED BY <1>0, <2>5, <3>2, <3>3, OrderCleaned
  <2>9. CASE r = q /\ WriteVhd(r)
    <3>1. /\ vhds' = [vhds EXCEPT ![r] = @ \cup {now}]
          /\ parent' = [parent EXCEPT ![r][now] = IF differencing THEN Unchained ELSE Full]
          /\ step = "transfer"
      BY <2>9 DEF WriteVhd
    <3>2. vhds'[q] = vhds[q] \cup {now} /\ parent'[q][now] \notin Runs /\ k # now
      BY <1>0, <2>5, <2>9, <3>1, ParentsType DEF Types, FileTypes
    <3>3. parent'[q][k] = parent[q][k] /\ k \in vhds[q]
      BY <1>0, <2>9, <3>1, <3>2 DEF Types, FileTypes
    <3>4. j # now
      BY <1>0, <2>5, <3>3
    <3>. QED BY <1>0, <2>5, <3>2, <3>3, <3>4
  <2>10. CASE /\ r = q /\ step = "chain" /\ differencing /\ {now, base} \subseteq vhds[r]
              /\ parent' = [parent EXCEPT ![r][now] = base] /\ vhds' = vhds
    <3>1. vhds'[q] = vhds[q] /\ k \in Runs /\ k \in vhds[q] /\ j \in vhds[q]
      BY <1>0, <2>5, <2>10
    <3>2. base \in Runs /\ \A i \in vhds[q] \ {now} : i <= base
      BY <2>10 DEF OrderedAt
    <3>3. parent'[q][k] = IF k = now THEN base ELSE parent[q][k]
      BY <1>0, <2>10, <3>1 DEF Types, FileTypes
    <3>4. CASE k = now
      <4>1. j <= base /\ base < j /\ base \in Nat /\ j \in Nat
        BY <1>0, <2>5, <3>1, <3>2, <3>3, <3>4, ParentsType
      <4>. QED BY <4>1
    <3>. QED BY <1>0, <2>5, <3>1, <3>3, <3>4
  <2>. QED BY <2>6, <2>7, <2>8, <2>9, <2>10 DEF VhdStep
<1>2. CASE RemoveUnused
  <2>1. UNCHANGED <<vhds, parent, base>> /\ step' = "snapshot"
    BY <1>2 DEF RemoveUnused
  <2>2. \A i, j \in snapshots' : i = j
    BY <2>1 DEF Snapped
  <2>3. \A k \in vhds'[q] : \E j \in snapshots' : k <= j
    BY DEF NumberedAt
  <2>. QED BY <1>0, <2>1, <2>2, <2>3 DEF OrderedAt
<1>3. CASE Tag
  <2>1. UNCHANGED <<vhds, parent, base>> /\ step = "tag" /\ step' = "prepare" /\ snapshots' = snapshots \cup {now}
    BY <1>3 DEF Tag
  <2>. QED BY <1>0, <2>1 DEF OrderedAt
<1>4. CASE Export
  <2>1. /\ UNCHANGED <<vhds, parent, base, now>> /\ step = "prepare" /\ step' = "transfer"
        /\ differencing' = (base # None /\ base \in snapshots)
    BY <1>4 DEF Export
  <2>2. snapshots \in SUBSET Runs
    BY LastSnapshot
  <2>. QED BY <1>0, <2>1, <2>2 DEF OrderedAt
<1>5. CASE Snapshot \/ BeginChain
  <2>1. /\ UNCHANGED <<vhds, parent, base, now, snapshots, differencing>>
        /\ (step = "snapshot" /\ step' = "tag") \/ (step = "transfer" /\ step' = "chain")
    BY <1>5 DEF Snapshot, BeginChain
  <2>. QED BY <1>0, <2>1 DEF OrderedAt
<1>6. CASE (\E s \in Schedules : Start(s)) \/ BeginSelect \/ SelectBase \/ BeginLength \/ SetLength \/ Mark
           \/ EndCleanup \/ FinallyRemove \/ End \/ PoolFails \/ Crash
  <2>1. UNCHANGED <<vhds, parent>> /\ step' \notin {"snapshot", "tag", "prepare", "transfer", "chain"}
    BY <1>6 DEF Start, BeginSelect, SelectBase, BeginLength, SetLength, Mark, EndCleanup, FinallyRemove, End,
                PoolFails, Crash
  <2>. QED BY <1>0, <2>1 DEF OrderedAt
<1>7. CASE UNCHANGED vars
  BY <1>0, <1>7 DEF OrderedAt
<1>. QED BY <1>1, <1>2, <1>3, <1>4, <1>5, <1>6, <1>7, NextSteps DEF RunStep

-----------------------------------------------------------------------------
(* The plans of cleanVm(). *)

\* The steps between the two cleanings of a run.
LEMMA Quiet ==
  ASSUME Types, Settings, Planned, NEW r \in busy, step \notin Over \cup {"before"}
  PROVE  r \in Remotes /\ r \in writers /\ r \in held /\ \A c \in Cleaners : plan[r][c] = None
  BY DEF Types, RunTypes, LockTypes, Planned, Settings, Over, Cleaners

\* The last writer that fails ends the run.
LEMMA PlannedLost ==
  ASSUME Types, Planned, NEW r \in Remotes, NEW next, LoseWriter(r, next), UNCHANGED <<held, plan>>,
         step \in {"before", "prepare", "chain", "cleanup"},
         IF step = "before" THEN r \notin held /\ next = "after" ELSE next = "finally"
  PROVE  Planned'
<1>1. CASE writers = {r}
  <2>1. writers' = {} /\ step' = next /\ busy' = IF next = "after" THEN held ELSE {}
    BY <1>1 DEF LoseWriter
  <2>2. \A q \in Remotes : plan[q]["run"] # None => q \in held /\ step \in {"before", "after"}
    BY DEF Planned, Types, LockTypes
  <2>. QED BY <2>1, <2>2 DEF Planned, Over
<1>2. CASE writers # {r}
  <2>1. writers' = writers \ {r} /\ step' = step /\ busy' = busy \ {r}
    BY <1>2 DEF LoseWriter
  <2>2. \A q \in Remotes : plan[q]["run"] # None => q # r
    BY DEF Planned, Types, LockTypes
  <2>. QED BY <2>1, <2>2 DEF Planned, Over
<1>. QED BY <1>1, <1>2

\* What a scan and a cleaning do to the plans.
LEMMA ScanPlans ==
  ASSUME Types, NEW r \in Remotes, NEW c \in Cleaners, NEW merge, Scan(r, c, merge)
  PROVE  \A q \in Remotes, d \in Cleaners : <<q, d>> # <<r, c>> => plan'[q][d] = plan[q][d]
<1>1. PICK ignored \in Ignored(r) : plan' = [plan EXCEPT ![r][c] = Findings(r, ignored, merge)]
  BY DEF Scan
<1>. QED BY <1>1 DEF Types, LockTypes

LEMMA CleanPlans ==
  ASSUME Types, NEW r \in Remotes, NEW c \in Cleaners, Clean(r, c)
  PROVE  /\ plan[r][c] # None /\ plan'[r][c] = None
         /\ \A q \in Remotes, d \in Cleaners : <<q, d>> # <<r, c>> => plan'[q][d] = plan[q][d]
<1>1. plan[r][c] # None /\ plan' = [plan EXCEPT ![r][c] = None]
  BY CleanType
<1>. QED BY <1>1 DEF Types, LockTypes

LEMMA PlannedStep ==
  ASSUME Types, Settings, Planned, [Next]_vars
  PROVE  Planned'
<1>. USE DEF pool, files, choices, run, history, vars
<1>0. /\ \A q \in Remotes : plan[q]["run"] # None => q \in held
      /\ "run" \in Cleaners /\ "other" \in Cleaners /\ "run" # "other"
      /\ step \notin {"before", "after"} => \A q \in Remotes : plan[q]["run"] = None
  BY DEF Types, LockTypes, Cleaners, Planned
<1>1. ASSUME NEW r \in Remotes, RemoteStep(r) PROVE Planned'
  <2>1. CASE BeforeBackup(r)
    <3>1. CASE LoseWriter(r, "after") /\ UNCHANGED <<held, plan>>
      BY <2>1, <3>1, PlannedLost DEF BeforeBackup
    <3>2. CASE held' = held \cup {r} /\ Scan(r, "run", TRUE) /\ UNCHANGED <<step, failed, writers, busy>>
      <4>1. step = "before" /\ r \in busy
        BY <2>1 DEF BeforeBackup
      <4>2. \A q \in Remotes : q # r => plan'[q]["run"] = plan[q]["run"]
        BY <1>0, <3>2, ScanPlans
      <4>. QED BY <3>2, <4>1, <4>2 DEF Planned, Over
    <3>. QED BY <2>1, <3>1, <3>2 DEF BeforeBackup
  <2>2. CASE EndBeforeBackup(r)
    <3>1. Clean(r, "run") /\ step = "before" /\ busy' = busy \ {r} /\ UNCHANGED <<step, writers, held>>
      BY <2>2 DEF EndBeforeBackup
    <3>2. /\ plan[r]["run"] # None /\ plan'[r]["run"] = None
          /\ \A q \in Remotes : q # r => plan'[q]["run"] = plan[q]["run"]
      BY <1>0, <3>1, CleanPlans
    <3>. QED BY <1>0, <3>1, <3>2 DEF Planned, Over
  <2>3. CASE AfterBackup(r)
    <3>1. Scan(r, "run", ~Locks) /\ step = "after" /\ r \in busy /\ UNCHANGED <<step, writers, held, busy>>
      BY <2>3 DEF AfterBackup
    <3>2. \A q \in Remotes : q # r => plan'[q]["run"] = plan[q]["run"]
      BY <1>0, <3>1, ScanPlans
    <3>. QED BY <3>1, <3>2 DEF Planned, Over
  <2>4. CASE EndAfterBackup(r)
    <3>1. Clean(r, "run") /\ step = "after" /\ busy' = busy \ {r} /\ step' = step
      BY <2>4 DEF EndAfterBackup
    <3>2. plan'[r]["run"] = None /\ \A q \in Remotes : q # r => plan'[q]["run"] = plan[q]["run"]
      BY <1>0, <3>1, CleanPlans
    <3>. QED BY <3>1, <3>2 DEF Planned, Over
  <2>5. CASE OtherScan(r)
    <3>1. PICK merge : Scan(r, "other", merge)
      BY <2>5 DEF OtherScan
    <3>2. \A q \in Remotes : plan'[q]["run"] = plan[q]["run"]
      BY <1>0, <3>1, ScanPlans
    <3>. QED BY <2>5, <3>2 DEF OtherScan, Planned
  <2>6. CASE OtherClean(r)
    <3>1. \A q \in Remotes : plan'[q]["run"] = plan[q]["run"]
      BY <1>0, <2>6, CleanPlans DEF OtherClean
    <3>. QED BY <2>6, <3>1 DEF OtherClean, Planned
  <2>7. CASE Chain(r)
    BY <2>7, PlannedLost DEF Chain, Planned
  <2>8. CASE UpdateUuid(r)
    <3>1. CASE LoseWriter(r, "finally")
      BY <2>8, <3>1, PlannedLost DEF UpdateUuid
    <3>2. CASE busy' = busy \ {r} /\ UNCHANGED <<step, failed, writers>>
      BY <1>0, <2>8, <3>2 DEF UpdateUuid, Planned
    <3>. QED BY <2>8, <3>1, <3>2 DEF UpdateUuid
  <2>9. CASE WriterFails(r)
    <3>1. LoseWriter(r, IF step = "before" THEN "after" ELSE "finally") /\ UNCHANGED <<held, plan>>
      BY <2>9 DEF WriterFails
    <3>. QED BY <2>9, <3>1, PlannedLost DEF WriterFails
  <2>10. CASE Prepare(r) \/ DeleteOldEntry(r) \/ WriteVhd(r) \/ WriteMetadata(r) \/ TransferFails(r)
    <3>1. /\ step \in {"prepare", "cleanup", "transfer"} /\ UNCHANGED <<step, writers, held, plan>>
          /\ busy' \subseteq busy
      BY <2>10 DEF Prepare, DeleteOldEntry, WriteVhd, WriteMetadata, TransferFails
    <3>. QED BY <1>0, <3>1 DEF Planned
  <2>11. CASE CacheDiverges(r) \/ \E k \in Runs : DeleteBackup(r, k)
    BY <2>11 DEF CacheDiverges, DeleteBackup, Planned
  <2>. QED BY <1>1, <2>1, <2>2, <2>3, <2>4, <2>5, <2>6, <2>7, <2>8, <2>9, <2>10, <2>11 DEF RemoteStep
<1>2. ASSUME NEW s \in Schedules, Start(s) PROVE Planned'
  BY <1>0, <1>2 DEF Start, Planned, Over
<1>3. CASE BeginSelect
  BY <1>3 DEF BeginSelect, Planned, Over
<1>4. CASE SelectBase \/ RemoveUnused \/ Snapshot \/ Tag \/ Export \/ BeginChain \/ BeginLength \/ SetLength \/ Mark
           \/ EndCleanup
  <2>1. /\ step \notin Over \cup {"before", "after"} /\ step' \notin {"idle", "before", "after"}
        /\ busy' \in {busy, writers} \/ busy' \subseteq writers
        /\ UNCHANGED <<plan, writers, held>>
    BY <1>4 DEF SelectBase, RemoveUnused, Snapshot, Tag, Export, BeginChain, BeginLength, SetLength, Mark, EndCleanup,
                Over
  <2>. QED BY <1>0, <2>1 DEF Planned, Over
<1>5. CASE FinallyRemove \/ PoolFails
  <2>1. /\ step \notin {"before", "after"} /\ step' \in {"finally", "after"} /\ UNCHANGED <<plan, writers, held>>
        /\ step' = "finally" => busy' = {}
    BY <1>5 DEF FinallyRemove, PoolFails, Fail
  <2>. QED BY <1>0, <2>1 DEF Planned, Over
<1>6. CASE End
  BY <1>6 DEF End, Planned, Over
<1>7. CASE Crash
  <2>1. step' = "idle" /\ busy' = {} /\ plan' = [r \in Remotes |-> [plan[r] EXCEPT !["run"] = None]]
    BY <1>7 DEF Crash
  <2>2. \A r \in Remotes : plan'[r]["run"] = None
    BY <1>0, <2>1 DEF Types, LockTypes
  <2>. QED BY <2>1, <2>2 DEF Planned, Over
<1>8. CASE UNCHANGED vars
  BY <1>8 DEF Planned
<1>. QED BY <1>1, <1>2, <1>3, <1>4, <1>5, <1>6, <1>7, <1>8, NextSteps DEF RunStep

\* The metadata that stay have a whole chain that the cleaning keeps.
LEMMA CleanSound ==
  ASSUME Types, NEW r \in Remotes, NEW c \in Cleaners, Clean(r, c), SafeFor(plan[r][c], jsons[r], Sound(r), parent[r])
  PROVE  jsons'[r] = jsons[r] \cap Sound(r) /\ jsons'[r] \subseteq Sound(r)'
<1>. DEFINE p == plan[r][c]
<1>1. PICK merge \in SUBSET Runs :
         /\ merge = p.merge \cap vhds[r]
         /\ vhds'[r] = vhds[r] \ (p.delete \cup merge)
         /\ parent'[r] = [k \in Runs |-> UpTo(parent[r], merge)[parent[r][k]]]
         /\ jsons'[r] = jsons[r] \ p.forget
         /\ Older(parent[r]) /\ Older(parent'[r])
  BY CleanIs
<1>2. jsons'[r] = jsons[r] \cap Sound(r)
  BY <1>1 DEF SafeFor
<1>3. \A k \in jsons'[r] : k \in Sound(r) \ (p.delete \cup merge)
  BY <1>1, <1>2 DEF SafeFor
<1>4. \A k \in SoundIn(parent[r], vhds[r]) \ p.delete : parent[r][k] \in Runs => parent[r][k] \notin p.delete
  BY DEF SafeFor, Sound
<1>. HIDE DEF p
<1>5. SoundIn(parent[r], vhds[r]) \ (p.delete \cup merge)
          \subseteq SoundIn(parent'[r], vhds[r] \ (p.delete \cup merge))
  <2>. DEFINE gone == p.delete
  <2>1. \A k \in SoundIn(parent[r], vhds[r]) \ gone : parent[r][k] \in Runs => parent[r][k] \notin gone
    BY <1>4
  <2>. HIDE DEF gone
  <2>2. SoundIn(parent[r], vhds[r]) \ (gone \cup merge) \subseteq SoundIn(parent'[r], vhds[r] \ (gone \cup merge))
    <3>1. Cleaned(parent[r], vhds[r], merge, gone, parent'[r])
      BY <1>1, <2>1 DEF Cleaned
    <3>. QED BY <3>1, SoundCleaned
  <2>. QED BY <2>2 DEF gone
<1>. QED BY <1>1, <1>2, <1>3, <1>5 DEF Sound

\* The other steps keep whole all that is.
LEMMA SoundSteady ==
  ASSUME Types, Types', Settings, Planned, NEW q \in Remotes, NumberedAt(q), TransferredAt(q), BasedAt(q), [Next]_vars,
         \A c \in Cleaners : ~Clean(q, c)
  PROVE  Sound(q) \subseteq Sound(q)'
<1>0. /\ Older(parent[q]) /\ Older(parent'[q]) /\ vhds[q] \in SUBSET Runs /\ now \in Nat
      /\ \A k \in vhds[q] : k \in Nat /\ k <= now /\ k \in Runs
  <2>1. \A k \in vhds[q] : k \in 1 .. now
    BY DEF NumberedAt
  <2>. QED BY <2>1, RunsAre DEF Types, FileTypes
<1>1. ASSUME UNCHANGED <<vhds, parent>> PROVE Sound(q)' = Sound(q)
  BY <1>1 DEF Sound
<1>2. ASSUME NEW r \in Remotes, RemoteStep(r) PROVE Sound(q) \subseteq Sound(q)'
  <2>1. VhdStep(r)
    BY <1>2, RemoteVhds
  <2>2. CASE r # q
    BY <2>1, <2>2, RemoteOthers DEF Sound
  <2>3. CASE r = q /\ WriteVhd(r)
    <3>1. /\ step = "transfer" /\ r \in busy \ written
          /\ vhds' = [vhds EXCEPT ![r] = @ \cup {now}]
          /\ parent' = [parent EXCEPT ![r][now] = IF differencing THEN Unchained ELSE Full]
      BY <2>3 DEF WriteVhd
    <3>2. now \notin vhds[q]
      BY <2>3, <3>1, Quiet DEF TransferredAt, Over
    <3>3. \A k \in Runs : k < now => parent'[q][k] = parent[q][k] /\ (k \in vhds'[q] <=> k \in vhds[q])
      BY <1>0, <2>3, <3>1 DEF Types, FileTypes
    <3>4. \A k \in Runs : k < now => (k \in Sound(q)' <=> k \in Sound(q))
      BY <1>0, <3>3, SoundBefore DEF Sound
    <3>5. \A k \in Sound(q) : k \in vhds[q] /\ k \in Runs /\ k < now
      BY <1>0, <3>2, SoundDef
    <3>. QED BY <3>4, <3>5
  <2>4. CASE /\ r = q /\ step = "chain" /\ r \in busy /\ differencing /\ {now, base} \subseteq vhds[r]
             /\ parent' = [parent EXCEPT ![r][now] = base] /\ vhds' = vhds
    <3>1. \A k \in Runs : k < now => parent'[q][k] = parent[q][k] /\ (k \in vhds'[q] <=> k \in vhds[q])
      BY <1>0, <2>4 DEF Types, FileTypes
    <3>2. \A k \in Runs : k < now => (k \in Sound(q)' <=> k \in Sound(q))
      BY <1>0, <3>1, SoundBefore DEF Sound
    <3>3. base \in Runs /\ base \in Nat /\ base < now /\ base # None
      BY <1>0, <2>4, Bounds, RunsAre DEF Types, PoolTypes
    <3>4. base \in Sound(q)
      BY <2>4, <3>3, Quiet DEF BasedAt, Built, Over
    <3>5. now \in Runs /\ parent'[q][now] = base /\ now \in vhds'[q]
      BY <1>0, <2>4 DEF Types, FileTypes
    <3>6. base # Unchained
      BY <3>3, ParentsType
    <3>7. now \in Sound(q)'
      <4>1. base \in Sound(q)'
        BY <3>2, <3>3, <3>4
      <4>. QED BY <1>0, <3>5, <3>6, <4>1, SoundInDef DEF Sound
    <3>8. \A k \in Sound(q) : k \in Runs /\ (k < now \/ k = now)
      BY <1>0, SoundDef
    <3>. QED BY <3>2, <3>7, <3>8
  <2>. QED BY <1>1, <2>1, <2>2, <2>3, <2>4 DEF VhdStep
<1>3. CASE RunStep \/ UNCHANGED vars
  <2>1. UNCHANGED <<vhds, parent>>
    BY <1>3 DEF RunStep, Start, BeginSelect, SelectBase, RemoveUnused, Snapshot, Tag, Export, BeginChain,
           BeginLength, SetLength, Mark, EndCleanup, FinallyRemove, End, PoolFails, Crash, files, vars
  <2>. QED BY <1>1, <2>1
<1>. QED BY <1>2, <1>3, NextSteps

LEMMA SafeStep ==
  ASSUME Types, Settings, Planned, NEW q \in Remotes, OrderedAt(q), SafeAt(q), [Next]_vars
  PROVE  SafeAt(q)'
<1>. USE DEF pool, files, choices, run, history, vars
<1>0. "run" \in Cleaners /\ "other" \in Cleaners /\ Cleaners = {"run", "other"} /\ "run" # "other"
  BY DEF Cleaners
<1>1. ASSUME vhds'[q] = vhds[q], parent'[q] = parent[q], jsons'[q] \subseteq jsons[q],
             NEW p, SafeFor(p, jsons[q], Sound(q), parent[q])
      PROVE  SafeFor(p, jsons'[q], Sound(q)', parent'[q])
  <2>1. Sound(q)' = Sound(q)
    BY <1>1 DEF Sound
  <2>. QED BY <1>1, <2>1 DEF SafeFor
<1>2. ASSUME vhds'[q] = vhds[q], parent'[q] = parent[q], jsons'[q] \subseteq jsons[q],
             \A c \in Cleaners : plan'[q][c] \in {None, plan[q][c]}
      PROVE  SafeAt(q)'
  BY <1>1, <1>2 DEF SafeAt
<1>3. ASSUME NEW r \in Remotes, RemoteStep(r) PROVE SafeAt(q)'
  <2>1. ASSUME NEW c \in Cleaners, NEW merge, Scan(r, c, merge), UNCHANGED files PROVE SafeAt(q)'
    <3>1. PICK ignored \in Ignored(r) : plan' = [plan EXCEPT ![r][c] = Findings(r, ignored, merge)]
      BY <2>1 DEF Scan
    <3>2. \A d \in Cleaners : <<q, d>> # <<r, c>> => plan'[q][d] = plan[q][d]
      BY <2>1, ScanPlans
    <3>3. CASE q # r
      BY <1>2, <2>1, <3>2, <3>3
    <3>4. CASE q = r
      <4>1. plan'[q][c] = Findings(r, ignored, merge)
        BY <3>1, <3>4 DEF Types, LockTypes
      <4>2. SafeFor(plan'[q][c], jsons'[q], Sound(q)', parent'[q])
        BY <1>1, <2>1, <3>4, <4>1, FindingsSafe
      <4>3. ASSUME NEW d \in Cleaners, d # c, plan'[q][d] # None
            PROVE  SafeFor(plan'[q][d], jsons'[q], Sound(q)', parent'[q])
        BY <1>1, <2>1, <3>2, <4>3 DEF SafeAt
      <4>. QED BY <4>2, <4>3 DEF SafeAt
    <3>. QED BY <3>3, <3>4
  <2>2. ASSUME NEW c \in Cleaners, Clean(r, c) PROVE SafeAt(q)'
    <3>1. /\ plan[r][c] # None /\ plan'[r][c] = None
          /\ \A p \in Remotes, d \in Cleaners : <<p, d>> # <<r, c>> => plan'[p][d] = plan[p][d]
      BY <2>2, CleanPlans
    <3>2. CASE q # r
      <4>1. vhds'[q] = vhds[q] /\ parent'[q] = parent[q] /\ jsons'[q] = jsons[q]
        BY <2>2, <3>2, CleanIs
      <4>. QED BY <1>2, <3>1, <3>2, <4>1
    <3>3. CASE q = r
      <4>1. \A d \in Cleaners : d # c => plan[r][d] = None
        BY <1>0, <3>1 DEF Types, LockTypes, Settings
      <4>2. \A d \in Cleaners : plan'[r][d] = None
        BY <3>1, <4>1
      <4>. QED BY <3>3, <4>2 DEF SafeAt
    <3>. QED BY <3>2, <3>3
  <2>3. CASE BeforeBackup(r)
    BY <1>0, <1>2, <2>1, <2>3 DEF BeforeBackup
  <2>4. CASE AfterBackup(r)
    BY <1>0, <2>1, <2>4 DEF AfterBackup
  <2>5. CASE OtherScan(r)
    BY <1>0, <2>1, <2>5 DEF OtherScan
  <2>6. CASE EndBeforeBackup(r) \/ EndAfterBackup(r) \/ OtherClean(r)
    BY <1>0, <2>2, <2>6 DEF EndBeforeBackup, EndAfterBackup, OtherClean
  <2>7. CASE DeleteOldEntry(r) \/ WriteVhd(r) \/ WriteMetadata(r) \/ Chain(r)
    <3>1. step \notin Over \cup {"before"} /\ r \in busy /\ plan' = plan
      BY <2>7 DEF DeleteOldEntry, WriteVhd, WriteMetadata, Chain, Over
    <3>2. CASE q = r
      BY <3>1, <3>2, Quiet DEF SafeAt
    <3>3. CASE q # r
      <4>1. vhds'[q] = vhds[q] /\ parent'[q] = parent[q]
        BY <1>3, <3>3, RemoteVhds, RemoteOthers
      <4>2. jsons'[q] = jsons[q]
        BY <2>7, <3>3 DEF DeleteOldEntry, WriteVhd, WriteMetadata, Chain, Types, FileTypes
      <4>. QED BY <1>2, <3>1, <4>1, <4>2
    <3>. QED BY <3>2, <3>3
  <2>8. CASE Prepare(r) \/ UpdateUuid(r) \/ WriterFails(r) \/ TransferFails(r) \/ CacheDiverges(r)
    <3>1. UNCHANGED <<vhds, parent, jsons, plan>>
      BY <2>8 DEF Prepare, UpdateUuid, WriterFails, TransferFails, CacheDiverges, Fail
    <3>. QED BY <1>2, <3>1
  <2>9. ASSUME NEW k \in Runs, DeleteBackup(r, k) PROVE SafeAt(q)'
    <3>1. UNCHANGED <<vhds, parent, plan>> /\ jsons' = [jsons EXCEPT ![r] = @ \ {k}]
      BY <2>9 DEF DeleteBackup
    <3>2. jsons'[q] \subseteq jsons[q]
      BY <3>1 DEF Types, FileTypes
    <3>. QED BY <1>2, <3>1, <3>2
  <2>. QED BY <1>3, <2>3, <2>4, <2>5, <2>6, <2>7, <2>8, <2>9 DEF RemoteStep
<1>4. CASE Crash
  <2>1. UNCHANGED files /\ plan' = [r \in Remotes |-> [plan[r] EXCEPT !["run"] = None]]
    BY <1>4 DEF Crash
  <2>2. \A c \in Cleaners : plan'[q][c] \in {None, plan[q][c]}
    BY <2>1 DEF Types, LockTypes
  <2>. QED BY <1>2, <2>1, <2>2
<1>5. CASE (RunStep /\ ~Crash) \/ UNCHANGED vars
  <2>1. UNCHANGED <<vhds, parent, jsons, plan>>
    BY <1>5 DEF RunStep, Start, BeginSelect, SelectBase, RemoveUnused, Snapshot, Tag, Export, BeginChain,
           BeginLength, SetLength, Mark, EndCleanup, FinallyRemove, End, PoolFails
  <2>. QED BY <1>2, <2>1
<1>. QED BY <1>3, <1>4, <1>5, NextSteps

-----------------------------------------------------------------------------
(* The steps of the run. *)

\* The steps of a writer leave the others as they are.
LEMMA RemoteFrame ==
  ASSUME Types, NEW r \in Remotes, RemoteStep(r), NEW q \in Remotes, q # r
  PROVE  /\ vhds'[q] = vhds[q] /\ parent'[q] = parent[q] /\ named'[q] = named[q] /\ jsons'[q] = jsons[q]
         /\ old'[q] = old[q] /\ deleted'[q] = deleted[q] /\ done'[q] = done[q]
         /\ (q \in written' <=> q \in written) /\ (q \in chained' <=> q \in chained) /\ writers' \subseteq writers
         /\ step' = step => (q \in busy' <=> q \in busy)
<1>. USE DEF pool, files, choices, run, history, Types, FileTypes
<1>1. vhds'[q] = vhds[q] /\ parent'[q] = parent[q]
  BY RemoteVhds, RemoteOthers
<1>2. ASSUME NEW next \in {"after", "finally"}, LoseWriter(r, next), step \notin {"after", "finally"}
      PROVE  writers' \subseteq writers /\ (step' = step => (q \in busy' <=> q \in busy))
  BY <1>2 DEF LoseWriter
<1>3. CASE BeforeBackup(r)
  BY <1>1, <1>2, <1>3 DEF BeforeBackup
<1>4. CASE EndBeforeBackup(r) \/ EndAfterBackup(r) \/ OtherClean(r)
  <2>1. \E c \in Cleaners : Clean(r, c)
    BY <1>4 DEF EndBeforeBackup, EndAfterBackup, OtherClean, Cleaners
  <2>2. jsons'[q] = jsons[q] /\ named' = named
    BY <2>1, CleanIs, CleanType
  <2>. QED BY <1>1, <1>4, <2>2 DEF EndBeforeBackup, EndAfterBackup, OtherClean
<1>5. CASE Prepare(r)
  BY <1>1, <1>5 DEF Prepare
<1>6. CASE DeleteOldEntry(r)
  BY <1>1, <1>6 DEF DeleteOldEntry
<1>7. CASE WriteVhd(r) \/ WriteMetadata(r)
  BY <1>1, <1>7 DEF WriteVhd, WriteMetadata
<1>8. CASE Chain(r)
  BY <1>1, <1>2, <1>8 DEF Chain
<1>9. CASE UpdateUuid(r)
  BY <1>1, <1>2, <1>9 DEF UpdateUuid
<1>10. CASE WriterFails(r)
  BY <1>1, <1>2, <1>10 DEF WriterFails, Fail
<1>11. CASE TransferFails(r) \/ CacheDiverges(r)
  BY <1>1, <1>11 DEF TransferFails, CacheDiverges, Fail
<1>12. CASE AfterBackup(r) \/ OtherScan(r)
  BY <1>1, <1>12 DEF AfterBackup, OtherScan
<1>13. ASSUME NEW k \in Runs, DeleteBackup(r, k)
       PROVE /\ UNCHANGED <<run, named, done>>
             /\ jsons'[q] = jsons[q] /\ deleted'[q] = deleted[q]
  BY <1>13 DEF DeleteBackup
<1>. QED BY <1>1, <1>3, <1>4, <1>5, <1>6, <1>7, <1>8, <1>9, <1>10, <1>11, <1>12, <1>13 DEF RemoteStep

\* A writer that fails is not used, or the run is over.
LEMMA Lost ==
  ASSUME NEW r, NEW next \in {"after", "finally"}, LoseWriter(r, next)
  PROVE  r \notin writers' /\ (step' = step \/ step' \in Over)
  BY DEF LoseWriter, Over

\* A VHD that is chained to its base has a whole chain.
LEMMA ChainSound ==
  ASSUME Types, Types', Settings, Planned, NEW r \in Remotes, NumberedAt(r), TransferredAt(r), BasedAt(r), Chain(r),
         {now, base} \subseteq vhds[r]
  PROVE  now \in Sound(r)'
<1>1. /\ step = "chain" /\ r \in busy /\ differencing /\ vhds' = vhds
      /\ parent' = [parent EXCEPT ![r][now] = base]
  BY DEF Chain
<1>2. /\ Older(parent[r]) /\ Older(parent'[r]) /\ now \in Nat /\ now \in Runs
      /\ base \in Runs /\ base < now /\ base # None
  <2>1. vhds[r] \in SUBSET Runs
    BY DEF Types, FileTypes
  <2>2. now \in Runs /\ base \in Runs /\ base \in Nat /\ now \in Nat
    BY <2>1, ParentsType
  <2>. QED BY <2>2, Bounds DEF Types, FileTypes, PoolTypes
<1>3. \A k \in Runs : k < now => parent'[r][k] = parent[r][k] /\ (k \in vhds'[r] <=> k \in vhds[r])
  BY <1>1, <1>2 DEF Types, FileTypes
<1>4. \A k \in Runs : k < now => (k \in Sound(r)' <=> k \in Sound(r))
  BY <1>2, <1>3, SoundBefore DEF Sound
<1>5. base \in Sound(r)
  BY <1>1, <1>2, Quiet DEF BasedAt, Built, Over
<1>6. parent'[r][now] = base /\ now \in vhds'[r] /\ base # Unchained /\ base \in Sound(r)'
  BY <1>1, <1>2, <1>4, <1>5, ParentsType DEF Types, FileTypes
<1>. QED BY <1>2, <1>6, SoundInDef DEF Sound

\* cleanVm() of others does not run on a remote of which the run has the lock.
LEMMA OtherCleanAlone ==
  ASSUME Types, Settings, Planned, NEW r \in Remotes, OtherClean(r), r \in writers
  PROVE  step \in Over \/ (step = "before" /\ r \in busy)
<1>1. plan[r]["other"] # None
  BY DEF OtherClean, Clean
<1>2. r \notin held
  BY <1>1 DEF Types, LockTypes, Settings
<1>. QED BY <1>2 DEF Planned, Over

LEMMA TransferredStep ==
  ASSUME Types, Types', Settings, Planned, [Next]_vars, NEW q \in Remotes, NumberedAt(q), TransferredAt(q), BasedAt(q),
         SparedAt(q)
  PROVE  TransferredAt(q)'
<1>. USE DEF pool, files, choices, run, history, vars
<1>1. ASSUME UNCHANGED <<vhds, parent>> PROVE Sound(q)' = Sound(q)
  BY <1>1 DEF Sound
<1>2. ASSUME NEW r \in Remotes, RemoteStep(r), r # q PROVE TransferredAt(q)'
  <2>1. UNCHANGED <<now, differencing>> /\ (step' = step \/ step' \in Over)
    BY <1>2, RemotePool DEF Over
  <2>2. Sound(q)' = Sound(q)
    BY <1>2, RemoteFrame DEF Sound
  <2>3. CASE step' \in Over
    BY <2>3 DEF TransferredAt, Over, Begun
  <2>4. CASE step' = step
    BY <1>2, <2>1, <2>2, <2>4, RemoteFrame DEF TransferredAt
  <2>. QED BY <2>1, <2>3, <2>4
<1>3. ASSUME RemoteStep(q) PROVE TransferredAt(q)'
  <2>0. UNCHANGED <<now, differencing>> /\ (step' = step \/ step' \in Over)
    BY <1>3, RemotePool DEF Over
  <2>1. ASSUME step \in Begun \/ step' \in Over \/ q \notin writers', UNCHANGED <<written, chained>>
        PROVE  TransferredAt(q)'
    BY <2>0, <2>1 DEF TransferredAt, Over, Begun
  <2>2. CASE BeforeBackup(q) \/ EndBeforeBackup(q) \/ Prepare(q) \/ AfterBackup(q) \/ EndAfterBackup(q)
    BY <2>1, <2>2 DEF BeforeBackup, EndBeforeBackup, Prepare, AfterBackup, EndAfterBackup, Begun, Over
  <2>3. CASE DeleteOldEntry(q)
    <3>1. /\ step = "cleanup" /\ q \in busy /\ UNCHANGED <<vhds, parent, named, step, written, chained, deleted, now, writers>>
      BY <2>3 DEF DeleteOldEntry, Settings
    <3>2. PICK k \in old[q] : jsons' = [jsons EXCEPT ![q] = @ \ {k}]
      BY <2>3, LatestSubset DEF DeleteOldEntry
    <3>3. k # now
      <4>1. k < now /\ now \in Nat
        BY <3>1, <3>2, Quiet, RunsAre DEF SparedAt, Over
      <4>. QED BY <4>1
    <3>4. now \in jsons[q] => now \in jsons'[q]
      BY <3>2, <3>3 DEF Types, FileTypes
    <3>. QED BY <1>1, <3>1, <3>4 DEF TransferredAt, Begun
  <2>4. CASE WriteVhd(q)
    <3>1. /\ step = "transfer" /\ written' = written \cup {q} /\ UNCHANGED <<step, busy, chained, writers>> /\ q \in busy
          /\ parent' = [parent EXCEPT ![q][now] = IF differencing THEN Unchained ELSE Full]
      BY <2>4 DEF WriteVhd
    <3>2. now \in Runs
      BY <3>1, RunsAre
    <3>3. ~differencing => parent'[q][now] = Full
      BY <3>1, <3>2 DEF Types, FileTypes
    <3>. QED BY <2>0, <3>1, <3>3 DEF TransferredAt, Begun
  <2>5. CASE WriteMetadata(q)
    <3>1. /\ step = "transfer" /\ q \in written /\ UNCHANGED <<step, written, chained, writers, vhds, parent>>
          /\ jsons' = [jsons EXCEPT ![q] = @ \cup {now}]
      BY <2>5 DEF WriteMetadata
    <3>2. now \in jsons'[q]
      BY <3>1 DEF Types, FileTypes
    <3>. QED BY <2>0, <3>1, <3>2 DEF TransferredAt, Begun
  <2>6. CASE Chain(q)
    <3>0. step = "chain" /\ UNCHANGED <<vhds, named, jsons, written, deleted>>
      BY <2>6 DEF Chain
    <3>1. CASE {now, base} \subseteq vhds[q]
      <4>1. now \in Sound(q)'
        BY <2>6, <3>1, ChainSound
      <4>2. step' = step /\ UNCHANGED <<writers, busy>> /\ chained' = chained \cup {q} /\ differencing /\ q \in busy
        BY <2>6, <3>1 DEF Chain
      <4>. QED BY <2>0, <3>0, <4>1, <4>2 DEF TransferredAt, Begun
    <3>2. CASE ~({now, base} \subseteq vhds[q])
      <4>1. LoseWriter(q, "finally") /\ chained' = chained
        BY <2>6, <3>2 DEF Chain
      <4>2. q \notin writers'
        BY <4>1, Lost
      <4>. QED BY <2>1, <3>0, <4>1, <4>2
    <3>. QED BY <3>1, <3>2
  <2>7. CASE UpdateUuid(q)
    <3>0. /\ step = "chain" /\ q \in busy /\ (differencing => q \in chained)
          /\ UNCHANGED <<vhds, parent, jsons, written, chained, deleted>>
      BY <2>7 DEF UpdateUuid
    <3>1. CASE now \in vhds[q]
      <4>1. UNCHANGED <<step, writers>> /\ named' = [named EXCEPT ![q] = @ \cup {now}]
        BY <2>7, <3>1 DEF UpdateUuid
      <4>2. now \in named'[q]
        BY <4>1 DEF Types, FileTypes
      <4>3. now \in Sound(q)
        <5>1. q \in writers /\ now \in Runs
          BY <3>0, Quiet, RunsAre DEF Over
        <5>2. ~differencing => parent[q][now] = Full /\ Full \notin Runs /\ Full # Unchained
          BY <3>0, <3>1, <5>1, ParentsType, Bounds DEF TransferredAt, Full, Unchained
        <5>. QED BY <3>0, <3>1, <5>1, <5>2, SoundDef DEF TransferredAt
      <4>. QED BY <1>1, <2>0, <3>0, <4>1, <4>2, <4>3 DEF TransferredAt, Begun
    <3>2. CASE now \notin vhds[q]
      <4>1. q \notin writers'
        BY <2>7, <3>2, Lost DEF UpdateUuid
      <4>. QED BY <2>1, <3>0, <4>1
    <3>. QED BY <3>1, <3>2
  <2>8. CASE WriterFails(q)
    <3>1. q \notin writers' /\ UNCHANGED <<written, chained>>
      BY <2>8, Lost DEF WriterFails
    <3>. QED BY <2>1, <3>1
  <2>9. CASE TransferFails(q)
    <3>1. /\ step = "transfer" /\ q \notin written /\ UNCHANGED <<step, vhds, parent, written, chained, writers>>
      BY <2>9 DEF TransferFails, Fail, Settings
    <3>. QED BY <2>0, <3>1 DEF TransferredAt, Begun
  <2>10. CASE OtherScan(q) \/ CacheDiverges(q)
    BY <1>1, <2>10 DEF OtherScan, CacheDiverges, Fail, TransferredAt
  <2>11. CASE OtherClean(q)
    <3>1. UNCHANGED <<run>>
      BY <2>11 DEF OtherClean
    <3>2. q \in writers => step \in Over \cup Begun
      BY <2>11, OtherCleanAlone DEF Begun
    <3>. QED BY <2>1, <3>1, <3>2 DEF TransferredAt, Over, Begun
  <2>12. ASSUME NEW k \in Runs, DeleteBackup(q, k) PROVE TransferredAt(q)'
    <3>1. /\ UNCHANGED <<vhds, parent, named, run>>
          /\ now \in jsons[q] \cup deleted[q] => now \in jsons'[q] \cup deleted'[q]
      BY <2>12 DEF DeleteBackup, Types, FileTypes
    <3>. QED BY <1>1, <3>1 DEF TransferredAt
  <2>. QED BY <1>3, <2>2, <2>3, <2>4, <2>5, <2>6, <2>7, <2>8, <2>9, <2>10, <2>11, <2>12 DEF RemoteStep
<1>4. ASSUME NEW s \in Schedules, Start(s) PROVE TransferredAt(q)'
  BY <1>4 DEF Start, TransferredAt, Begun
<1>5. CASE BeginSelect \/ SelectBase \/ RemoveUnused \/ Snapshot \/ Tag
  BY <1>5 DEF BeginSelect, SelectBase, RemoveUnused, Snapshot, Tag, TransferredAt, Begun
<1>6. CASE Export
  BY <1>6 DEF Export, TransferredAt, NumberedAt, Begun
<1>7. CASE BeginChain
  <2>1. step = "transfer" /\ busy = {} /\ busy' = writers /\ step' = "chain"
        /\ UNCHANGED <<now, differencing, writers, written, chained, vhds, parent, named, jsons, deleted>>
    BY <1>7 DEF BeginChain
  <2>. QED BY <1>1, <2>1 DEF TransferredAt, Begun
<1>8. CASE BeginLength
  <2>1. step = "chain" /\ busy = {} /\ step' = "length" /\ Sound(q) \subseteq vhds[q]
        /\ UNCHANGED <<now, differencing, writers, written, chained, vhds, parent, named, jsons, deleted>>
    BY <1>8, SoundDef DEF BeginLength
  <2>. QED BY <1>1, <2>1 DEF TransferredAt, Begun
<1>9. CASE SetLength \/ Mark
  <2>1. step \in {"length", "mark"} /\ step' \in {"mark", "cleanup"}
        /\ UNCHANGED <<now, differencing, writers, written, chained, vhds, parent, named, jsons, deleted>>
    BY <1>9 DEF SetLength, Mark
  <2>. QED BY <1>1, <2>1 DEF TransferredAt, Begun
<1>10. CASE EndCleanup \/ FinallyRemove \/ End \/ PoolFails \/ Crash
  <2>1. step' \in Over
    BY <1>10 DEF EndCleanup, FinallyRemove, End, PoolFails, Crash, Over
  <2>. QED BY <2>1 DEF TransferredAt, Over, Begun
<1>11. CASE UNCHANGED vars
  BY <1>1, <1>11 DEF TransferredAt
<1>. QED BY <1>2, <1>3, <1>4, <1>5, <1>6, <1>7, <1>8, <1>9, <1>10, <1>11, NextSteps DEF RunStep

\* The base is a VHD of each writer, with its whole chain.
LEMMA SelectedBase ==
  ASSUME Types, NEW q \in writers, SelectBase, base' # None
  PROVE  base' \in LastExported /\ base' \in Sound(q)
<1>1. base' = CHOOSE k \in LastExported : TRUE
  BY DEF SelectBase
<1>2. PICK k \in LastExported : \A r \in writers : HasBase(r, k)
  BY DEF SelectBase
<1>3. base' \in LastExported
  BY <1>1, <1>2
<1>4. snapshots \cap exported \in SUBSET Runs
  BY DEF Types, PoolTypes
<1>5. LastExported \in SUBSET Runs
  BY <1>4, LatestSubset DEF LastExported
<1>6. base' = k
  BY <1>2, <1>3, <1>4, LatestOne DEF LastExported
<1>7. k \in Sound(q)
  BY <1>2, <1>5 DEF HasBase, IsWhole, Sound, SoundIn
<1>. QED BY <1>3, <1>6, <1>7

LEMMA BasedStep ==
  ASSUME Types, Types', Settings, Planned, [Next]_vars, NEW q \in Remotes, NumberedAt(q), TransferredAt(q), BasedAt(q),
         SafeAt(q)
  PROVE  BasedAt(q)'
<1>. USE DEF pool, files, choices, run, history, vars
<1>1. ASSUME UNCHANGED <<vhds, parent>> PROVE Sound(q)' = Sound(q)
  BY <1>1 DEF Sound
<1>2. ASSUME step' \notin Begun \cup Built \/ q \notin writers' PROVE BasedAt(q)'
  BY <1>2 DEF BasedAt, Begun
<1>3. step' \in Over => step' \notin Begun \cup Built
  BY DEF Over, Begun, Built
<1>4. ASSUME NEW r \in Remotes, RemoteStep(r), r # q PROVE BasedAt(q)'
  <2>1. base' = base /\ (step' = step \/ step' \in Over)
    BY <1>4, RemotePool DEF Over
  <2>2. Sound(q)' = Sound(q)
    BY <1>4, RemoteFrame DEF Sound
  <2>3. CASE step' = step
    BY <1>4, <2>1, <2>2, <2>3, RemoteFrame DEF BasedAt
  <2>. QED BY <1>2, <1>3, <2>1, <2>3
<1>5. ASSUME RemoteStep(q) PROVE BasedAt(q)'
  <2>0. base' = base /\ (step' = step \/ step' \in Over)
    BY <1>5, RemotePool DEF Over
  <2>1. CASE BeforeBackup(q)
    <3>1. CASE LoseWriter(q, "after")
      BY <1>2, <3>1, Lost
    <3>2. CASE UNCHANGED <<step, failed, writers, busy>>
      BY <2>1, <3>2 DEF BeforeBackup, BasedAt, Begun, Built
    <3>. QED BY <2>1, <3>1, <3>2 DEF BeforeBackup
  <2>2. CASE EndBeforeBackup(q)
    <3>1. step' = "before" /\ Clean(q, "run") /\ "run" \in Cleaners
      BY <2>2 DEF EndBeforeBackup, Cleaners
    <3>2. jsons'[q] \subseteq Sound(q)'
      BY <3>1, CleanSound DEF SafeAt, Clean
    <3>. QED BY <3>1, <3>2 DEF BasedAt, Built
  <2>3. CASE Prepare(q)
    <3>1. UNCHANGED <<vhds, parent, jsons, step, writers>> /\ step = "prepare"
      BY <2>3 DEF Prepare
    <3>. QED BY <1>1, <2>0, <3>1 DEF BasedAt, Begun
  <2>4. CASE DeleteOldEntry(q) \/ AfterBackup(q) \/ EndAfterBackup(q)
    <3>1. step \in {"cleanup", "after"} /\ step' = step
      BY <2>4 DEF DeleteOldEntry, AfterBackup, EndAfterBackup, Settings
    <3>. QED BY <1>2, <3>1 DEF Begun, Built
  <2>5. CASE WriteVhd(q) \/ WriteMetadata(q) \/ Chain(q) \/ UpdateUuid(q) \/ TransferFails(q)
    <3>1. step \in {"transfer", "chain"} /\ writers' \subseteq writers
      BY <2>5 DEF WriteVhd, WriteMetadata, Chain, UpdateUuid, TransferFails, LoseWriter
    <3>2. \A c \in Cleaners : plan[q][c] = None
      <4>1. q \in busy /\ step \notin Over \cup {"before"}
        BY <2>5, <3>1 DEF WriteVhd, WriteMetadata, Chain, UpdateUuid, TransferFails, Over
      <4>. QED BY <4>1, Quiet
    <3>3. Sound(q) \subseteq Sound(q)'
      BY <3>2, SoundSteady DEF Clean
    <3>4. CASE step' = step
      BY <2>0, <3>1, <3>3, <3>4 DEF BasedAt, Begun, Built
    <3>. QED BY <1>2, <1>3, <2>0, <3>4
  <2>6. CASE WriterFails(q)
    <3>1. q \notin writers'
      BY <2>6, Lost DEF WriterFails
    <3>. QED BY <1>2, <3>1
  <2>7. CASE OtherScan(q) \/ CacheDiverges(q)
    BY <1>1, <2>7 DEF OtherScan, CacheDiverges, Fail, BasedAt
  <2>8. CASE OtherClean(q)
    <3>1. UNCHANGED run
      BY <2>8 DEF OtherClean
    <3>2. q \in writers => step \in Over \/ (step = "before" /\ q \in busy)
      BY <2>8, OtherCleanAlone
    <3>. QED BY <3>1, <3>2 DEF BasedAt, Over, Begun, Built
  <2>9. ASSUME NEW k \in Runs, DeleteBackup(q, k) PROVE BasedAt(q)'
    <3>1. UNCHANGED <<vhds, parent, run>> /\ jsons'[q] \subseteq jsons[q]
      BY <2>9 DEF DeleteBackup, Types, FileTypes
    <3>. QED BY <1>1, <3>1 DEF BasedAt
  <2>. QED BY <1>5, <2>1, <2>2, <2>3, <2>4, <2>5, <2>6, <2>7, <2>8, <2>9 DEF RemoteStep
<1>6. ASSUME NEW s \in Schedules, Start(s) PROVE BasedAt(q)'
  BY <1>6 DEF Start, BasedAt, Begun, Built
<1>7. CASE BeginSelect
  <2>1. step = "before" /\ busy = {} /\ step' = "select" /\ UNCHANGED <<vhds, parent, jsons, writers>>
    BY <1>7 DEF BeginSelect
  <2>. QED BY <1>1, <2>1 DEF BasedAt, Built
<1>8. CASE SelectBase
  <2>1. step = "select" /\ step' = "remove" /\ UNCHANGED <<vhds, parent, jsons, writers>>
    BY <1>8 DEF SelectBase
  <2>2. q \in writers /\ base' # None => base' \in Sound(q)
    BY <1>8, SelectedBase
  <2>. QED BY <1>1, <2>1, <2>2 DEF BasedAt, Begun
<1>9. CASE RemoveUnused \/ Snapshot \/ Tag \/ Export \/ BeginChain
  <2>1. /\ UNCHANGED <<vhds, parent, jsons, writers, base>> /\ step \in Built
        /\ step' \in Begun \ {"before"} => step \in Begun \ {"before"}
    BY <1>9 DEF RemoveUnused, Snapshot, Tag, Export, BeginChain, Begun, Built
  <2>2. step' # "before"
    BY <1>9 DEF RemoveUnused, Snapshot, Tag, Export, BeginChain
  <2>. QED BY <1>1, <2>1, <2>2 DEF BasedAt
<1>10. CASE BeginLength \/ SetLength \/ Mark \/ EndCleanup \/ FinallyRemove \/ End \/ PoolFails \/ Crash
  <2>1. step' \notin Begun \cup Built
    BY <1>10 DEF BeginLength, SetLength, Mark, EndCleanup, FinallyRemove, End, PoolFails, Crash, Begun, Built
  <2>. QED BY <1>2, <2>1
<1>11. CASE UNCHANGED vars
  BY <1>1, <1>11 DEF BasedAt
<1>. QED BY <1>4, <1>5, <1>6, <1>7, <1>8, <1>9, <1>10, <1>11, NextSteps DEF RunStep

-----------------------------------------------------------------------------
(* The backups that count. *)

LEMMA SolidType == ASSUME Types, NEW q \in Remotes PROVE Solid(q) \in SUBSET Runs
  BY SoundDef DEF Solid, Types, FileTypes

\* The user deletes backups, and nothing brings them back.
LEMMA DeletedStep ==
  ASSUME Types, [Next]_vars, NEW q \in Remotes
  PROVE  /\ deleted[q] \subseteq deleted'[q]
         /\ deleted' = deleted \/ \E r \in Remotes, k \in Runs : DeleteBackup(r, k)
<1>. USE DEF pool, files, choices, run, history, vars
<1>1. ASSUME NEW r \in Remotes, RemoteStep(r), \A k \in Runs : ~DeleteBackup(r, k) PROVE deleted' = deleted
  BY <1>1 DEF RemoteStep, BeforeBackup, EndBeforeBackup, Prepare, DeleteOldEntry, WriteVhd, WriteMetadata, Chain,
       UpdateUuid, AfterBackup, EndAfterBackup, WriterFails, TransferFails, CacheDiverges, OtherScan, OtherClean, Fail
<1>2. ASSUME NEW r \in Remotes, NEW k \in Runs, DeleteBackup(r, k) PROVE deleted[q] \subseteq deleted'[q]
  BY <1>2 DEF DeleteBackup, Types, FileTypes
<1>3. CASE RunStep \/ UNCHANGED vars
  BY <1>3 DEF RunStep, Start, BeginSelect, SelectBase, RemoveUnused, Snapshot, Tag, Export, BeginChain,
         BeginLength, SetLength, Mark, EndCleanup, FinallyRemove, End, PoolFails, Crash, Fail
<1>. QED BY <1>1, <1>2, <1>3, NextSteps

\* But for the deletion of an old entry, they stay.
LEMMA SolidStep ==
  ASSUME Types, Types', Settings, Planned, [Next]_vars, NEW q \in Remotes, NumberedAt(q), TransferredAt(q), BasedAt(q),
         SafeAt(q), ~DeleteOldEntry(q)
  PROVE  Solid(q) \subseteq Solid(q)' /\ jsons[q] \cap Sound(q) \subseteq (jsons[q] \cap Sound(q))' \cup deleted'[q]
<1>. USE DEF pool, files, choices, run, history, vars
<1>0. SUFFICES /\ deleted[q] \subseteq deleted'[q]
               /\ jsons[q] \cap Sound(q) \subseteq (jsons'[q] \cap Sound(q)') \cup deleted'[q]
  BY DEF Solid
<1>1. ASSUME NEW c \in Cleaners, Clean(q, c), deleted' = deleted
      PROVE  jsons[q] \cap Sound(q) \subseteq (jsons'[q] \cap Sound(q)') \cup deleted'[q]
  <2>1. SafeFor(plan[q][c], jsons[q], Sound(q), parent[q])
    BY <1>1 DEF SafeAt, Clean
  <2>. QED BY <1>1, <2>1, CleanSound
<1>2. ASSUME \A c \in Cleaners : ~Clean(q, c), jsons[q] \subseteq jsons'[q] \cup deleted'[q]
      PROVE  jsons[q] \cap Sound(q) \subseteq (jsons'[q] \cap Sound(q)') \cup deleted'[q]
  BY <1>2, SoundSteady
<1>3. deleted[q] \subseteq deleted'[q] /\ (deleted' = deleted \/ \E r \in Remotes, k \in Runs : DeleteBackup(r, k))
  BY DeletedStep
<1>4. CASE \E c \in Cleaners : Clean(q, c)
  <2>1. PICK c \in Cleaners : Clean(q, c)
    BY <1>4
  <2>2. plan' # plan
    BY <2>1, CleanPlans
  <2>3. deleted' = deleted
    BY <1>3, <2>2 DEF DeleteBackup
  <2>. QED BY <1>1, <1>3, <2>1, <2>3
<1>5. CASE \A c \in Cleaners : ~Clean(q, c)
  <2>1. jsons[q] \subseteq jsons'[q] \cup deleted'[q]
    <3>1. ASSUME NEW r \in Remotes, RemoteStep(r), r # q PROVE jsons'[q] = jsons[q]
      BY <3>1, RemoteFrame
    <3>2. ASSUME RemoteStep(q) PROVE jsons[q] \subseteq jsons'[q] \cup deleted'[q]
      <4>1. CASE WriteMetadata(q) \/ \E k \in Runs : DeleteBackup(q, k)
        <5>1. ASSUME NEW k \in Runs, DeleteBackup(q, k) PROVE jsons[q] \subseteq jsons'[q] \cup deleted'[q]
          BY <5>1 DEF DeleteBackup, Types, FileTypes
        <5>2. CASE WriteMetadata(q)
          BY <5>2 DEF WriteMetadata, Types, FileTypes
        <5>. QED BY <4>1, <5>1, <5>2
      <4>2. CASE ~(WriteMetadata(q) \/ \E k \in Runs : DeleteBackup(q, k))
        <5>1. jsons' = jsons
          BY <1>5, <3>2, <4>2 DEF RemoteStep, BeforeBackup, EndBeforeBackup, Prepare, WriteVhd, Chain,
             UpdateUuid, AfterBackup, EndAfterBackup, WriterFails, TransferFails, CacheDiverges, OtherScan, OtherClean, Cleaners
        <5>. QED BY <5>1
      <4>. QED BY <4>1, <4>2
    <3>3. CASE RunStep \/ UNCHANGED vars
      BY <3>3 DEF RunStep, Start, BeginSelect, SelectBase, RemoveUnused, Snapshot, Tag, Export, BeginChain,
           BeginLength, SetLength, Mark, EndCleanup, FinallyRemove, End, PoolFails, Crash
    <3>. QED BY <3>1, <3>2, <3>3, NextSteps
  <2>. QED BY <1>2, <1>3, <1>5, <2>1
<1>. QED BY <1>4, <1>5

\* There are enough backups, all whole, after the last of the entries that are too
\* old: those that the list has, or those after one that a stale list still has.
LEMMA PrepareSpared ==
  ASSUME Types, NEW q \in writers, NumberedAt(q), BasedAt(q), CachedAt(q), KeptAt(q), step = "prepare",
         NEW e \in OldEntries(q)
  PROVE  /\ e < now /\ schedule[e] = schedule[now]
         /\ Cardinality(Newer((Solid(q) \ OldEntries(q)) \ {now}, e, schedule[now])) >= ExportRetention - 1
<1>. DEFINE found   == Listed(q, schedule[now])
            kept    == Latest(ExportRetention - 1, found)
            entries == GetOldEntries(ExportRetention - 1, found)
            spared  == Newer((Solid(q) \ OldEntries(q)) \ {now}, e, schedule[now])
<1>0. q \in Remotes /\ found \in SUBSET Runs /\ Runs \in SUBSET Nat /\ now \in Nat
  BY LeftType, ParentsType, RunsAre DEF Types, RunTypes, Runs
<1>1. \A k \in found : k \in Past(q) /\ schedule[k] = schedule[now]
  BY <1>0 DEF Listed, Entries, CachedAt, Past
<1>2. \A k \in Past(q) : k \in 1 .. now /\ k # now
  <2>1. \A k \in jsons[q] \cup deleted[q] : k \in 1 .. now /\ k # now
    BY <1>0 DEF NumberedAt, Begun
  <2>2. \A k \in expired[q] : k \in 1 .. now /\ k # now
    <3>1. \A k \in expired[q] : k \in Runs /\ k < now
      BY <1>0 DEF CachedAt, Types, ListTypes
    <3>. QED BY <1>0, <3>1 DEF Runs
  <2>. QED BY <2>1, <2>2 DEF Past
<1>3. jsons[q] \subseteq Sound(q)
  BY DEF BasedAt, Begun
<1>4. OldEntries(q) \subseteq entries /\ entries = found \ kept
  BY DEF OldEntries, GetOldEntries
<1>. HIDE DEF found, entries
<1>5. entries \in SUBSET Runs /\ e \in entries
  BY <1>0, <1>4
<1>6. PICK i \in Latest(1, entries) : e <= i
  BY <1>5, LatestLast
<1>7. i \in entries /\ i \in found /\ i \notin kept /\ i \in Nat /\ e \in Nat
  BY <1>0, <1>4, <1>5, <1>6, LatestSubset
<1>. DEFINE after == {j \in found : j > i}
            later == {j \in entries : j > i}
<1>8. Cardinality(after) >= ExportRetention - 1
  <2>1. ~(Cardinality(after) < ExportRetention - 1)
    BY <1>7 DEF Latest
  <2>2. after \in SUBSET Runs
    BY <1>0
  <2>. HIDE DEF after
  <2>3. Cardinality(after) \in Nat
    BY <2>2, FiniteRuns
  <2>. QED BY <2>1, <2>3, Bounds
<1>9. later = {}
  <2>1. Cardinality(later) < 1 /\ later \in SUBSET Runs
    BY <1>5, <1>6 DEF Latest
  <2>. HIDE DEF later
  <2>2. IsFiniteSet(later) /\ Cardinality(later) \in Nat
    BY <2>1, FiniteRuns
  <2>. QED BY <2>1, <2>2, FS_EmptySet
<1>10. \A j \in Solid(q) : j > i /\ schedule[j] = schedule[now] => j \in spared
  <2>. SUFFICES ASSUME NEW j \in Solid(q), j > i, schedule[j] = schedule[now] PROVE j \in spared
    OBVIOUS
  <2>1. j \in Nat /\ j # now
    BY <1>0, <1>2 DEF Solid, Past
  <2>2. j \notin entries /\ e < j
    BY <1>6, <1>7, <1>9, <2>1
  <2>. QED BY <1>4, <2>1, <2>2 DEF Newer
<1>11. spared \in SUBSET Runs /\ after \in SUBSET Runs
  BY <1>0, SolidType DEF Newer
<1>12. Cardinality(spared) >= ExportRetention - 1
  <2>1. CASE after \subseteq Solid(q)
    <3>1. after \subseteq spared
      BY <1>1, <1>10, <2>1
    <3>. HIDE DEF spared, after
    <3>2. Cardinality(after) <= Cardinality(spared) /\ Cardinality(after) \in Nat /\ Cardinality(spared) \in Nat
      BY <1>11, <3>1, FiniteRuns
    <3>. QED BY <1>8, <3>2, Bounds
  <2>2. CASE ~(after \subseteq Solid(q))
    <3>1. PICK g \in found : g > i /\ g \notin Solid(q)
      BY <2>2
    <3>2. g \in expired[q] \ deleted[q] /\ g \notin jsons[q]
      BY <1>1, <1>3, <3>1 DEF Past, Solid
    <3>. DEFINE newer == Newer(Solid(q), g, schedule[g])
    <3>3. Cardinality(newer) >= ExportRetention
      BY <3>2 DEF KeptAt
    <3>4. newer \subseteq spared
      <4>. SUFFICES ASSUME NEW j \in Solid(q), g < j, schedule[j] = schedule[g] PROVE j \in spared
        BY DEF Newer
      <4>1. g \in Nat /\ j \in Nat /\ schedule[g] = schedule[now]
        BY <1>0, <1>1, <3>1, SolidType
      <4>2. j > i
        BY <1>7, <3>1, <4>1
      <4>. QED BY <1>10, <4>1, <4>2
    <3>5. newer \in SUBSET Runs
      BY <1>11, <3>4
    <3>. HIDE DEF spared, newer
    <3>6. Cardinality(newer) <= Cardinality(spared) /\ Cardinality(newer) \in Nat /\ Cardinality(spared) \in Nat
      BY <1>11, <3>4, <3>5, FiniteRuns
    <3>. QED BY <3>3, <3>6, Bounds
  <2>. QED BY <2>1, <2>2
<1>13. e < now /\ schedule[e] = schedule[now]
  <2>1. e \in found
    BY <1>4, <1>5
  <2>2. e \in 1 .. now /\ e # now
    BY <1>1, <1>2, <2>1
  <2>. QED BY <1>0, <1>1, <2>1, <2>2
<1>. QED BY <1>12, <1>13

\* What is there beside the old entries stays.
LEMMA SparedSame ==
  ASSUME Types, Types', NEW q \in Remotes, SparedAt(q), step \notin Over, q \in writers, UNCHANGED <<now, schedule>>,
         old'[q] \subseteq old[q], (Solid(q) \ old[q]) \ {now} \subseteq (Solid(q)' \ old'[q]) \ {now}
  PROVE  SparedAt(q)'
<1>. SUFFICES ASSUME NEW e \in old'[q]
              PROVE  /\ e < now /\ schedule[e] = schedule[now]
                     /\ Cardinality(Newer((Solid(q)' \ old'[q]) \ {now}, e, schedule[now])) >= ExportRetention - 1
  BY DEF SparedAt, Newer
<1>. DEFINE before == Newer((Solid(q) \ old[q]) \ {now}, e, schedule[now])
            after  == Newer((Solid(q)' \ old'[q]) \ {now}, e, schedule[now])
<1>1. e < now /\ schedule[e] = schedule[now] /\ Cardinality(before) >= ExportRetention - 1
  BY DEF SparedAt
<1>2. before \subseteq after
  BY DEF Newer
<1>3. Solid(q) \in SUBSET Runs /\ Solid(q)' \in SUBSET Runs
  BY DEF Solid, Sound, SoundIn, Types, FileTypes
<1>4. before \in SUBSET Runs /\ after \in SUBSET Runs
  BY <1>3 DEF Newer
<1>. HIDE DEF before, after
<1>5. Cardinality(before) <= Cardinality(after) /\ Cardinality(before) \in Nat /\ Cardinality(after) \in Nat
  BY <1>2, <1>4, FiniteRuns
<1>6. Cardinality(after) >= ExportRetention - 1
  BY <1>1, <1>5, Bounds
<1>. QED BY <1>1, <1>6 DEF after

LEMMA OldSame ==
  ASSUME Types, [Next]_vars, NEW q \in Remotes, ~Prepare(q), ~DeleteOldEntry(q)
  PROVE  old'[q] = old[q] \/ \E s \in Schedules : Start(s)
<1>. USE DEF pool, files, choices, run, history, vars
<1>1. ASSUME NEW r \in Remotes, RemoteStep(r) PROVE old'[q] = old[q]
  <2>1. CASE r # q
    BY <1>1, <2>1, RemoteFrame
  <2>2. CASE r = q
    BY <1>1, <2>2 DEF RemoteStep, BeforeBackup, EndBeforeBackup, WriteVhd, WriteMetadata, Chain,
         UpdateUuid, AfterBackup, EndAfterBackup, WriterFails, TransferFails, CacheDiverges, OtherScan, OtherClean, DeleteBackup
  <2>. QED BY <2>1, <2>2
<1>2. CASE RunStep /\ ~\E s \in Schedules : Start(s)
  BY <1>2 DEF RunStep, BeginSelect, SelectBase, RemoveUnused, Snapshot, Tag, Export, BeginChain,
         BeginLength, SetLength, Mark, EndCleanup, FinallyRemove, End, PoolFails, Crash
<1>. QED BY <1>1, <1>2, NextSteps

LEMMA SparedStep ==
  ASSUME Types, Types', Settings, Planned, [Next]_vars, NEW q \in Remotes, NumberedAt(q), TransferredAt(q), BasedAt(q),
         SafeAt(q), SparedAt(q), CachedAt(q), KeptAt(q)
  PROVE  SparedAt(q)'
<1>. USE DEF pool, files, choices, run, history, vars
<1>1. ASSUME step' \in Over \/ q \notin writers' \/ old'[q] = {} PROVE SparedAt(q)'
  BY <1>1 DEF SparedAt
<1>2. CASE \E s \in Schedules : Start(s)
  BY <1>1, <1>2 DEF Start
<1>3. CASE Prepare(q)
  <2>1. /\ UNCHANGED <<now, schedule, step, writers, vhds, parent, jsons, deleted>> /\ step = "prepare"
        /\ old'[q] = OldEntries(q)
    BY <1>3 DEF Prepare, Types, FileTypes
  <2>2. Solid(q)' = Solid(q)
    BY <2>1 DEF Solid, Sound
  <2>3. \A set, e, s : Newer(set, e, s)' = {j \in set : e < j /\ schedule[j] = s}
    BY <2>1 DEF Newer
  <2>. QED BY <2>1, <2>2, PrepareSpared DEF SparedAt, Newer
<1>4. CASE DeleteOldEntry(q)
  <2>1. /\ UNCHANGED <<now, schedule, step, writers, vhds, parent, deleted>> /\ step = "cleanup" /\ q \in busy
    BY <1>4 DEF DeleteOldEntry, Settings
  <2>2. PICK k \in old[q] : /\ jsons' = [jsons EXCEPT ![q] = @ \ {k}]
                            /\ old' = [old EXCEPT ![q] = @ \ {k}]
    BY <1>4, LatestSubset DEF DeleteOldEntry
  <2>3. jsons'[q] = jsons[q] \ {k} /\ old'[q] = old[q] \ {k}
    BY <2>2 DEF Types, FileTypes
  <2>4. Sound(q)' = Sound(q)
    BY <2>1 DEF Sound
  <2>5. (Solid(q) \ old[q]) \ {now} \subseteq (Solid(q)' \ old'[q]) \ {now}
    BY <2>1, <2>3, <2>4 DEF Solid
  <2>6. q \in writers /\ step \notin Over
    BY <2>1, Quiet DEF Over
  <2>. QED BY <2>1, <2>3, <2>5, <2>6, SparedSame
<1>5. CASE /\ ~\E s \in Schedules : Start(s)
           /\ ~Prepare(q) /\ ~DeleteOldEntry(q) /\ step' \notin Over /\ q \in writers'
  <2>1. Solid(q) \subseteq Solid(q)' /\ old'[q] = old[q]
    BY <1>5, SolidStep, OldSame
  <2>2. UNCHANGED <<now, schedule>> /\ step \notin Over /\ q \in writers
    <3>1. ASSUME NEW r \in Remotes, RemoteStep(r) PROVE UNCHANGED <<now, schedule>> /\ (step' = step \/ step' \in Over)
      BY <3>1, RemotePool DEF Over
    <3>2. ASSUME NEW r \in Remotes, RemoteStep(r) PROVE writers' \subseteq writers
      BY <3>2 DEF RemoteStep, BeforeBackup, EndBeforeBackup, Prepare, DeleteOldEntry, WriteVhd, WriteMetadata, Chain,
         UpdateUuid, AfterBackup, EndAfterBackup, WriterFails, TransferFails, CacheDiverges, OtherScan, OtherClean, DeleteBackup,
         LoseWriter
    <3>3. CASE RunStep
      BY <1>5, <3>3 DEF RunStep, BeginSelect, SelectBase, RemoveUnused, Snapshot, Tag, Export, BeginChain,
           BeginLength, SetLength, Mark, EndCleanup, FinallyRemove, End, PoolFails, Crash, Over
    <3>. QED BY <1>5, <3>1, <3>2, <3>3, NextSteps
  <2>. QED BY <2>1, <2>2, SparedSame
<1>. QED BY <1>1, <1>2, <1>3, <1>4, <1>5

\* The runs keep their schedules.
LEMMA ScheduleKept ==
  ASSUME Types, [Next]_vars
  PROVE  \A k \in 1 .. now : schedule'[k] = schedule[k]
<1>. USE DEF pool, files, choices, run, history, vars
<1>1. ASSUME NEW s \in Schedules, Start(s) PROVE \A k \in 1 .. now : schedule'[k] = schedule[k]
  <2>1. schedule' = [schedule EXCEPT ![now + 1] = s] /\ now \in Nat /\ 1 .. now \subseteq Runs
    BY <1>1, RunsAre DEF Start
  <2>2. \A k \in 1 .. now : k # now + 1 /\ k \in Runs
    BY <2>1
  <2>. QED BY <2>1, <2>2 DEF Types, PoolTypes
<1>2. CASE RunStep /\ ~\E s \in Schedules : Start(s)
  BY <1>2 DEF RunStep, BeginSelect, SelectBase, RemoveUnused, Snapshot, Tag, Export, BeginChain,
         BeginLength, SetLength, Mark, EndCleanup, FinallyRemove, End, PoolFails, Crash
<1>. QED BY <1>1, <1>2, RemotePool, NextSteps

\* What is reported as made is, in a whole chain.
LEMMA DoneStep ==
  ASSUME Types, [Next]_vars, NEW q \in Remotes, TransferredAt(q)
  PROVE  \/ done'[q] = done[q]
         \/ /\ step = "cleanup" /\ UNCHANGED <<vhds, parent, named, jsons, deleted, now>> /\ done'[q] = done[q] \cup {now}
            /\ now \in Sound(q) \cap named[q] \cap (jsons[q] \cup deleted[q])
<1>. USE DEF pool, files, choices, run, history, vars
<1>1. ASSUME NEW r \in Remotes, RemoteStep(r) PROVE done'[q] = done[q]
  BY <1>1, RemoteFiles
<1>2. CASE EndCleanup
  BY <1>2 DEF EndCleanup, TransferredAt
<1>3. CASE RunStep /\ ~EndCleanup
  BY <1>3 DEF RunStep, Start, BeginSelect, SelectBase, RemoveUnused, Snapshot, Tag, Export, BeginChain,
         BeginLength, SetLength, Mark, FinallyRemove, End, PoolFails, Crash, Fail
<1>. QED BY <1>1, <1>2, <1>3, NextSteps

\* Old entries are deleted by the run.
LEMMA ExpiredStep ==
  ASSUME Types, [Next]_vars, NEW q \in Remotes
  PROVE  expired[q] \subseteq expired'[q] /\ (~DeleteOldEntry(q) => expired'[q] = expired[q])
<1>. USE DEF pool, files, choices, run, history, vars
<1>1. ASSUME NEW r \in Remotes, RemoteStep(r), ~DeleteOldEntry(r) PROVE expired' = expired
  BY <1>1 DEF RemoteStep, BeforeBackup, EndBeforeBackup, Prepare, WriteVhd, WriteMetadata, Chain,
       UpdateUuid, AfterBackup, EndAfterBackup, WriterFails, TransferFails, CacheDiverges, OtherScan, OtherClean,
       DeleteBackup, Fail
<1>2. ASSUME NEW r \in Remotes, DeleteOldEntry(r)
      PROVE  expired[q] \subseteq expired'[q] /\ (r # q => expired'[q] = expired[q])
  BY <1>2 DEF DeleteOldEntry, Types, ListTypes
<1>3. CASE RunStep \/ UNCHANGED vars
  BY <1>3 DEF RunStep, Start, BeginSelect, SelectBase, RemoveUnused, Snapshot, Tag, Export, BeginChain,
         BeginLength, SetLength, Mark, EndCleanup, FinallyRemove, End, PoolFails, Crash, Fail
<1>. QED BY <1>1, <1>2, <1>3, NextSteps

\* A change of the cache adds no other name.
LEMMA UpdateCacheNames ==
  ASSUME Types, NEW r \in Remotes, NEW q \in Remotes, NEW removed, NEW added, UpdateCache(r, removed, added)
  PROVE  /\ q # r => cache'[q] = cache[q]
         /\ cache'[q] # None => cache[q] # None /\ cache'[q] \subseteq cache[q] \cup added
  BY DEF UpdateCache, Types, ListTypes

\* What cleanVm() finds, in terms of what it lists.
LEMMA FindingsListed ==
  ASSUME NEW r, NEW ignored, NEW merge
  PROVE  /\ Findings(r, ignored, merge).list \subseteq jsons[r] \ Findings(r, ignored, merge).forget
         /\ Findings(r, ignored, merge).forget # {} => Findings(r, ignored, merge).must
  BY DEF Findings

LEMMA CachedStep ==
  ASSUME Types, Types', Settings, Planned, [Next]_vars, NEW q \in Remotes, SparedAt(q), CachedAt(q)
  PROVE  CachedAt(q)'
<1>. USE DEF pool, files, choices, run, history, vars
<1>0. /\ cache \in [Remotes -> Caches] /\ now \in Nat /\ now' \in Nat /\ expired[q] \in SUBSET Nat
      /\ Cleaners = {"run", "other"}
  BY RunsAre, ParentsType, Bounds DEF Types, ListTypes, RunTypes, Runs, Cleaners
<1>1. ASSUME expired'[q] = expired[q], now' >= now PROVE \A k \in expired'[q] : k < now'
  BY <1>0, <1>1 DEF CachedAt
<1>2. ASSUME now' = now, expired'[q] = expired[q], Past(q) \subseteq Past(q)',
             cache'[q] # None => cache'[q] \subseteq Past(q)',
             \A c \in Cleaners : plan'[q][c] \in {None, plan[q][c]}
      PROVE  CachedAt(q)'
  BY <1>1, <1>2, <1>0 DEF CachedAt
<1>3. ASSUME NEW r \in Remotes, RemoteStep(r) PROVE CachedAt(q)'
  <2>0. now' = now
    BY <1>3, RemotePool
  <2>1. ASSUME NEW c \in Cleaners, NEW merge, Scan(r, c, merge), UNCHANGED <<files, deleted, expired>>
        PROVE  CachedAt(q)'
    <3>1. PICK ignored \in Ignored(r) : plan' = [plan EXCEPT ![r][c] = Findings(r, ignored, merge)]
      BY <2>1 DEF Scan
    <3>2. \A d \in Cleaners : <<q, d>> # <<r, c>> => plan'[q][d] = plan[q][d]
      BY <2>1, ScanPlans
    <3>3. q = r => plan'[q][c] = Findings(q, ignored, merge)
      BY <3>1 DEF Types, LockTypes
    <3>4. Past(q)' = Past(q)
      BY <2>1 DEF Past
    <3>5. ASSUME NEW d \in Cleaners, plan'[q][d] # None
          PROVE  /\ plan'[q][d].list \subseteq Past(q) \ plan'[q][d].forget
                 /\ plan'[q][d].forget # {} => plan'[q][d].must
      <4>1. CASE q = r /\ d = c
        BY <3>3, <4>1, FindingsListed DEF Past
      <4>2. CASE ~(q = r /\ d = c)
        BY <3>2, <3>5, <4>2 DEF CachedAt
      <4>. QED BY <4>1, <4>2
    <3>. QED BY <1>1, <2>0, <2>1, <3>4, <3>5 DEF CachedAt
  <2>2. ASSUME NEW c \in Cleaners, Clean(r, c), UNCHANGED <<deleted, expired>> PROVE CachedAt(q)'
    <3>1. /\ plan[r][c] # None /\ plan'[r][c] = None
          /\ \A p \in Remotes, d \in Cleaners : <<p, d>> # <<r, c>> => plan'[p][d] = plan[p][d]
      BY <2>2, CleanPlans
    <3>2. cache' \in {cache, [cache EXCEPT ![r] = plan[r][c].list]}
      BY <2>2, CleanType
    <3>3. CASE q # r
      <4>1. jsons'[q] = jsons[q] /\ cache'[q] = cache[q]
        BY <1>0, <2>2, <3>2, <3>3, CleanIs
      <4>2. Past(q)' = Past(q)
        BY <2>2, <4>1 DEF Past
      <4>3. cache'[q] # None => cache'[q] \subseteq Past(q)'
        BY <4>1, <4>2 DEF CachedAt
      <4>. QED BY <1>2, <2>0, <2>2, <3>1, <3>3, <4>2, <4>3
    <3>4. CASE q = r
      <4>1. \A d \in Cleaners : plan'[q][d] = None
        BY <1>0, <3>1, <3>4 DEF Types, LockTypes, Settings
      <4>2. jsons'[q] = jsons[q] \ plan[q][c].forget
        BY <2>2, <3>4, CleanIs
      <4>3. cache'[q] # None => cache'[q] \subseteq Past(q)'
        <5>1. CASE plan[q][c].must
          <6>1. cache'[q] = plan[q][c].list
            BY <1>0, <2>2, <3>4, <5>1 DEF Clean
          <6>2. plan[q][c].list \subseteq Past(q) \ plan[q][c].forget
            BY <3>1, <3>4 DEF CachedAt
          <6>. QED BY <2>2, <4>2, <6>1, <6>2 DEF Past
        <5>2. CASE ~plan[q][c].must
          <6>1. plan[q][c].forget = {} /\ plan[q][c].list \subseteq Past(q)
            BY <3>1, <3>4, <5>2 DEF CachedAt
          <6>2. Past(q)' = Past(q)
            BY <2>2, <4>2, <6>1 DEF Past
          <6>3. cache'[q] \in {cache[q], plan[q][c].list}
            BY <1>0, <3>2, <3>4
          <6>. QED BY <6>1, <6>2, <6>3 DEF CachedAt
        <5>. QED BY <5>1, <5>2
      <4>. QED BY <1>1, <2>0, <2>2, <4>1, <4>3 DEF CachedAt
    <3>. QED BY <3>3, <3>4
  <2>3. CASE BeforeBackup(r)
    <3>1. CASE plan' = plan
      BY <1>2, <2>0, <2>3, <3>1 DEF BeforeBackup, Past, CachedAt
    <3>. QED BY <1>0, <2>1, <2>3, <3>1 DEF BeforeBackup
  <2>4. CASE AfterBackup(r) \/ OtherScan(r)
    BY <1>0, <2>1, <2>4 DEF AfterBackup, OtherScan
  <2>5. CASE EndBeforeBackup(r) \/ EndAfterBackup(r) \/ OtherClean(r)
    BY <1>0, <2>2, <2>5 DEF EndBeforeBackup, EndAfterBackup, OtherClean
  <2>6. CASE Prepare(r)
    <3>1. /\ UNCHANGED <<jsons, deleted, expired, plan>> /\ cache' = [cache EXCEPT ![r] = Entries(r)]
      BY <2>6 DEF Prepare
    <3>2. Past(q)' = Past(q)
      BY <3>1 DEF Past
    <3>3. cache'[q] = IF q = r THEN Entries(q) ELSE cache[q]
      BY <1>0, <3>1
    <3>4. Entries(q) \subseteq Past(q) /\ (cache[q] # None => cache[q] \subseteq Past(q))
      BY DEF Entries, CachedAt, Past
    <3>. QED BY <1>2, <2>0, <3>1, <3>2, <3>3, <3>4
  <2>7. CASE DeleteOldEntry(r)
    <3>1. /\ UNCHANGED <<deleted, plan>> /\ step = "cleanup" /\ r \in busy
      BY <2>7 DEF DeleteOldEntry, Settings
    <3>2. PICK e \in old[r] : /\ jsons' = [jsons EXCEPT ![r] = @ \ {e}]
                              /\ expired' = [expired EXCEPT ![r] = @ \cup {e}]
                              /\ UpdateCache(r, {e}, {})
      BY <2>7, LatestSubset DEF DeleteOldEntry
    <3>3. /\ jsons'[q] = IF q = r THEN jsons[q] \ {e} ELSE jsons[q]
          /\ expired'[q] = IF q = r THEN expired[q] \cup {e} ELSE expired[q]
      BY <3>2 DEF Types, FileTypes, ListTypes
    <3>4. Past(q) \subseteq Past(q)'
      BY <3>1, <3>3 DEF Past
    <3>5. cache'[q] # None => cache'[q] \subseteq Past(q)'
      BY <3>2, <3>4, UpdateCacheNames DEF CachedAt
    <3>6. q = r => e < now
      BY <3>1, Quiet DEF SparedAt, Over
    <3>7. \A k \in expired'[q] : k < now
      BY <3>3, <3>6 DEF CachedAt
    <3>. QED BY <2>0, <3>1, <3>4, <3>5, <3>7 DEF CachedAt
  <2>8. CASE WriteMetadata(r)
    <3>1. /\ UNCHANGED <<deleted, expired, plan>> /\ jsons' = [jsons EXCEPT ![r] = @ \cup {now}]
          /\ UpdateCache(r, {}, {now})
      BY <2>8 DEF WriteMetadata
    <3>2. jsons'[q] = IF q = r THEN jsons[q] \cup {now} ELSE jsons[q]
      BY <3>1 DEF Types, FileTypes
    <3>3. Past(q) \subseteq Past(q)' /\ (q = r => now \in Past(q)')
      BY <3>1, <3>2 DEF Past
    <3>4. cache'[q] # None => cache'[q] \subseteq Past(q)'
      BY <3>1, <3>3, UpdateCacheNames DEF CachedAt
    <3>. QED BY <1>2, <2>0, <3>1, <3>3, <3>4
  <2>9. ASSUME NEW k \in Runs, DeleteBackup(r, k) PROVE CachedAt(q)'
    <3>1. /\ UNCHANGED <<expired, plan>> /\ jsons' = [jsons EXCEPT ![r] = @ \ {k}]
          /\ deleted' = [deleted EXCEPT ![r] = @ \cup {k}] /\ UpdateCache(r, {k}, {})
      BY <2>9 DEF DeleteBackup
    <3>2. Past(q) \subseteq Past(q)'
      BY <3>1 DEF Past, Types, FileTypes
    <3>3. cache'[q] # None => cache'[q] \subseteq Past(q)'
      BY <3>1, <3>2, UpdateCacheNames DEF CachedAt
    <3>. QED BY <1>2, <2>0, <3>1, <3>2, <3>3
  <2>10. CASE CacheDiverges(r)
    <3>1. PICK names \in (SUBSET (jsons[r] \cup deleted[r] \cup expired[r])) \cup {None} :
               cache' = [cache EXCEPT ![r] = names]
      BY <2>10 DEF CacheDiverges
    <3>2. UNCHANGED <<jsons, deleted, expired, plan>>
      BY <2>10 DEF CacheDiverges, Fail
    <3>3. Past(q)' = Past(q)
      BY <3>2 DEF Past
    <3>4. cache'[q] = IF q = r THEN names ELSE cache[q]
      BY <1>0, <3>1
    <3>5. cache'[q] # None => cache'[q] \subseteq Past(q)
      BY <3>1, <3>4 DEF CachedAt, Past
    <3>. QED BY <1>2, <2>0, <3>2, <3>3, <3>5
  <2>11. CASE WriteVhd(r) \/ Chain(r) \/ UpdateUuid(r) \/ WriterFails(r) \/ TransferFails(r)
    <3>1. UNCHANGED <<jsons, cache, deleted, expired, plan>>
      BY <2>11 DEF WriteVhd, Chain, UpdateUuid, WriterFails, TransferFails, Fail
    <3>. QED BY <1>2, <2>0, <3>1 DEF Past, CachedAt
  <2>. QED BY <1>3, <2>3, <2>4, <2>5, <2>6, <2>7, <2>8, <2>9, <2>10, <2>11 DEF RemoteStep
<1>4. CASE Crash
  <2>1. UNCHANGED <<files, deleted, expired, now>> /\ plan' = [r \in Remotes |-> [plan[r] EXCEPT !["run"] = None]]
    BY <1>4 DEF Crash, Fail
  <2>2. \A c \in Cleaners : plan'[q][c] \in {None, plan[q][c]}
    BY <2>1 DEF Types, LockTypes
  <2>3. Past(q)' = Past(q) /\ cache' = cache
    BY <2>1 DEF Past
  <2>. QED BY <1>2, <2>1, <2>2, <2>3 DEF CachedAt
<1>5. CASE (RunStep /\ ~Crash) \/ UNCHANGED vars
  <2>1. UNCHANGED <<jsons, cache, plan, deleted, expired>> /\ now' \in {now, now + 1}
    BY <1>5 DEF RunStep, Start, BeginSelect, SelectBase, RemoveUnused, Snapshot, Tag, Export, BeginChain,
           BeginLength, SetLength, Mark, EndCleanup, FinallyRemove, End, PoolFails, Fail
  <2>2. now' >= now
    BY <1>0, <2>1
  <2>3. \A k \in expired'[q] : k < now'
    BY <1>1, <2>1, <2>2
  <2>. QED BY <2>1, <2>3 DEF CachedAt, Past
<1>. QED BY <1>3, <1>4, <1>5, NextSteps

LEMMA KeptStep ==
  ASSUME Types, Types', Settings, Planned, [Next]_vars, NEW q \in Remotes, NumberedAt(q), TransferredAt(q), BasedAt(q),
         SafeAt(q), SparedAt(q), CachedAt(q), KeptAt(q)
  PROVE  KeptAt(q)'
<1>. USE DEF pool, files, choices, run, history, vars
<1>0. /\ \A k \in Solid(q) \cup done[q] \cup expired[q] : schedule'[k] = schedule[k]
      /\ Solid(q) \in SUBSET Runs /\ Solid(q)' \in SUBSET Runs /\ Runs \in SUBSET Nat /\ now \in Nat
      /\ done[q] \in SUBSET Runs /\ expired[q] \in SUBSET Runs
  <2>0. /\ Solid(q) \in SUBSET Runs /\ Solid(q)' \in SUBSET Runs /\ Runs \in SUBSET Nat /\ now \in Nat
        /\ done[q] \in SUBSET Runs /\ expired[q] \in SUBSET Runs
    BY RunsAre, ParentsType DEF Solid, Sound, SoundIn, Types, FileTypes, ListTypes, Runs
  <2>1. Solid(q) \cup done[q] \subseteq 1 .. now
    BY SoundDef DEF NumberedAt, Solid
  <2>2. expired[q] \subseteq 1 .. now
    BY <2>0 DEF CachedAt, Runs
  <2>3. \A k \in Solid(q) \cup done[q] \cup expired[q] : schedule'[k] = schedule[k]
    BY <2>1, <2>2, ScheduleKept
  <2>. QED BY <2>0, <2>3
<1>1. ASSUME NEW small, NEW set, small \subseteq set, set \in SUBSET Runs, Cardinality(small) >= ExportRetention
      PROVE  Cardinality(set) >= ExportRetention
  <2>1. small \in SUBSET Runs
    BY <1>1
  <2>2. Cardinality(small) <= Cardinality(set) /\ Cardinality(small) \in Nat /\ Cardinality(set) \in Nat
    BY <1>1, <2>1, FiniteRuns
  <2>. QED BY <1>1, <2>2, Bounds
<1>2. ASSUME NEW k \in (done'[q] \cup expired'[q]) \ deleted'[q],
             \/ k \in jsons'[q] \cap Sound(q)'
             \/ Cardinality({j \in Solid(q)' : k < j /\ schedule'[j] = schedule'[k]}) >= ExportRetention
      PROVE  \/ k \in jsons'[q] \cap Sound(q)'
             \/ Cardinality(Newer(Solid(q), k, schedule[k])') >= ExportRetention
  BY <1>2 DEF Newer
<1>3. CASE ~DeleteOldEntry(q)
  <2>1. /\ Solid(q) \subseteq Solid(q)' /\ jsons[q] \cap Sound(q) \subseteq (jsons[q] \cap Sound(q))' \cup deleted'[q]
        /\ deleted[q] \subseteq deleted'[q] /\ expired'[q] = expired[q]
    <3>1. deleted[q] \subseteq deleted'[q] /\ expired'[q] = expired[q]
      BY <1>3, DeletedStep, ExpiredStep
    <3>. QED BY <1>3, <3>1, SolidStep
  <2>. SUFFICES ASSUME NEW k \in (done'[q] \cup expired'[q]) \ deleted'[q]
                PROVE  \/ k \in jsons'[q] \cap Sound(q)'
                       \/ Cardinality({j \in Solid(q)' : k < j /\ schedule'[j] = schedule'[k]}) >= ExportRetention
    BY <1>2 DEF KeptAt
  <2>2. CASE k \in jsons[q] \cap Sound(q)
    BY <2>1, <2>2
  <2>3. CASE k \in done[q] \cup expired[q] /\ k \notin jsons[q] \cap Sound(q)
    <3>1. Cardinality(Newer(Solid(q), k, schedule[k])) >= ExportRetention
      BY <2>1, <2>3 DEF KeptAt
    <3>2. Newer(Solid(q), k, schedule[k]) \subseteq {j \in Solid(q)' : k < j /\ schedule'[j] = schedule'[k]}
      BY <1>0, <2>1, <2>3 DEF Newer
    <3>. QED BY <1>0, <1>1, <3>1, <3>2
  <2>4. CASE k \notin done[q] \cup expired[q]
    BY <2>1, <2>4, DoneStep
  <2>. QED BY <2>2, <2>3, <2>4
<1>4. CASE DeleteOldEntry(q)
  <2>1. /\ UNCHANGED <<now, schedule, step, vhds, parent, done, deleted>> /\ step = "cleanup" /\ q \in busy
    BY <1>4 DEF DeleteOldEntry, Settings
  <2>2. PICK e \in old[q] : /\ jsons' = [jsons EXCEPT ![q] = @ \ {e}]
                            /\ expired' = [expired EXCEPT ![q] = @ \cup {e}]
    BY <1>4, LatestSubset DEF DeleteOldEntry
  <2>3. jsons'[q] = jsons[q] \ {e} /\ Sound(q)' = Sound(q) /\ expired'[q] = expired[q] \cup {e}
    BY <2>1, <2>2 DEF Types, FileTypes, ListTypes, Sound
  <2>4. Solid(q) \ {e} \subseteq Solid(q)' /\ (jsons[q] \cap Sound(q)) \ {e} \subseteq jsons'[q] \cap Sound(q)'
    BY <2>1, <2>3 DEF Solid
  <2>5. q \in writers /\ step \notin Over
    BY <2>1, Quiet DEF Over
  <2>. DEFINE spared == Newer((Solid(q) \ old[q]) \ {now}, e, schedule[now])
  <2>6. e < now /\ schedule[e] = schedule[now] /\ Cardinality(spared) >= ExportRetention - 1
    BY <2>5 DEF SparedAt
  <2>7. now \in Solid(q) /\ e \in Nat /\ e # now
    <3>1. e \in Runs
      BY DEF Types, FileTypes
    <3>. QED BY <1>0, <2>1, <2>5, <2>6, <3>1 DEF TransferredAt, Solid
  <2>8. spared \in SUBSET Runs /\ now \notin spared /\ \A j \in spared : j \in Solid(q) \ {e} /\ e < j /\ schedule[j] = schedule[now]
    <3>1. \A j \in spared : j \in Solid(q) \ old[q] /\ j # now /\ e < j /\ schedule[j] = schedule[now]
      BY DEF Newer
    <3>. QED BY <1>0, <3>1
  <2>. HIDE DEF spared
  <2>9. Cardinality(spared \cup {now}) >= ExportRetention
    <3>1. Cardinality(spared \cup {now}) = Cardinality(spared) + 1 /\ Cardinality(spared) \in Nat
      BY <2>8, FiniteRuns, FS_AddElement
    <3>. QED BY <2>6, <3>1, Bounds
  <2>10. \A j \in spared \cup {now} : j \in Solid(q)' /\ e < j /\ schedule[j] = schedule[e]
    BY <2>4, <2>6, <2>7, <2>8
  <2>. SUFFICES ASSUME NEW k \in (done[q] \cup expired[q] \cup {e}) \ deleted[q], k \notin jsons'[q] \cap Sound(q)'
                PROVE  Cardinality({j \in Solid(q)' : k < j /\ schedule[j] = schedule[k]}) >= ExportRetention
    BY <2>1, <2>3 DEF KeptAt, Newer
  <2>. DEFINE newer == {j \in Solid(q)' : k < j /\ schedule[j] = schedule[k]}
  <2>11. newer \in SUBSET Runs /\ k \in Nat
    <3>1. k \in Runs
      BY <1>0 DEF Types, FileTypes
    <3>. QED BY <1>0, <3>1
  <2>12. CASE k <= e /\ schedule[k] = schedule[e]
    <3>1. \A j \in spared \cup {now} : k < j
      <4>1. \A j \in spared \cup {now} : j \in Nat
        BY <1>0, <2>8
      <4>. QED BY <2>7, <2>10, <2>11, <2>12, <4>1
    <3>2. spared \cup {now} \subseteq newer
      BY <2>10, <2>12, <3>1
    <3>. QED BY <1>1, <2>9, <2>11, <3>2
  <2>13. CASE ~(k <= e /\ schedule[k] = schedule[e])
    <3>0. k \in Nat /\ k # e
      BY <2>7, <2>11, <2>13
    <3>1. k \notin jsons[q] \cap Sound(q)
      BY <2>4, <3>0
    <3>2. Cardinality(Newer(Solid(q), k, schedule[k])) >= ExportRetention
      BY <3>0, <3>1 DEF KeptAt
    <3>3. e \notin Newer(Solid(q), k, schedule[k])
      BY <2>7, <2>13, <3>0 DEF Newer
    <3>4. Newer(Solid(q), k, schedule[k]) \subseteq newer
      BY <2>4, <3>3 DEF Newer
    <3>. QED BY <1>1, <2>11, <3>2, <3>4
  <2>. QED BY <2>12, <2>13
<1>. QED BY <1>3, <1>4

-----------------------------------------------------------------------------
(* The last exported snapshot. *)

\* The last one of a set, by those after it.
LEMMA LatestIs ==
  ASSUME NEW set \in SUBSET Runs, NEW k
  PROVE  k \in Latest(1, set) <=> k \in set /\ \A j \in set : ~(j > k)
<1>. DEFINE after == {j \in set : j > k}
<1>1. k \in Latest(1, set) <=> k \in set /\ Cardinality(after) < 1
  BY DEF Latest
<1>2. after \in SUBSET Runs
  OBVIOUS
<1>3. after = {} <=> \A j \in set : ~(j > k)
  OBVIOUS
<1>. HIDE DEF after
<1>4. IsFiniteSet(after) /\ Cardinality(after) \in Nat /\ (Cardinality(after) = 0 <=> after = {})
  BY <1>2, FiniteRuns, FS_EmptySet
<1>5. Cardinality(after) < 1 <=> Cardinality(after) = 0
  BY <1>4
<1>. QED BY <1>1, <1>3, <1>4, <1>5

\* The snapshot that a run has marked is the last one.
LEMMA LastMarked ==
  ASSUME Types, Snapped, Settings, now \in snapshots \cap exported
  PROVE  LastExported \subseteq {now}
<1>1. snapshots \cap exported \in SUBSET Runs /\ \A k \in snapshots : k \in Nat /\ k <= now
  BY LastSnapshot
<1>. SUFFICES ASSUME NEW k \in LastExported PROVE k = now
  OBVIOUS
<1>2. k \in snapshots /\ ~(now > k)
  BY <1>1, LatestIs DEF LastExported
<1>. QED BY <1>1, <1>2

\* A step leaves the last exported snapshot as it is, or exports that of the run.
LEMMA LastExportedStep ==
  ASSUME Types, Types', Snapped, Snapped', Settings, [Next]_vars
  PROVE  LastExported' \subseteq LastExported \/ (step \notin Over /\ now' = now /\ LastExported' \subseteq LastExported \cup {now})
<1>. USE DEF pool, files, choices, run, history, vars
<1>0. snapshots \in SUBSET Runs /\ exported \in SUBSET Runs /\ snapshots' \in SUBSET Runs /\ exported' \in SUBSET Runs
  <2>1. snapshots' \in SUBSET (1 .. now') /\ now' \in 0 .. MaxRuns
    BY DEF Types, PoolTypes, RunTypes
  <2>. QED BY <2>1, LastSnapshot, Bounds, SMTT(20) DEF Types, PoolTypes, Runs
<1>1. ASSUME UNCHANGED <<snapshots, exported>> PROVE LastExported' = LastExported
  BY <1>1 DEF LastExported, Latest
<1>2. \A k : k \in LastExported <=> k \in snapshots \cap exported /\ \A j \in snapshots \cap exported : ~(j > k)
  BY <1>0, LatestIs DEF LastExported
<1>3. \A k : k \in LastExported' <=> k \in snapshots' \cap exported' /\ \A j \in snapshots' \cap exported' : ~(j > k)
  <2>. DEFINE S == snapshots' \cap exported'
  <2>1. LastExported' = Latest(1, S)
    BY DEF LastExported, Latest
  <2>2. S \in SUBSET Runs
    BY <1>0
  <2>. HIDE DEF S
  <2>3. \A k : k \in LastExported' <=> k \in S /\ \A j \in S : ~(j > k)
    BY <2>1, <2>2, LatestIs
  <2>. QED BY <2>3 DEF S
<1>4. CASE RemoveUnused \/ FinallyRemove \/ PoolFails
  <2>1. /\ exported' = exported /\ snapshots' \subseteq snapshots /\ snapshots \ UnusedSnapshots \subseteq snapshots'
    BY <1>4 DEF RemoveUnused, FinallyRemove, PoolFails, Fail
  <2>2. ASSUME NEW k \in LastExported', NEW j \in snapshots \cap exported, j > k PROVE FALSE
    <3>1. k \in snapshots' /\ j \notin snapshots'
      BY <1>3, <2>1, <2>2
    <3>2. PICK i \in snapshots \ UnusedSnapshots : j <= i
      BY LastSnapshot
    <3>3. i \in snapshots' /\ i \in snapshots /\ k \in snapshots /\ i # j /\ {i, j, k} \subseteq Nat
      BY <2>1, <3>1, <3>2, LastSnapshot
    <3>4. k < j /\ j < i
      BY <2>2, <3>2, <3>3
    <3>. QED BY <3>3, <3>4 DEF Snapped
  <2>3. \A k \in LastExported' : k \in snapshots \cap exported
    BY <1>3, <2>1
  <2>. QED BY <1>2, <2>2, <2>3
<1>5. CASE Tag \/ Mark
  <2>1. /\ step \notin Over /\ now' = now
        /\ snapshots \cap exported \subseteq snapshots' \cap exported'
        /\ snapshots' \cap exported' \subseteq (snapshots \cap exported) \cup {now}
    BY <1>5 DEF Tag, Mark, Over
  <2>2. \A k \in LastExported' : k = now \/ k \in LastExported
    BY <1>2, <1>3, <2>1
  <2>. QED BY <2>1, <2>2
<1>6. CASE RunStep /\ ~(RemoveUnused \/ FinallyRemove \/ PoolFails \/ Tag \/ Mark)
  <2>1. UNCHANGED <<snapshots, exported>>
    BY <1>6 DEF RunStep, Start, BeginSelect, SelectBase, Snapshot, Export, BeginChain, BeginLength, SetLength,
           EndCleanup, End, Crash
  <2>. QED BY <1>1, <2>1
<1>7. ASSUME NEW r \in Remotes, RemoteStep(r) PROVE LastExported' = LastExported
  BY <1>1, <1>7, RemotePool
<1>8. CASE UNCHANGED vars
  BY <1>1, <1>8
<1>. QED BY <1>4, <1>5, <1>6, <1>7, <1>8, NextSteps

LEMMA NamedStep ==
  ASSUME Types, [Next]_vars, NEW q \in Remotes
  PROVE  named[q] \subseteq named'[q]
<1>. USE DEF pool, files, choices, run, history, vars
<1>1. ASSUME NEW r \in Remotes, NEW c \in Cleaners, Clean(r, c) PROVE named' = named
  BY <1>1 DEF Clean
<1>2. ASSUME NEW r \in Remotes, UpdateUuid(r) PROVE named[q] \subseteq named'[q]
  BY <1>2 DEF UpdateUuid, Types, FileTypes
<1>3. ASSUME NEW r \in Remotes, RemoteStep(r), ~UpdateUuid(r) PROVE named' = named
  BY <1>1, <1>3 DEF RemoteStep, BeforeBackup, EndBeforeBackup, Prepare, DeleteOldEntry, WriteVhd, WriteMetadata, Chain,
     AfterBackup, EndAfterBackup, WriterFails, TransferFails, CacheDiverges, OtherScan, OtherClean, DeleteBackup, Cleaners
<1>4. CASE RunStep \/ UNCHANGED vars
  BY <1>4 DEF RunStep, Start, BeginSelect, SelectBase, RemoveUnused, Snapshot, Tag, Export, BeginChain,
       BeginLength, SetLength, Mark, EndCleanup, FinallyRemove, End, PoolFails, Crash
<1>. QED BY <1>2, <1>3, <1>4, NextSteps

LEMMA ReadyStep ==
  ASSUME Types, Types', Snapped, Snapped', Settings, Planned, [Next]_vars, NEW q \in Remotes, NumberedAt(q),
         NumberedAt(q)', TransferredAt(q), BasedAt(q), SafeAt(q), SparedAt(q), ReadyAt(q)
  PROVE  ReadyAt(q)'
<1>. SUFFICES ASSUME NEW k \in LastExported', k \in done'[q] \ deleted'[q]
              PROVE  k \in named'[q] \cap jsons'[q] \cap Sound(q)'
  BY DEF ReadyAt
<1>1. CASE DeleteOldEntry(q)
  <2>1. step = "cleanup" /\ UNCHANGED <<snapshots, exported, done, now>>
    BY <1>1 DEF DeleteOldEntry, Settings, pool, history
  <2>2. now \in snapshots \cap exported
    BY <2>1 DEF Snapped, Tagged
  <2>3. LastExported' = LastExported
    BY <2>1 DEF LastExported, Latest
  <2>4. k = now
    BY <2>2, <2>3, LastMarked
  <2>5. now \notin done[q]
    BY <2>1 DEF NumberedAt, Over
  <2>. QED BY <2>1, <2>4, <2>5
<1>2. CASE ~DeleteOldEntry(q)
  <2>1. /\ Solid(q) \subseteq Solid(q)' /\ jsons[q] \cap Sound(q) \subseteq (jsons[q] \cap Sound(q))' \cup deleted'[q]
        /\ named[q] \subseteq named'[q]
    BY <1>2, SolidStep, NamedStep
  <2>2. CASE k \in LastExported /\ done'[q] = done[q]
    <3>1. k \notin deleted[q]
      BY DeletedStep
    <3>. QED BY <2>1, <2>2, <3>1 DEF ReadyAt
  <2>3. CASE k \notin LastExported
    <3>1. k = now /\ step \notin Over /\ now' = now
      BY <2>3, LastExportedStep
    <3>2. now \notin done[q]
      BY <3>1 DEF NumberedAt
    <3>3. done'[q] # done[q]
      BY <3>1, <3>2
    <3>. QED BY <3>1, <3>3, DoneStep DEF Sound
  <2>4. CASE done'[q] # done[q]
    <3>1. /\ step = "cleanup" /\ UNCHANGED <<vhds, parent, named, jsons, deleted, now>>
          /\ now \in Sound(q) \cap named[q] \cap (jsons[q] \cup deleted[q])
          /\ done'[q] = done[q] \cup {now}
      BY <2>4, DoneStep
    <3>2. Sound(q)' = Sound(q)
      BY <3>1 DEF Sound
    <3>3. CASE k = now
      BY <3>1, <3>2, <3>3
    <3>4. CASE k # now
      <4>1. now \in snapshots \cap exported
        BY <3>1 DEF Snapped, Tagged
      <4>2. k \in LastExported
        BY <3>4, LastExportedStep
      <4>. QED BY <3>4, <4>1, <4>2, LastMarked
    <3>. QED BY <3>3, <3>4
  <2>. QED BY <2>2, <2>3, <2>4
<1>. QED BY <1>1, <1>2

-----------------------------------------------------------------------------
(* The theorems. *)

LEMMA KeptInit == Init => Shape /\ Promise
<1>. SUFFICES ASSUME Init PROVE Shape /\ Promise
  OBVIOUS
<1>1. Snapped
  BY DEF Init, Snapped, Tagged
<1>2. Planned
  BY DEF Init, Planned, Over, Cleaners
<1>3. ASSUME NEW r \in Remotes PROVE NumberedAt(r) /\ OrderedAt(r) /\ SafeAt(r)
  BY DEF Init, NumberedAt, OrderedAt, SafeAt, Begun, Over
<1>4. ASSUME NEW r \in Remotes PROVE TransferredAt(r) /\ BasedAt(r) /\ SparedAt(r) /\ CachedAt(r) /\ KeptAt(r) /\ ReadyAt(r)
  BY DEF Init, TransferredAt, BasedAt, SparedAt, CachedAt, KeptAt, ReadyAt, Over
<1>. QED BY <1>1, <1>2, <1>3, <1>4 DEF Shape, Promise

LEMMA ShapeStep ==
  ASSUME Types, Settings, Shape, [Next]_vars
  PROVE  Shape'
<1>. USE DEF Shape
<1>1. Snapped' /\ Planned'
  BY SnappedStep, PlannedStep
<1>2. \A r \in Remotes : NumberedAt(r)'
  BY NumberedStep
<1>3. \A r \in Remotes : OrderedAt(r)'
  BY <1>1, <1>2, OrderedStep
<1>4. \A r \in Remotes : SafeAt(r)'
  BY SafeStep
<1>. QED BY <1>1, <1>2, <1>3, <1>4

LEMMA PromiseStep ==
  ASSUME Types, Types', Settings, Shape, Shape', Promise, [Next]_vars
  PROVE  Promise'
<1>. SUFFICES ASSUME NEW r \in Remotes
              PROVE  /\ TransferredAt(r)' /\ BasedAt(r)' /\ SparedAt(r)' /\ CachedAt(r)' /\ KeptAt(r)' /\ ReadyAt(r)'
  BY DEF Promise
<1>. USE DEF Shape, Promise
<1>1. TransferredAt(r)'
  BY TransferredStep
<1>2. BasedAt(r)'
  BY BasedStep
<1>3. SparedAt(r)'
  BY SparedStep
<1>4. KeptAt(r)'
  BY KeptStep
<1>5. ReadyAt(r)'
  BY ReadyStep
<1>6. CachedAt(r)'
  BY CachedStep
<1>. QED BY <1>1, <1>2, <1>3, <1>4, <1>5, <1>6

LEMMA PromiseAlways == ASSUME Settings PROVE Spec => [](Types /\ Shape /\ Promise)
<1>1. Types /\ [Next]_vars => Types'
  BY PoolStep, FileStep, ListStep, RunTypeStep, LockStep DEF Types
<1>2. Types /\ Shape /\ Promise /\ [Next]_vars => Shape'
  BY ShapeStep
<1>3. Types /\ Types' /\ Shape /\ Shape' /\ Promise /\ [Next]_vars => Promise'
  BY PromiseStep
<1>. QED BY <1>1, <1>2, <1>3, InitTypes, KeptInit, PTL DEF Spec

\* A backup that a run reported as made on a remote stays listed there with the
\* whole chain of VHDs that its restore reads, until as many newer ones of its
\* schedule count: whatever cleanVm() of the run, of the merge worker and after
\* the deletions of the user finds and deletes, wherever the runs fail or stop,
\* and although the cache that lists the backups misses some, or names some that
\* the user or a run deleted.  It is so on remotes with locks, when old entries are deleted after the
\* transfer, no snapshot is kept but the last one and the metadata is written
\* with its VHD.
THEOREM ReportedStay ==
  ASSUME Locks, ~DeleteFirst, SnapshotRetention = 0, "metadata" \notin Failures
  PROVE  Spec => []BackupsKept
<1>1. Settings
  BY DEF Settings
<1>2. Types /\ Shape /\ Promise => BackupsKept
  <2>. SUFFICES ASSUME Types, Promise, NEW r \in Remotes, NEW k \in done[r] \ deleted[r],
                       Cardinality({j \in jsons[r] \cup deleted[r] : j > k /\ schedule[j] = schedule[k]}) < ExportRetention
                PROVE  k \in jsons[r] /\ IsWhole(r, k)
    BY DEF BackupsKept
  <2>. DEFINE newer == {j \in jsons[r] \cup deleted[r] : j > k /\ schedule[j] = schedule[k]}
              solid == Newer(Solid(r), k, schedule[k])
  <2>1. newer \in SUBSET Runs /\ k \in Runs /\ Runs \in SUBSET Nat
    BY ParentsType DEF Types, FileTypes, Runs
  <2>2. solid \subseteq newer
    BY <2>1, SolidType DEF Newer, Solid
  <2>3. Cardinality(newer) < ExportRetention
    OBVIOUS
  <2>4. k \in jsons[r] \cap Sound(r) \/ Cardinality(solid) >= ExportRetention
    BY DEF Promise, KeptAt
  <2>. HIDE DEF newer, solid
  <2>5. Cardinality(solid) <= Cardinality(newer) /\ Cardinality(solid) \in Nat /\ Cardinality(newer) \in Nat
    <3>1. solid \in SUBSET Runs
      BY <2>1, <2>2
    <3>. QED BY <2>1, <2>2, <3>1, FiniteRuns
  <2>6. k \in jsons[r] \cap Sound(r)
    BY <2>3, <2>4, <2>5, Bounds
  <2>. QED BY <2>6 DEF Sound, SoundIn, IsWhole
<1>. QED BY <1>1, <1>2, PromiseAlways, PTL

\* The snapshot that checkBaseVdis() of the next run looks for has its VHD, of
\* that uuid and with its whole chain, on each remote where its backup was made
\* and not deleted since: under these settings the next run makes a delta.
THEOREM NextBase ==
  ASSUME Locks, ~DeleteFirst, SnapshotRetention = 0, "metadata" \notin Failures
  PROVE  Spec => []BaseReady
<1>1. Settings
  BY DEF Settings
<1>2. Types /\ Shape /\ Promise => BaseReady
  <2>. SUFFICES ASSUME Types, Promise, NEW k \in LastExported, NEW r \in Remotes, k \in done[r] \ deleted[r]
                PROVE  HasBase(r, k)
    BY DEF BaseReady
  <2>1. k \in named[r] \cap jsons[r] \cap Sound(r)
    BY DEF Promise, ReadyAt
  <2>. QED BY <2>1 DEF Sound, SoundIn, HasBase, IsWhole
<1>. QED BY <1>1, <1>2, PromiseAlways, PTL


=============================================================================
