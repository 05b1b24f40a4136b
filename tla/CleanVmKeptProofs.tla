------------------------- MODULE CleanVmKeptProofs -------------------------
(***************************************************************************)
(* That cleanVm() loses no backup, for every number of backups and blocks, *)
(* every transfer, any number of deletions by the user and any number of   *)
(* crashes that do not interrupt the blocks or the commit of a merge.      *)
(*                                                                         *)
(* The repository is seen through a set S of VHDs that cleanVm() must keep: *)
(* it holds the VHD of every backup that is listed, each VHD of S exists,  *)
(* and the parent of a VHD of S is in S.  Path v of S leads to the data of *)
(* the VHDs from path[v] to v, so that those of S follow each other.  S    *)
(* shrinks when unused VHDs are found that no used VHD needs, and when the *)
(* ancestor of a merge takes the place of the target.                      *)
(***************************************************************************)
EXTENDS CleanVmProofs

\* A crash between the first block and the rename leaves a merge to resume: see
\* VhdMerge for those.
OrderlyCrashes == CrashSteps \cap {"blocks", "cleanState", "rename"} = {}

-----------------------------------------------------------------------------
(* The invariant. *)

Elems(c) == {c[i] : i \in 1 .. Len(c)}

Committing == step \in {"blocks", "cleanState", "rename"}

\* The VHDs whose data a merge is changing.
Active == IF Committing THEN Elems(chain) ELSE {}

\* No merge is resumed, none fails, none outlives its run.
Calm ==
    /\ stale = 0 /\ ~resuming /\ step # "failing"
    /\ chain # <<>> \/ queue # <<>> \/ merged # {} => phase = "work"
    /\ doomed # {} => phase \in {"orphans", "work"}

\* Two paths lead to two data, which have the uuid of their VHD; the footer of
\* an ancestor is that of the target before the rename.
PathInv ==
    /\ \A v, w \in Vhds : path[v] = path[w] /\ path[v] # None => v = w
    /\ \A v \in Vhds : path[v] # None =>
          uuid[path[v]] = IF step \in {"cleanState", "rename"} /\ v = Ancestor THEN Target ELSE v

\* A state file is that of the merge under way, or of one that a crash stopped
\* after the rename.
StatesInv ==
    /\ \A v \in Vhds : states[v] # None =>
          \/ phase \in {"idle", "check", "states"} /\ path[v] = None
          \/ chain # <<>> /\ v = Ancestor
    /\ phase \in {"check", "states"} => \A v \in Vhds : resumed[v] = None <=> states[v] = None
    /\ phase \in {"aliases", "orphans", "jsons", "work"} => Interrupted = {}
    /\ step \in {"oldTarget", "children"} => path[Ancestor] = None

Opened == {v \in Vhds \ pending : Exists(v)}

\* What is known of the VHDs that are open, then of those that are no orphans.
CheckInv ==
    /\ phase \in {"check", "states", "aliases"} =>
         /\ \A v \in pending : v \in vhds /\ path[v] # None
         /\ \A v \in Vhds \ pending : v \in vhds <=> Exists(v)
         /\ \A v \in Vhds : parents[v] = IF v \in Opened THEN parent[path[v]] ELSE None
         /\ \A p \in Vhds : child[p] # None => child[p] \in Opened /\ parent[path[child[p]]] = p
         /\ \A v \in Opened : parent[path[v]] # None => child[parent[path[v]]] = v
         /\ \A u \in Vhds : byId[u] # None => byId[u] \in Opened /\ uuid[path[byId[u]]] = u
    /\ phase \in {"states", "aliases"} => pending = {}
    /\ phase \in {"orphans", "jsons"} =>
         /\ doomed \cap vhds = {}
         /\ \A v \in vhds : child[v] # None => child[v] \in vhds /\ path[child[v]] = v + 1
         /\ \A v \in vhds : path[v] # 1 => child[path[v] - 1] = v
    /\ phase = "jsons" => unused \subseteq vhds

Rooted(S) == \A v \in S : path[v] \in data /\ (path[v] = 1 \/ path[v] - 1 \in S)

\* No file of S is deleted, and no VHD of a backup that is listed is merged into
\* a later one.
SafeInv(S) ==
    /\ Rooted(S)
    /\ jsons \cup merged \subseteq S
    /\ phase # "idle" => S \subseteq vhds
    /\ doomed \cap S = {}
    /\ phase = "jsons" => vhds \ unused \subseteq S /\ jsons \subseteq pending \cup (vhds \ unused)
    /\ phase = "work" => (jsons \cup merged) \cap unused = {}

\* A chain to merge: unused VHDs of S and the next one.
Linear(c, S) ==
    /\ Len(c) > 1 /\ Elems(c) \subseteq S
    /\ \A i \in 1 .. (Len(c) - 1) : c[i] \in unused /\ path[c[i + 1]] = c[i] + 1

QueueInv(S) ==
    /\ \A i \in 1 .. Len(queue) : Linear(queue[i], S)
    /\ \A i, j \in 1 .. Len(queue) : i # j => Elems(queue[i]) \cap Elems(queue[j]) = {}

CommitInv(S) ==
    Committing =>
         /\ Linear(chain, S)
         /\ \A i \in 1 .. Len(queue) : Elems(queue[i]) \cap Elems(chain) = {}
         /\ opened = [i \in DOMAIN chain |-> path[chain[i]]]

StepInv(S) ==
    /\ step \in {"cleanState", "rename"} => todo = {}
    /\ step = "oldTarget" => opened[1] \in Vhds /\ \A v \in Vhds : path[v] # opened[1]
    /\ step \in {"oldTarget", "children"} => Len(chain) > 1 /\ Merged \cap S = {} /\ Target \in S

\* Data d has block b as the last of the VHDs from lo to hi wrote it.
Holds(d, lo, hi, b) ==
    IF b \in table[d]
    THEN /\ blocks[d][b] \in lo .. hi
         /\ b \in original[blocks[d][b]]
         /\ \A u \in lo .. hi : b \in original[u] => u <= blocks[d][b]
    ELSE \A u \in lo .. hi : b \notin original[u]

\* While a chain is merged, its ancestor has the blocks that are done as the
\* target must have them, and its other VHDs have the blocks that are not.
ContentInv(S) ==
    /\ \A v \in S \ Active, b \in Blocks : Holds(path[v], path[v], v, b)
    /\ Committing => \A b \in Blocks :
          IF b \in todo THEN \A i \in 1 .. Len(chain) : Holds(opened[i], opened[i], chain[i], b)
          ELSE Holds(opened[1], opened[1], Target, b)

Needed(S) == SafeInv(S) /\ QueueInv(S) /\ CommitInv(S) /\ StepInv(S) /\ ContentInv(S)

Safety == Calm /\ PathInv /\ StatesInv /\ CheckInv /\ \E S \in SUBSET Vhds : Needed(S)

IInv == TypeInv /\ Safety

-----------------------------------------------------------------------------
(* What leaves S alone. *)

\* The files of S stay; other paths may disappear.
Spared(S) ==
    /\ UNCHANGED <<original, table>>
    /\ \A w \in Vhds : path'[w] = path[w] \/ path'[w] = None
    /\ \A w \in S : path'[w] = path[w] /\ path[w] \in data' /\ blocks'[path[w]] = blocks[path[w]]

LEMMA SparedRooted ==
  ASSUME NEW S \in SUBSET Vhds, Rooted(S), Spared(S)
  PROVE  Rooted(S)'
  BY DEF Rooted, Spared

LEMMA SparedLinear ==
  ASSUME NEW S \in SUBSET Vhds, NEW c \in Seq(Vhds), Linear(c, S), Spared(S), unused' = unused
  PROVE  Linear(c, S)'
<1>1. Len(c) \in Nat /\ Elems(c) \subseteq S /\ Len(c) > 1
  BY DEF Linear
<1>2. \A i \in 1 .. (Len(c) - 1) : c[i + 1] \in S
  BY <1>1 DEF Elems
<1>3. \A i \in 1 .. (Len(c) - 1) : c[i] \in unused' /\ path'[c[i + 1]] = c[i] + 1
  BY <1>2 DEF Linear, Spared
<1>. QED BY <1>1, <1>3 DEF Linear, Elems

LEMMA SparedQueue ==
  ASSUME TypeInv, NEW S \in SUBSET Vhds, QueueInv(S), Spared(S), UNCHANGED <<queue, unused>>
  PROVE  QueueInv(S)'
<1>1. \A i \in 1 .. Len(queue) : queue[i] \in Seq(Vhds)
  BY DEF TypeInv, QueueTypes
<1>2. \A i \in 1 .. Len(queue) : Linear(queue[i], S)
  BY DEF QueueInv
<1>3. ASSUME NEW i \in 1 .. Len(queue) PROVE Linear(queue[i], S)'
  <2>1. queue[i] \in Seq(Vhds) /\ Linear(queue[i], S) /\ queue' = queue
    BY <1>1, <1>2
  <2>. DEFINE c == queue[i]
  <2>2. Len(c) \in Nat /\ Elems(c) \subseteq S /\ Len(c) > 1 /\ \A j \in 1 .. (Len(c) - 1) : c[j + 1] \in S
    BY <2>1 DEF Linear, Elems
  <2>3. \A j \in 1 .. (Len(c) - 1) : c[j] \in unused' /\ path'[c[j + 1]] = c[j] + 1
    BY <2>1, <2>2 DEF Linear, Spared
  <2>. QED BY <2>1, <2>2, <2>3 DEF Linear, Elems
<1>4. \A i \in 1 .. Len(queue') : Linear(queue[i], S)'
  BY <1>3
<1>5. (\A i, j \in 1 .. Len(queue) : i # j => Elems(queue[i]) \cap Elems(queue[j]) = {})'
  <2>1. queue' = queue /\ \A i, j \in 1 .. Len(queue) : i # j => Elems(queue[i]) \cap Elems(queue[j]) = {}
    BY DEF QueueInv
  <2>2. \A i, j \in 1 .. Len(queue') : i # j => Elems(queue'[i]) \cap Elems(queue'[j]) = {}
    BY <2>1
  <2>. QED BY <2>2 DEF Elems
<1>. QED BY <1>4, <1>5 DEF QueueInv

LEMMA SparedCommit ==
  ASSUME TypeInv, NEW S \in SUBSET Vhds, CommitInv(S), Spared(S), UNCHANGED <<queue, unused>>,
         Committing' => Committing, Committing => UNCHANGED <<chain, opened>>
  PROVE  CommitInv(S)'
<1>. SUFFICES ASSUME Committing' PROVE CommitInv(S)'
  BY DEF CommitInv
<1>. DEFINE c == chain
<1>1. Committing /\ Linear(c, S) /\ UNCHANGED <<queue, chain, opened, unused>>
  BY DEF CommitInv
<1>2. c \in Seq(Vhds)
  BY <1>1 DEF TypeInv, QueueTypes, IsChain, Committing
<1>3. Len(c) \in Nat /\ Elems(c) \subseteq S /\ Len(c) > 1 /\ \A j \in 1 .. Len(c) : c[j] \in S
  BY <1>1, <1>2 DEF Linear, Elems
<1>4. \A j \in 1 .. (Len(c) - 1) : c[j] \in unused' /\ path'[c[j + 1]] = c[j] + 1
  BY <1>1, <1>3 DEF Linear, Spared
<1>5. Linear(chain, S)'
  BY <1>1, <1>3, <1>4 DEF Linear, Elems
<1>6. opened' = [i \in DOMAIN c |-> path'[c[i]]]
  <2>1. \A i \in DOMAIN c : path'[c[i]] = path[c[i]]
    BY <1>2, <1>3 DEF Spared
  <2>. QED BY <1>1, <2>1 DEF CommitInv
<1>7. (\A i \in 1 .. Len(queue) : Elems(queue[i]) \cap Elems(chain) = {})'
  BY <1>1 DEF CommitInv, Elems
<1>8. (opened = [i \in DOMAIN chain |-> path[chain[i]]])'
  BY <1>1, <1>6
<1>. QED BY <1>5, <1>7, <1>8 DEF CommitInv

LEMMA SparedContent ==
  ASSUME TypeInv, NEW S \in SUBSET Vhds, CommitInv(S), ContentInv(S), Spared(S),
         Committing' <=> Committing, Committing => UNCHANGED <<chain, opened, todo>>
  PROVE  ContentInv(S)'
<1>1. ASSUME NEW v \in S, NEW d, d = path[v], NEW lo, NEW hi, NEW b, Holds(d, lo, hi, b)
      PROVE  Holds(d, lo, hi, b)'
  BY <1>1 DEF Holds, Spared
<1>2. ASSUME NEW v \in (S \ Active)', NEW b \in Blocks PROVE Holds(path[v], path[v], v, b)'
  <2>1. v \in S \ Active
    BY <1>2 DEF Active, Elems
  <2>2. Holds(path[v], path[v], v, b) /\ path'[v] = path[v]
    BY <2>1 DEF ContentInv, Spared
  <2>. QED BY <2>1, <2>2 DEF Holds, Spared
<1>3. ASSUME Committing', NEW b \in Blocks
      PROVE  (IF b \in todo THEN \A i \in 1 .. Len(chain) : Holds(opened[i], opened[i], chain[i], b)
              ELSE Holds(opened[1], opened[1], Target, b))'
  <2>1. Committing /\ UNCHANGED <<chain, opened, todo>> /\ Linear(chain, S)
    BY <1>3 DEF CommitInv
  <2>2. chain \in Seq(Vhds)
    BY <2>1 DEF TypeInv, QueueTypes, IsChain, Committing
  <2>3. \A i \in 1 .. Len(chain) : chain[i] \in S /\ opened[i] = path[chain[i]]
    BY <2>1, <2>2 DEF Linear, Elems, CommitInv
  <2>4. \A i \in 1 .. Len(chain) : blocks'[opened[i]] = blocks[opened[i]]
    BY <2>3 DEF Spared
  <2>5. 1 \in 1 .. Len(chain)
    BY <2>1, <2>2 DEF Linear
  <2>6. CASE b \in todo
    <3>1. \A i \in 1 .. Len(chain) : Holds(opened[i], opened[i], chain[i], b)
      BY <2>1, <2>6 DEF ContentInv
    <3>2. \A i \in 1 .. Len(chain) : Holds(opened[i], opened[i], chain[i], b)'
      BY <2>1, <2>4, <3>1 DEF Holds, Spared
    <3>. QED BY <2>1, <2>6, <3>2
  <2>7. CASE b \notin todo
    <3>1. Holds(opened[1], opened[1], Target, b)
      BY <2>1, <2>7 DEF ContentInv
    <3>2. Holds(opened[1], opened[1], Target, b)'
      BY <2>1, <2>4, <2>5, <3>1 DEF Holds, Spared, Target
    <3>. QED BY <2>1, <2>7, <3>2
  <2>. QED BY <2>6, <2>7
<1>. QED BY <1>2, <1>3 DEF ContentInv

LEMMA KeptSpares ==
  ASSUME NEW S \in SUBSET Vhds, Rooted(S), UNCHANGED <<original, table, path, data, blocks>>
  PROVE  Spared(S)
  BY DEF Rooted, Spared

LEMMA EraseSpares ==
  ASSUME TypeInv, NEW S \in SUBSET Vhds, Rooted(S), NEW d, EraseData(d), \A w \in S : path[w] # d,
         UNCHANGED <<original, table, path>>
  PROVE  Spared(S)
  BY DEF Rooted, Spared, EraseData, TypeInv, FileTypes

LEMMA UnlinkSpares ==
  ASSUME TypeInv, PathInv, NEW S \in SUBSET Vhds, Rooted(S), NEW v \in Vhds \ S, Unlink(v),
         UNCHANGED <<original, table>>
  PROVE  Spared(S)
<1>. USE VhdsNat
<1>1. \A w \in S : path[w] \in Vhds /\ path[w] \in data
  BY DEF Rooted, TypeInv, FileTypes
<1>2. \A w \in S : path[w] # path[v] /\ w # v
  <2>1. \A w \in S : path[w] # None
    BY <1>1
  <2>. QED BY <2>1 DEF PathInv
<1>3. \A w \in Vhds : path'[w] = path[w] \/ path'[w] = None
  BY DEF Unlink, TypeInv, FileTypes
<1>4. \A w \in S : path'[w] = path[w]
  BY <1>2 DEF Unlink, TypeInv, FileTypes
<1>5. \A w \in S : path[w] \in data' /\ blocks'[path[w]] = blocks[path[w]]
  BY <1>1, <1>2 DEF Unlink, EraseData, TypeInv, FileTypes
<1>. QED BY <1>3, <1>4, <1>5 DEF Spared

\* Paths that disappear.
LEMMA PathKept ==
  ASSUME PathInv, \A w \in Vhds : path'[w] = path[w] \/ path'[w] = None, UNCHANGED <<uuid, chain>>,
         step' \in {"cleanState", "rename"} <=> step \in {"cleanState", "rename"}
  PROVE  PathInv'
<1>1. \A v, w \in Vhds : path'[v] = path'[w] /\ path'[v] # None => v = w
  BY DEF PathInv
<1>2. \A v \in Vhds : path'[v] # None =>
          uuid'[path'[v]] = IF step' \in {"cleanState", "rename"} /\ v = Ancestor' THEN Target' ELSE v
  <2>1. Ancestor' = Ancestor /\ Target' = Target
    BY DEF Ancestor, Target
  <2>. QED BY <2>1 DEF PathInv
<1>. QED BY <1>1, <1>2 DEF PathInv

\* The steps of cleanVm() that merge nothing.
LEMMA CleanKeeps ==
  ASSUME TypeInv, NEW S \in SUBSET Vhds, Needed(S), Spared(S), UNCHANGED merge,
         unused' = unused \/ (queue = <<>> /\ chain = <<>>), SafeInv(S)'
  PROVE  Needed(S)'
<1>. USE DEF Needed
<1>1. UNCHANGED <<queue, chain, opened, step, todo>>
  BY DEF merge
<1>2. Committing' <=> Committing
  BY <1>1 DEF Committing
<1>3. ContentInv(S)'
  BY <1>1, <1>2, SparedContent
<1>4. StepInv(S)'
  <2>1. Merged' = Merged /\ Target' = Target
    BY <1>1 DEF Merged, Target
  <2>2. step = "oldTarget" => \A v \in Vhds : path'[v] # opened[1]
    <3>1. step = "oldTarget" => opened[1] # None
      BY VhdsNat DEF StepInv
    <3>. QED BY <3>1 DEF StepInv, Spared
  <2>. QED BY <1>1, <2>1, <2>2 DEF StepInv
<1>5. QueueInv(S)' /\ CommitInv(S)'
  <2>1. CASE unused' = unused
    <3>1. QueueInv(S)'
      BY <1>1, <2>1, SparedQueue
    <3>2. CommitInv(S)'
      BY <1>1, <1>2, <2>1, SparedCommit
    <3>. QED BY <3>1, <3>2
  <2>2. CASE queue = <<>> /\ chain = <<>>
    <3>1. queue' = <<>> /\ ~ Committing'
      BY <1>1, <1>2, <2>2 DEF TypeInv, QueueTypes, Committing
    <3>. QED BY <3>1 DEF QueueInv, CommitInv
  <2>. QED BY <2>1, <2>2
<1>. QED BY <1>3, <1>4, <1>5

-----------------------------------------------------------------------------

\* Data d has the parent of the VHD before the first one it holds.
LEMMA ParentOf ==
  ASSUME TypeInv, NEW d \in Vhds
  PROVE  /\ parent[d] = IF d = 1 THEN None ELSE d - 1
         /\ d # 1 => d - 1 \in Vhds
         /\ d \in Nat
  BY Bounds DEF TypeInv, HistoryTypes, Vhds

LEMMA InitInv == Init => IInv
<1>. SUFFICES ASSUME Init PROVE IInv
  OBVIOUS
<1>. USE VhdsNat DEF Init
<1>1. TypeInv
  BY TypeInvInit
<1>2. Calm
  BY DEF Calm
<1>3. PathInv /\ StatesInv
  BY DEF PathInv, StatesInv, NoVhd
<1>4. CheckInv
  BY DEF CheckInv
<1>5. Needed(Vhds)
  <2>1. \A v \in Vhds : path[v] = v /\ v \in Nat
    OBVIOUS
  <2>2. Rooted(Vhds)
    <3>1. \A v \in Vhds : v = 1 \/ v - 1 \in Vhds
      BY Bounds DEF Vhds
    <3>. QED BY <3>1 DEF Rooted
  <2>3. SafeInv(Vhds)
    BY <2>2 DEF SafeInv
  <2>4. QueueInv(Vhds) /\ CommitInv(Vhds) /\ StepInv(Vhds)
    BY DEF QueueInv, CommitInv, StepInv, Committing
  <2>5. ContentInv(Vhds)
    <3>1. ASSUME NEW v \in Vhds, NEW b \in Blocks PROVE Holds(v, v, v, b)
      <4>1. v .. v = {v}
        BY <2>1
      <4>2. b \in table[v] <=> b \in original[v]
        OBVIOUS
      <4>3. b \in original[v] => blocks[v][b] = v
        OBVIOUS
      <4>. QED BY <2>1, <4>1, <4>2, <4>3 DEF Holds
    <3>. QED BY <2>1, <3>1 DEF ContentInv, Committing
  <2>. QED BY <2>3, <2>4, <2>5 DEF Needed
<1>. QED BY <1>1, <1>2, <1>3, <1>4, <1>5 DEF IInv, Safety

-----------------------------------------------------------------------------
(* cleanVm() before the merges. *)

\* Nothing is merged before the last phase.
LEMMA NotYet ==
  ASSUME TypeInv, Calm, phase # "work"
  PROVE  chain = <<>> /\ queue = <<>> /\ merged = {} /\ step = "none" /\ ~ Committing
  BY DEF TypeInv, QueueTypes, Calm, Committing

LEMMA StartInv ==
  ASSUME TypeInv, Safety, NEW m, Start(m)
  PROVE  Safety'
<1>. USE VhdsNat DEF Safety, Start, repository, backups
<1>1. chain = <<>> /\ queue = <<>> /\ merged = {} /\ step = "none" /\ doomed = {}
  BY NotYet DEF Calm
<1>2. UNCHANGED <<queue, chain, opened, step, todo, resuming, stale, path, data, blocks, table, uuid, states, jsons,
                  original, parent, deleted, unused, doomed, merged>>
  BY DEF merge
<1>3. Calm'
  BY <1>1, <1>2 DEF Calm
<1>4. PathInv'
  BY <1>2, PathKept
<1>5. StatesInv'
  <2>1. \A v \in Vhds : states[v] # None => path[v] = None
    BY <1>1 DEF StatesInv
  <2>2. \A v \in Vhds : resumed'[v] = None <=> states[v] = None
    <3>1. \A v \in Vhds : states[v] # None => states[v].chain \in Seq(Vhds)
      BY DEF TypeInv, StateTypes, IsChain
    <3>2. \A v \in Vhds : states[v] # None => states[v].chain # None
      <4>1. \A s \in Seq(Vhds) : s \in Seq(Int)
        OBVIOUS
      <4>. QED BY <3>1, <4>1, Bounds
    <3>3. \A v \in Vhds : resumed'[v] = IF states[v] = None THEN None ELSE states[v].chain
      OBVIOUS
    <3>. QED BY <3>2, <3>3
  <2>. QED BY <1>1, <1>2, <2>1, <2>2 DEF StatesInv
<1>6. CheckInv'
  <2>1. \A v \in Vhds : Exists(v) => v \in pending'
    BY DEF Exists
  <2>2. Opened' = {}
    BY <1>2, <2>1 DEF Opened, Exists
  <2>3. /\ phase' = "check" /\ vhds' = pending' /\ pending' = {v \in Vhds : path[v] # None}
        /\ \A v \in Vhds : parents'[v] = None /\ child'[v] = None /\ byId'[v] = None
    BY DEF NoVhd
  <2>4. \A v \in Vhds : Exists(v)' <=> Exists(v)
    BY <1>2 DEF Exists
  <2>5. /\ \A v \in pending' : v \in vhds' /\ path'[v] # None
        /\ \A v \in Vhds \ pending' : v \in vhds' <=> Exists(v)'
    BY <1>2, <2>1, <2>3, <2>4
  <2>. QED BY <2>2, <2>3, <2>5 DEF CheckInv
<1>7. ASSUME NEW S \in SUBSET Vhds, Needed(S) PROVE Needed(S)'
  <2>. USE DEF Needed
  <2>1. Spared(S)
    BY <1>2, <1>7, KeptSpares DEF SafeInv
  <2>2. SafeInv(S)'
    <3>1. S \subseteq vhds'
      BY <1>7 DEF SafeInv, Rooted, TypeInv, FileTypes
    <3>2. Rooted(S)'
      BY <1>7, <2>1, SparedRooted DEF SafeInv
    <3>. QED BY <1>1, <1>2, <1>7, <3>1, <3>2 DEF SafeInv
  <2>. QED BY <1>1, <1>7, <2>1, <2>2, CleanKeeps
<1>. QED BY <1>3, <1>4, <1>5, <1>6, <1>7

\* Every VHD that exists is kept: no other has its parent, none has its uuid.
LEMMA CheckVhdInv ==
  ASSUME TypeInv, Safety, NEW v \in Vhds, CheckVhd(v)
  PROVE  Safety'
<1>. USE VhdsNat DEF Safety
<1>1. chain = <<>> /\ queue = <<>> /\ merged = {} /\ step = "none"
  BY NotYet DEF CheckVhd
<1>2. /\ UNCHANGED <<queue, chain, opened, step, todo, resuming, stale, path, data, blocks, table, uuid, states, jsons,
                     original, parent, deleted, unused, doomed, merged, phase, resumed, merge>>
      /\ phase = "check" /\ v \in pending /\ pending' = pending \ {v}
  BY DEF merge, CheckVhd, repository, backups
<1>3. Calm'
  BY <1>1, <1>2 DEF Calm
<1>4. PathInv'
  BY <1>2, PathKept
<1>5. StatesInv'
  BY <1>1, <1>2 DEF StatesInv, Interrupted
<1>6. \A w \in Vhds : Exists(w)' <=> Exists(w)
  BY <1>2 DEF Exists
<1>7. v \in vhds /\ path[v] # None /\ path[v] \in Vhds
  BY <1>2 DEF CheckInv, TypeInv, FileTypes
<1>8. v \notin Opened
  BY <1>2 DEF Opened
<1>9. CASE ~ Exists(v)
  <2>1. vhds' = vhds \ {v} /\ UNCHANGED <<parents, child, byId>>
    BY <1>9 DEF CheckVhd
  <2>2. Opened' = Opened
    BY <1>2, <1>6, <1>9 DEF Opened
  <2>3. CheckInv'
    BY <1>2, <1>6, <1>9, <2>1, <2>2 DEF CheckInv
  <2>4. \A S \in SUBSET Vhds : Needed(S) => Needed(S)'
    <3>. SUFFICES ASSUME NEW S \in SUBSET Vhds, Needed(S) PROVE Needed(S)'
      OBVIOUS
    <3>. USE DEF Needed
    <3>1. Spared(S)
      BY <1>2, KeptSpares DEF SafeInv
    <3>2. v \notin S
      BY <1>7, <1>9 DEF SafeInv, Rooted, Exists
    <3>3. Rooted(S)'
      BY <3>1, SparedRooted DEF SafeInv
    <3>4. SafeInv(S)'
      BY <1>1, <1>2, <2>1, <3>2, <3>3 DEF SafeInv
    <3>. QED BY <1>1, <1>2, <3>1, <3>4, CleanKeeps
  <2>. QED BY <1>3, <1>4, <1>5, <2>3, <2>4
<1>10. CASE Exists(v)
  <2>. DEFINE p == parent[path[v]]
  <2>1. Opened' = Opened \cup {v}
    BY <1>2, <1>6, <1>10 DEF Opened
  <2>2. ~ IsDuplicate(v)
    <3>1. uuid[path[v]] = v
      BY <1>1, <1>7 DEF PathInv
    <3>2. ASSUME byId[v] # None PROVE FALSE
      <4>1. byId[v] \in Opened /\ uuid[path[byId[v]]] = v
        BY <1>2, <3>2 DEF CheckInv
      <4>2. uuid[path[byId[v]]] = byId[v]
        BY <1>1, <4>1 DEF PathInv, Opened, Exists
      <4>. QED BY <1>8, <4>1, <4>2
    <3>. QED BY <3>1, <3>2 DEF IsDuplicate
  <2>3. p # None => child[p] = None
    <3>. SUFFICES ASSUME p # None, child[p] # None PROVE FALSE
      OBVIOUS
    <3>1. p \in Vhds /\ path[v] # 1 /\ p = path[v] - 1
      BY <1>7, ParentOf
    <3>. DEFINE w == child[p]
    <3>2. w \in Opened /\ parent[path[w]] = p
      BY <1>2, <3>1 DEF CheckInv
    <3>3. w \in Vhds /\ path[w] # None /\ path[w] \in Vhds
      BY <3>2 DEF Opened, Exists, TypeInv, FileTypes
    <3>4. path[w] # 1 /\ p = path[w] - 1
      BY <3>1, <3>2, <3>3, ParentOf
    <3>5. path[w] = path[v]
      <4>1. path[v] \in Int /\ path[w] \in Int
        BY <1>7, <3>3
      <4>2. path[w] - 1 = path[v] - 1
        BY <3>1, <3>4
      <4>. HIDE DEF w
      <4>. QED BY <4>1, <4>2
    <3>6. w = v
      BY <3>3, <3>5 DEF PathInv
    <3>. QED BY <1>8, <3>2, <3>6
  <2>4. ~ SecondChild(v)
    BY <2>3 DEF SecondChild
  <2>5. /\ parents' = [parents EXCEPT ![v] = p]
        /\ child' = IF p # None THEN [child EXCEPT ![p] = v] ELSE child
        /\ byId' = [byId EXCEPT ![uuid[path[v]]] = v]
        /\ vhds' = vhds
    BY <1>10, <2>2, <2>3, <2>4 DEF CheckVhd
  <2>6. uuid[path[v]] = v
    BY <1>1, <1>7 DEF PathInv
  <2>7. p # None => p \in Vhds
    BY <1>7, ParentOf
  <2>. HIDE DEF p
  <2>8. \A u \in Vhds : parents'[u] = IF u \in Opened' THEN parent'[path'[u]] ELSE None
    <3>1. \A u \in Vhds : parents[u] = IF u \in Opened THEN parent[path[u]] ELSE None
      BY <1>2 DEF CheckInv
    <3>. QED BY <1>2, <2>1, <2>5, <3>1 DEF TypeInv, CheckTypes, p
  <2>9. \A q \in Vhds : child'[q] # None => child'[q] \in Opened' /\ parent'[path'[child'[q]]] = q
    <3>1. \A q \in Vhds : child[q] # None => child[q] \in Opened /\ parent[path[child[q]]] = q
      BY <1>2 DEF CheckInv
    <3>2. \A q \in Vhds : child'[q] = child[q] \/ (child'[q] = v /\ q = p)
      BY <2>5 DEF TypeInv, CheckTypes, Younger
    <3>. QED BY <1>2, <2>1, <3>1, <3>2 DEF p
  <2>10. \A u \in Opened' : parent'[path'[u]] # None => child'[parent'[path'[u]]] = u
    <3>1. \A u \in Opened : parent[path[u]] # None => child[parent[path[u]]] = u
      BY <1>2 DEF CheckInv
    <3>2. p # None => child'[p] = v
      BY <2>5, <2>7 DEF TypeInv, CheckTypes, Younger
    <3>3. \A u \in Opened : parent[path[u]] # None => parent[path[u]] # p
      BY <2>3, <3>1, <1>8 DEF Opened
    <3>4. \A q \in Vhds : q # p => child'[q] = child[q]
      BY <2>5 DEF TypeInv, CheckTypes, Younger
    <3>5. \A u \in Opened : parent[path[u]] # None => parent[path[u]] \in Vhds
      BY ParentOf DEF Opened, Exists, TypeInv, FileTypes
    <3>. QED BY <1>2, <2>1, <3>1, <3>2, <3>3, <3>4, <3>5 DEF p
  <2>11. \A u \in Vhds : byId'[u] # None => byId'[u] \in Opened' /\ uuid'[path'[byId'[u]]] = u
    <3>1. \A u \in Vhds : byId[u] # None => byId[u] \in Opened /\ uuid[path[byId[u]]] = u
      BY <1>2 DEF CheckInv
    <3>. QED BY <1>2, <2>1, <2>5, <2>6, <3>1 DEF TypeInv, CheckTypes
  <2>12. CheckInv'
    <3>1. /\ \A u \in pending' : u \in vhds' /\ path'[u] # None
          /\ \A u \in Vhds \ pending' : u \in vhds' <=> Exists(u)'
      BY <1>2, <1>6, <1>7, <1>10, <2>5 DEF CheckInv
    <3>. QED BY <1>2, <2>8, <2>9, <2>10, <2>11, <3>1 DEF CheckInv
  <2>13. \A S \in SUBSET Vhds : Needed(S) => Needed(S)'
    <3>. SUFFICES ASSUME NEW S \in SUBSET Vhds, Needed(S) PROVE Needed(S)'
      OBVIOUS
    <3>. USE DEF Needed
    <3>1. Spared(S)
      BY <1>2, KeptSpares DEF SafeInv
    <3>2. Rooted(S)'
      BY <3>1, SparedRooted DEF SafeInv
    <3>3. SafeInv(S)'
      BY <1>1, <1>2, <2>5, <3>2 DEF SafeInv
    <3>. QED BY <1>1, <1>2, <3>1, <3>3, CleanKeeps
  <2>. QED BY <1>3, <1>4, <1>5, <2>12, <2>13
<1>. QED BY <1>9, <1>10

\* The merge state of a VHD that was renamed is forgotten.
LEMMA StatesPhaseInv ==
  ASSUME TypeInv, Safety, EndCheck \/ EndStates \/ \E v \in Vhds : DropState(v)
  PROVE  Safety'
<1>. USE VhdsNat DEF Safety
<1>1. chain = <<>> /\ queue = <<>> /\ merged = {} /\ step = "none" /\ doomed = {}
  BY NotYet DEF EndCheck, EndStates, DropState, Calm
<1>2. /\ UNCHANGED <<queue, chain, opened, step, todo, resuming, stale, path, data, blocks, table, uuid, jsons,
                     original, parent, deleted, unused, doomed, merged, merge, vhds, pending, parents, child, byId>>
      /\ phase \in {"check", "states"} /\ phase' \in {"states", "aliases"}
  BY DEF merge, EndCheck, EndStates, DropState, repository, backups, checks
<1>3. Calm'
  BY <1>1, <1>2 DEF Calm
<1>4. PathInv'
  BY <1>2, PathKept
<1>5. Opened' = Opened /\ \A w \in Vhds : Exists(w)' <=> Exists(w)
  BY <1>2 DEF Opened, Exists
<1>6. pending = {}
  BY <1>2 DEF EndCheck, EndStates, DropState, CheckInv
<1>7. CheckInv'
  BY <1>2, <1>5, <1>6 DEF CheckInv
<1>8. StatesInv'
  <2>1. \A v \in Vhds : (states[v] # None => path[v] = None) /\ (resumed[v] = None <=> states[v] = None)
    BY <1>1, <1>2 DEF StatesInv
  <2>2. CASE EndCheck
    BY <1>1, <1>2, <2>1, <2>2 DEF StatesInv, EndCheck, repository, checks
  <2>3. ASSUME NEW v \in Vhds, DropState(v) PROVE StatesInv'
    <3>1. states' = [states EXCEPT ![v] = None] /\ resumed' = [resumed EXCEPT ![v] = None] /\ phase' = "states"
      BY <2>3 DEF DropState
    <3>2. \A w \in Vhds : /\ states'[w] = IF w = v THEN None ELSE states[w]
                          /\ resumed'[w] = IF w = v THEN None ELSE resumed[w]
      BY <3>1 DEF TypeInv, StateTypes, CheckTypes
    <3>. QED BY <1>1, <1>2, <2>1, <3>1, <3>2 DEF StatesInv
  <2>4. CASE EndStates
    <3>1. Interrupted \subseteq vhds /\ phase = "states" /\ UNCHANGED <<states, resumed>>
      BY <2>4 DEF EndStates, repository, checks
    <3>2. \A v \in Vhds : v \in vhds => path[v] # None
      BY <1>6, <3>1 DEF CheckInv, Exists
    <3>3. \A v \in Vhds : resumed[v] = None
      BY <2>1, <3>1, <3>2 DEF Interrupted
    <3>4. Interrupted' = {}
      BY <3>1, <3>3 DEF Interrupted
    <3>. QED BY <1>1, <1>2, <2>1, <3>1, <3>3, <3>4 DEF StatesInv
  <2>. QED BY <2>2, <2>3, <2>4
<1>9. ASSUME NEW S \in SUBSET Vhds, Needed(S) PROVE Needed(S)'
  <2>. USE DEF Needed
  <2>1. Spared(S)
    BY <1>2, <1>9, KeptSpares DEF SafeInv
  <2>2. Rooted(S)'
    BY <1>9, <2>1, SparedRooted DEF SafeInv
  <2>3. SafeInv(S)'
    BY <1>1, <1>2, <1>9, <2>2 DEF SafeInv
  <2>. QED BY <1>1, <1>2, <1>9, <2>1, <2>3, CleanKeeps
<1>. QED BY <1>3, <1>4, <1>7, <1>8, <1>9

\* What leads nowhere is needed by nothing.
LEMMA AliasesInv ==
  ASSUME TypeInv, Safety, NEW v \in Vhds, RemoveAlias(v) \/ RemoveData(v)
  PROVE  Safety'
<1>. USE VhdsNat DEF Safety
<1>1. chain = <<>> /\ queue = <<>> /\ merged = {} /\ step = "none" /\ phase = "aliases" /\ pending = {}
  BY NotYet DEF RemoveAlias, RemoveData, CheckInv
<1>2. UNCHANGED <<queue, chain, opened, step, todo, resuming, stale, table, uuid, jsons, states, resumed, phase,
                  original, parent, deleted, unused, doomed, merged, merge, vhds, pending, parents, child, byId>>
  BY DEF merge, RemoveAlias, RemoveData, run, backups, checks
<1>3. \A w \in Vhds : path'[w] = path[w] \/ (path'[w] = None /\ ~ Exists(w))
  BY DEF RemoveAlias, RemoveData, Unlink, Broken, Exists, TypeInv, FileTypes
<1>4. \A w \in Vhds : Exists(w) => path'[w] = path[w] /\ path[w] \in data' /\ blocks'[path[w]] = blocks[path[w]]
  <2>1. CASE RemoveAlias(v)
    <3>1. path' = [path EXCEPT ![v] = None] /\ ~ Exists(v) /\ UNCHANGED <<data, blocks>>
      BY <2>1 DEF RemoveAlias, Unlink, Broken, Exists
    <3>. QED BY <3>1 DEF Exists
  <2>2. CASE RemoveData(v)
    <3>1. path' = path /\ data' = data \ {v} /\ (\A w \in Vhds : path[w] # v)
          /\ blocks' = [blocks EXCEPT ![v] = [b \in Blocks |-> None]]
      BY <2>2 DEF RemoveData, EraseData, Unreferenced
    <3>. QED BY <3>1 DEF Exists, TypeInv, FileTypes
  <2>. QED BY <2>1, <2>2
<1>5. \A w \in Vhds : Exists(w)' <=> Exists(w)
  <2>1. data' \subseteq data
    BY DEF RemoveAlias, RemoveData, Unlink, EraseData
  <2>. QED BY <1>3, <1>4, <2>1 DEF Exists
<1>6. Opened' = Opened
  BY <1>2, <1>5 DEF Opened
<1>7. Calm'
  BY <1>2 DEF Calm
<1>8. PathInv'
  BY <1>2, <1>3, PathKept
<1>9. StatesInv'
  BY <1>1, <1>2 DEF StatesInv, Interrupted
<1>10. CheckInv'
  <2>1. \A w \in Opened : path'[w] = path[w]
    BY <1>4 DEF Opened
  <2>. QED BY <1>1, <1>2, <1>5, <1>6, <2>1 DEF CheckInv
<1>11. ASSUME NEW S \in SUBSET Vhds, Needed(S) PROVE Needed(S)'
  <2>. USE DEF Needed
  <2>1. \A w \in S : Exists(w)
    BY <1>11 DEF SafeInv, Rooted, Exists, TypeInv, FileTypes
  <2>2. Spared(S)
    BY <1>2, <1>3, <1>4, <2>1 DEF Spared
  <2>3. Rooted(S)'
    BY <1>11, <2>2, SparedRooted DEF SafeInv
  <2>4. SafeInv(S)'
    BY <1>2, <1>11, <2>3 DEF SafeInv
  <2>. QED BY <1>2, <1>11, <2>2, <2>4, CleanKeeps
<1>. QED BY <1>7, <1>8, <1>9, <1>10, <1>11

\* An orphan is a VHD whose parent is an orphan or is not there.
LEMMA OrphanDef ==
  ASSUME parents \in [Vhds -> Vhds \cup {None}], \A v \in Vhds : parents[v] # None => parents[v] < v
  PROVE  \A v \in Vhds : IsOrphan[v] <=> parents[v] # None /\ (IsOrphan[parents[v]] \/ parents[v] \notin vhds)
<1>. DEFINE P(f) == f = [v \in Vhds |-> parents[v] # None /\ (f[parents[v]] \/ parents[v] \notin vhds)]
            go == {v \in Vhds : parents[v] # None}
            rank == [v \in Vhds |-> v]
            leaf == [v \in Vhds |-> FALSE]
            through == [v \in Vhds |-> [o \in BOOLEAN |-> o \/ parents[v] \notin vhds]]
<1>1. IsOrphan = CHOOSE f : P(f)
  BY DEF IsOrphan
<1>2. Descends(Vhds, NVhds + 1, rank, go, parents)
  <2>1. NVhds \in Nat /\ \A v \in Vhds : v \in Nat /\ v >= 1 /\ v <= NVhds
    BY Bounds, VhdsNat
  <2>2. rank \in [Vhds -> Nat] /\ \A v \in Vhds : rank[v] < NVhds + 1
    BY <2>1
  <2>3. \A v \in go : parents[v] \in Vhds /\ rank[parents[v]] < rank[v]
    OBVIOUS
  <2>. HIDE DEF rank
  <2>. QED BY <2>1, <2>2, <2>3 DEF Descends
<1>3. leaf \in [Vhds -> BOOLEAN]
  BY Zenon
<1>4. through \in [Vhds -> [BOOLEAN -> BOOLEAN]]
  BY Zenon
<1>5. \A v \in Vhds : ~ leaf[v] /\ \A o \in BOOLEAN : through[v][o] = (o \/ parents[v] \notin vhds)
  BY Zenon
<1>. HIDE DEF leaf, through, rank
<1>6. PICK f \in [Vhds -> BOOLEAN] : Solves(f, Vhds, go, parents, leaf, through)
  BY <1>2, <1>3, <1>4, Descent
<1>7. \A v \in Vhds : f[v] = (parents[v] # None /\ (f[parents[v]] \/ parents[v] \notin vhds))
  <2>. SUFFICES ASSUME NEW v \in Vhds
                PROVE  f[v] = (parents[v] # None /\ (f[parents[v]] \/ parents[v] \notin vhds))
    OBVIOUS
  <2>1. f[v] = IF v \in go THEN through[v][f[parents[v]]] ELSE leaf[v]
    BY <1>6 DEF Solves
  <2>2. f[v] \in BOOLEAN
    OBVIOUS
  <2>3. CASE parents[v] # None
    <3>1. parents[v] \in Vhds
      BY <2>3
    <3>2. f[parents[v]] \in BOOLEAN
      BY <3>1
    <3>3. f[v] = (f[parents[v]] \/ parents[v] \notin vhds)
      BY <1>5, <2>1, <2>3, <3>2, Zenon
    <3>. QED BY <2>3, <3>3, Zenon
  <2>4. CASE parents[v] = None
    <3>1. ~ f[v]
      BY <1>5, <2>1, <2>4, Zenon
    <3>. QED BY <2>2, <2>4, <3>1, Zenon
  <2>. QED BY <2>3, <2>4
<1>8. P(f)
  BY <1>7, Zenon
<1>. HIDE DEF P
<1>9. P(IsOrphan)
  BY <1>1, <1>8, Zenon
<1>10. IsOrphan = [v \in Vhds |-> parents[v] # None /\ (IsOrphan[parents[v]] \/ parents[v] \notin vhds)]
  BY <1>9 DEF P
<1>. HIDE DEF IsOrphan
<1>. QED BY <1>10, Zenon

\* The VHDs that are left are those whose ancestors are all there; S is among them.
LEMMA FindOrphansInv ==
  ASSUME TypeInv, Safety, FindOrphans
  PROVE  Safety'
<1>. USE VhdsNat DEF Safety
<1>. DEFINE orphans == {v \in Vhds : IsOrphan[v]}
<1>1. chain = <<>> /\ queue = <<>> /\ merged = {} /\ step = "none" /\ phase = "aliases" /\ pending = {} /\ doomed = {}
  BY NotYet DEF FindOrphans, CheckInv, Calm
<1>2. /\ UNCHANGED <<queue, chain, opened, step, todo, resuming, stale, path, data, blocks, table, uuid, jsons, states, resumed,
                     original, parent, deleted, unused, merged, merge, pending, parents, child, byId>>
      /\ vhds' = vhds \ orphans /\ doomed' = orphans /\ phase' = "orphans"
  BY <1>1 DEF merge, FindOrphans, repository, backups, checks
<1>3. \A v \in Vhds : v \in vhds <=> Exists(v)
  BY <1>1 DEF CheckInv
<1>4. \A v \in Vhds : v \in vhds => path[v] \in Vhds
  BY <1>3 DEF Exists, TypeInv, FileTypes
<1>5. \A v \in Vhds : parents[v] = IF v \in vhds /\ path[v] # 1 THEN path[v] - 1 ELSE None
  <2>1. \A v \in Vhds : parents[v] = IF v \in vhds THEN parent[path[v]] ELSE None
    BY <1>1, <1>3 DEF CheckInv, Opened
  <2>. QED BY <1>4, <2>1, ParentOf
<1>6. \A v \in Vhds : parents[v] # None => parents[v] \in Vhds /\ parents[v] < v
  <2>1. \A v \in vhds : path[v] # 1 => path[v] - 1 \in Vhds /\ path[v] <= v /\ path[v] \in Int /\ v \in Int
    BY <1>3, <1>4, ParentOf DEF Exists, TypeInv, FileTypes, CheckTypes
  <2>. QED BY <1>5, <2>1
<1>7. \A v \in Vhds : IsOrphan[v] <=> parents[v] # None /\ (IsOrphan[parents[v]] \/ parents[v] \notin vhds)
  BY <1>6, OrphanDef DEF TypeInv, CheckTypes
<1>8. ASSUME NEW S \in SUBSET Vhds, Rooted(S) PROVE S \subseteq vhds \ orphans
  <2>1. \A v \in S : v \in vhds
    BY <1>3, <1>8 DEF Rooted, Exists, TypeInv, FileTypes
  <2>. DEFINE Bad == {v \in S : IsOrphan[v]}
  <2>2. ASSUME Bad # {} PROVE FALSE
    <3>1. PICK v \in Bad : \A w \in Bad : v <= w
      <4>1. Bad \in SUBSET Nat
        OBVIOUS
      <4>. HIDE DEF Bad
      <4>. QED BY <2>2, <4>1, Smallest
    <3>2. v \in Vhds /\ parents[v] # None /\ parents[v] = path[v] - 1 /\ parents[v] < v /\ path[v] # 1
      BY <1>5, <1>6, <1>7
    <3>3. parents[v] \in S
      BY <1>8, <3>2 DEF Rooted
    <3>4. parents[v] \in Bad
      BY <1>7, <2>1, <3>2, <3>3
    <3>5. v <= parents[v] /\ v \in Nat /\ parents[v] \in Nat
      BY <3>1, <3>2, <3>3, <3>4
    <3>. QED BY <3>2, <3>5
  <2>. QED BY <2>1, <2>2
<1>9. Calm'
  BY <1>1, <1>2 DEF Calm
<1>10. PathInv'
  BY <1>2, PathKept
<1>11. StatesInv'
  BY <1>1, <1>2 DEF StatesInv, Interrupted
<1>12. CheckInv'
  <2>1. \A p \in Vhds : child[p] # None => child[p] \in vhds /\ parents[child[p]] = p
    BY <1>1, <1>3 DEF CheckInv, Opened
  <2>2. \A v \in vhds : path[v] # 1 => child[path[v] - 1] = v
    <3>. SUFFICES ASSUME NEW v \in vhds, path[v] # 1 PROVE child[path[v] - 1] = v
      OBVIOUS
    <3>1. v \in Vhds /\ v \in Opened /\ path[v] \in Vhds
      BY <1>1, <1>3, <1>4 DEF Opened, TypeInv, CheckTypes
    <3>2. parent[path[v]] = path[v] - 1 /\ path[v] - 1 # None
      BY <3>1, ParentOf
    <3>. QED BY <1>1, <3>1, <3>2 DEF CheckInv
  <2>3. ASSUME NEW v \in vhds', child[v] # None PROVE child[v] \in vhds' /\ path[child[v]] = v + 1
    <3>1. v \in Vhds /\ v \in vhds /\ ~ IsOrphan[v]
      BY <1>2, <2>3 DEF TypeInv, CheckTypes
    <3>2. child[v] \in vhds /\ child[v] \in Vhds /\ parents[child[v]] = v
      BY <2>1, <2>3, <3>1 DEF TypeInv, CheckTypes
    <3>3. ~ IsOrphan[child[v]]
      <4>. DEFINE w == child[v]
      <4>1. w \in Vhds /\ parents[w] = v
        BY <3>2
      <4>. HIDE DEF w
      <4>2. IsOrphan[w] => IsOrphan[v] \/ v \notin vhds
        BY <1>7, <4>1, Zenon
      <4>. QED BY <3>1, <4>2, Zenon DEF w
    <3>4. path[child[v]] - 1 = v /\ path[child[v]] \in Int
      BY <1>4, <1>5, <3>1, <3>2
    <3>. QED BY <1>2, <3>1, <3>2, <3>3, <3>4
  <2>. QED BY <1>2, <2>2, <2>3 DEF CheckInv
<1>13. ASSUME NEW S \in SUBSET Vhds, Needed(S) PROVE Needed(S)'
  <2>. USE DEF Needed
  <2>1. Spared(S)
    BY <1>2, <1>13, KeptSpares DEF SafeInv
  <2>2. S \subseteq vhds \ orphans
    BY <1>8, <1>13 DEF SafeInv
  <2>3. Rooted(S)'
    BY <1>13, <2>1, SparedRooted DEF SafeInv
  <2>. HIDE DEF orphans
  <2>4. SafeInv(S)'
    BY <1>1, <1>2, <1>13, <2>2, <2>3 DEF SafeInv
  <2>. QED BY <1>2, <1>13, <2>1, <2>4, CleanKeeps
<1>. QED BY <1>9, <1>10, <1>11, <1>12, <1>13

LEMMA UnlinkVhdInv ==
  ASSUME TypeInv, Safety, NEW v \in Vhds, UnlinkVhd(v)
  PROVE  Safety'
<1>. USE VhdsNat DEF Safety
<1>1. /\ UNCHANGED <<queue, chain, opened, step, todo, resuming, stale, table, uuid, jsons, states, resumed, phase, vhds,
                     original, parent, deleted, unused, merged, merge, pending, parents, child, byId>>
      /\ v \in doomed /\ doomed' \subseteq doomed /\ Unlink(v)
  BY DEF UnlinkVhd, merge, backups, checks
<1>2. phase \in {"orphans", "work"}
  BY <1>1 DEF Calm
<1>3. \A w \in Vhds : path'[w] = path[w] \/ (path'[w] = None /\ w = v)
  BY <1>1 DEF Unlink, TypeInv, FileTypes
<1>4. Calm'
  BY <1>1 DEF Calm
<1>5. PathInv'
  BY <1>1, <1>3, PathKept
<1>6. StatesInv'
  <2>1. Ancestor' = Ancestor /\ Interrupted' = Interrupted
    BY <1>1 DEF Ancestor, Interrupted
  <2>2. step \in {"oldTarget", "children"} => path'[Ancestor] = None
    <3>1. step \in {"oldTarget", "children"} => Ancestor \in Vhds
      BY DEF TypeInv, QueueTypes, IsChain, Ancestor
    <3>. QED BY <1>3, <3>1 DEF StatesInv
  <2>. QED BY <1>1, <1>2, <2>1, <2>2 DEF StatesInv
<1>7. CheckInv'
  <2>1. phase = "orphans" => \A w \in vhds : path'[w] = path[w]
    <3>1. phase = "orphans" => v \notin vhds
      BY <1>1 DEF CheckInv
    <3>. QED BY <1>3, <3>1 DEF TypeInv, CheckTypes
  <2>2. phase' = "orphans" =>
         /\ doomed' \cap vhds' = {}
         /\ \A w \in vhds' : child'[w] # None => child'[w] \in vhds' /\ path'[child'[w]] = w + 1
         /\ \A w \in vhds' : path'[w] # 1 => child'[path'[w] - 1] = w
    <3>. SUFFICES ASSUME phase' = "orphans"
                  PROVE  /\ doomed' \cap vhds' = {}
                         /\ \A w \in vhds' : child'[w] # None => child'[w] \in vhds' /\ path'[child'[w]] = w + 1
                         /\ \A w \in vhds' : path'[w] # 1 => child'[path'[w] - 1] = w
      OBVIOUS
    <3>1. phase = "orphans" /\ \A w \in vhds : path'[w] = path[w]
      BY <1>1, <2>1
    <3>. QED BY <1>1, <3>1 DEF CheckInv
  <2>. QED BY <1>1, <1>2, <2>2 DEF CheckInv
<1>8. ASSUME NEW S \in SUBSET Vhds, Needed(S) PROVE Needed(S)'
  <2>. USE DEF Needed
  <2>1. v \in Vhds \ S /\ Rooted(S)
    BY <1>1, <1>8 DEF SafeInv
  <2>2. Spared(S)
    BY <1>1, <2>1, UnlinkSpares
  <2>3. Rooted(S)'
    BY <2>1, <2>2, SparedRooted
  <2>4. SafeInv(S)'
    BY <1>1, <1>8, <2>3 DEF SafeInv
  <2>. QED BY <1>1, <1>8, <2>2, <2>4, CleanKeeps
<1>. QED BY <1>4, <1>5, <1>6, <1>7, <1>8

\* A backup that is listed is never incomplete: its metadata is kept.
LEMMA JsonsInv ==
  ASSUME TypeInv, Safety, ListJsons \/ \E k \in Vhds : ReadJson(k)
  PROVE  Safety'
<1>. USE VhdsNat DEF Safety
<1>1. chain = <<>> /\ queue = <<>> /\ merged = {} /\ step = "none" /\ doomed = {}
  BY NotYet DEF ListJsons, ReadJson, Calm
<1>2. /\ UNCHANGED <<queue, chain, opened, step, todo, resuming, stale, path, data, blocks, table, uuid, states, resumed,
                     original, parent, deleted, merged, merge, vhds, doomed, parents, child, byId>>
      /\ phase \in {"orphans", "jsons"} /\ phase' = "jsons"
  BY DEF merge, ListJsons, ReadJson, repository, backups
<1>3. Calm'
  BY <1>1, <1>2 DEF Calm
<1>4. PathInv'
  BY <1>2, PathKept
<1>5. StatesInv'
  BY <1>1, <1>2 DEF StatesInv, Interrupted
<1>6. CheckInv'
  <2>1. unused' \subseteq vhds'
    BY <1>2 DEF ListJsons, ReadJson, CheckInv
  <2>. QED BY <1>1, <1>2, <2>1 DEF CheckInv
<1>7. ASSUME NEW S \in SUBSET Vhds, Needed(S) PROVE Needed(S)'
  <2>. USE DEF Needed
  <2>1. Spared(S)
    BY <1>2, <1>7, KeptSpares DEF SafeInv
  <2>2. Rooted(S)'
    BY <1>7, <2>1, SparedRooted DEF SafeInv
  <2>3. CASE ListJsons
    <3>1. jsons' = jsons /\ pending' = jsons /\ unused' = vhds
      BY <2>3 DEF ListJsons, repository
    <3>2. SafeInv(S)'
      BY <1>1, <1>2, <1>7, <2>2, <3>1 DEF SafeInv
    <3>. QED BY <1>1, <1>2, <1>7, <2>1, <3>2, CleanKeeps
  <2>4. ASSUME NEW k \in Vhds, ReadJson(k) PROVE Needed(S)'
    <3>0. jsons \subseteq S /\ S \subseteq vhds /\ phase = "jsons"
      BY <1>7, <2>4 DEF SafeInv, ReadJson
    <3>1. /\ pending' = pending \ {k} /\ jsons' = jsons
          /\ unused' = IF k \in jsons THEN unused \ {k} ELSE unused
      BY <2>4, <3>0 DEF ReadJson
    <3>2. vhds' \ unused' \subseteq S
      BY <1>2, <1>7, <3>0, <3>1 DEF SafeInv
    <3>3. jsons' \subseteq pending' \cup (vhds' \ unused')
      BY <1>2, <1>7, <3>0, <3>1 DEF SafeInv
    <3>4. SafeInv(S)'
      BY <1>1, <1>2, <1>7, <2>2, <3>1, <3>2, <3>3 DEF SafeInv
    <3>. QED BY <1>1, <1>2, <1>7, <2>1, <3>4, CleanKeeps
  <2>. QED BY <2>3, <2>4
<1>. QED BY <1>3, <1>4, <1>5, <1>6, <1>7

LEMMA EndRunInv ==
  ASSUME TypeInv, Safety, EndRun
  PROVE  Safety'
<1>. USE VhdsNat DEF Safety
<1>1. /\ UNCHANGED <<queue, chain, opened, step, todo, resuming, stale, path, data, blocks, table, uuid, states, resumed,
                     original, parent, deleted, unused, merge, vhds, doomed, pending, parents, child, byId>>
      /\ phase = "work" /\ phase' = "idle" /\ doomed = {} /\ merged' = {} /\ jsons' = jsons \cup merged
      /\ Unmerged = stale
  BY DEF merge, EndRun, backups, checks
<1>2. chain = <<>> /\ queue = <<>>
  <2>1. Len(queue) \in Nat /\ queue \in Seq(Seq(Vhds))
    BY DEF TypeInv, QueueTypes
  <2>. QED BY <1>1, <2>1 DEF Calm, Unmerged
<1>3. Calm'
  BY <1>1, <1>2 DEF Calm
<1>4. PathInv'
  BY <1>1, PathKept
<1>5. StatesInv'
  BY <1>1, <1>2 DEF StatesInv, TypeInv, QueueTypes
<1>6. CheckInv'
  BY <1>1 DEF CheckInv
<1>7. ASSUME NEW S \in SUBSET Vhds, Needed(S) PROVE Needed(S)'
  <2>. USE DEF Needed
  <2>1. Spared(S)
    BY <1>1, <1>7, KeptSpares DEF SafeInv
  <2>2. Rooted(S)'
    BY <1>7, <2>1, SparedRooted DEF SafeInv
  <2>3. SafeInv(S)'
    BY <1>1, <1>7, <2>2 DEF SafeInv
  <2>. QED BY <1>1, <1>7, <2>1, <2>3, CleanKeeps
<1>. QED BY <1>3, <1>4, <1>5, <1>6, <1>7

LEMMA DeleteBackupInv ==
  ASSUME TypeInv, Safety, NEW k \in Vhds, DeleteBackup(k)
  PROVE  Safety'
<1>. USE VhdsNat DEF Safety
<1>1. /\ UNCHANGED <<queue, chain, opened, step, todo, resuming, stale, path, data, blocks, table, uuid, states, resumed,
                     phase, merged, original, parent, unused, merge, vhds, doomed, pending, parents, child, byId>>
      /\ jsons' \subseteq jsons
  BY DEF merge, run, DeleteBackup, checks
<1>2. Calm' /\ PathInv'
  BY <1>1, PathKept DEF Calm
<1>3. StatesInv'
  BY <1>1 DEF StatesInv, Interrupted, Ancestor
<1>4. CheckInv'
  <2>1. Opened' = Opened /\ \A w \in Vhds : Exists(w)' <=> Exists(w)
    BY <1>1 DEF Opened, Exists
  <2>. QED BY <1>1, <2>1 DEF CheckInv
<1>5. ASSUME NEW S \in SUBSET Vhds, Needed(S) PROVE Needed(S)'
  <2>. USE DEF Needed
  <2>1. Spared(S)
    BY <1>1, <1>5, KeptSpares DEF SafeInv
  <2>2. Rooted(S)'
    BY <1>5, <2>1, SparedRooted DEF SafeInv
  <2>3. SafeInv(S)'
    BY <1>1, <1>5, <2>2 DEF SafeInv
  <2>. QED BY <1>1, <1>5, <2>1, <2>3, CleanKeeps
<1>. QED BY <1>2, <1>3, <1>4, <1>5

-----------------------------------------------------------------------------
(* The chains that cleanVm() finds. *)

\* A chain in S: unused VHDs, each the parent of the next, and a used one.
Links(c, v, S) ==
    /\ c \in Seq(Vhds) /\ Len(c) > 0 /\ c[1] = v
    /\ \A i \in 1 .. Len(c) : c[i] \in S
    /\ \A i \in 1 .. (Len(c) - 1) :
           c[i] \in unused /\ child[c[i]] = c[i + 1] /\ path[c[i + 1]] = c[i] + 1
    /\ c[Len(c)] \notin unused

LEMMA ChainLinks ==
  ASSUME TypeInv, CheckInv, phase = "jsons",
         NEW S \in SUBSET Vhds, Rooted(S), S \subseteq vhds, vhds \ unused \subseteq S
  PROVE  \A v \in vhds : UsedChildChain[v] # <<>> => Links(UsedChildChain[v], v, S \ Unneeded)
<1>. USE VhdsNat
<1>. DEFINE Good(v) == v \in vhds /\ UsedChildChain[v] # <<>> => Links(UsedChildChain[v], v, S \ Unneeded)
            T == {n \in Nat : \A v \in Vhds : v > NVhds - n => Good(v)}
<1>0. Younger(child)
  BY DEF TypeInv, CheckTypes
<1>1. 0 \in T
  <2>1. \A v \in Vhds : ~ (v > NVhds - 0)
    BY Bounds
  <2>. HIDE DEF Good
  <2>. QED BY <2>1
<1>2. ASSUME NEW n \in Nat, n \in T PROVE n + 1 \in T
  <2>. SUFFICES ASSUME NEW v \in Vhds, v > NVhds - (n + 1) PROVE Good(v)
    <3>. HIDE DEF Good
    <3>. QED OBVIOUS
  <2>. SUFFICES ASSUME v \in vhds, UsedChildChain[v] # <<>>
                PROVE  Links(UsedChildChain[v], v, S \ Unneeded)
    OBVIOUS
  <2>0. v \in Nat /\ NVhds \in Nat
    BY Bounds
  <2>1. CASE v \notin unused
    <3>1. UsedChildChain[v] = <<v>> /\ v \in S \ Unneeded
      BY <1>0, <2>1, ChildChainDef DEF Unneeded
    <3>2. Len(<<v>>) = 1 /\ <<v>> \in Seq(Vhds)
      OBVIOUS
    <3>. QED BY <2>1, <3>1, <3>2 DEF Links
  <2>2. CASE v \in unused
    <3>. DEFINE w == child[v]
                d == UsedChildChain[w]
                c == <<v>> \o d
    <3>1. w # None /\ d # <<>> /\ UsedChildChain[v] = c
      BY <1>0, <2>2, ChildChainDef
    <3>2. w \in Vhds /\ w > v /\ w \in vhds /\ path[w] = v + 1
      BY <1>0, <3>1 DEF Younger, CheckInv
    <3>3. w > NVhds - n
      <4>1. w \in Nat
        BY <3>2
      <4>. HIDE DEF w
      <4>. QED BY <2>0, <3>2, <4>1
    <3>4. Links(d, w, S \ Unneeded)
      BY <1>2, <3>1, <3>2, <3>3
    <3>. HIDE DEF w, d
    <3>5. d \in Seq(Vhds) /\ Len(d) \in Nat /\ Len(d) > 0 /\ d[1] = w
      BY <3>4 DEF Links
    <3>6. /\ c \in Seq(Vhds) /\ Len(c) = Len(d) + 1 /\ c[1] = v
          /\ \A i \in 1 .. Len(d) : c[i + 1] = d[i]
      BY <3>5
    <3>7. v \in S \ Unneeded
      <4>1. w \in S
        <5>1. 1 \in 1 .. Len(d)
          BY <3>5
        <5>. QED BY <3>4, <3>5, <5>1 DEF Links
      <4>2. path[w] # 1 /\ path[w] - 1 = v
        BY <2>0, <3>2
      <4>3. v \in S
        BY <4>1, <4>2 DEF Rooted
      <4>. QED BY <4>3 DEF Unneeded
    <3>. HIDE DEF c
    <3>8. \A i \in 1 .. Len(c) : c[i] \in S \ Unneeded
      <4>. SUFFICES ASSUME NEW i \in 1 .. Len(c) PROVE c[i] \in S \ Unneeded
        OBVIOUS
      <4>1. CASE i = 1
        BY <3>6, <3>7, <4>1
      <4>2. CASE i # 1
        <5>1. i - 1 \in 1 .. Len(d) /\ (i - 1) + 1 = i
          BY <3>5, <3>6, <4>2
        <5>2. c[i] = d[i - 1]
          BY <3>6, <5>1
        <5>3. d[i - 1] \in S \ Unneeded
          BY <3>4, <5>1 DEF Links
        <5>. QED BY <5>2, <5>3
      <4>. QED BY <4>1, <4>2
    <3>9. \A i \in 1 .. (Len(c) - 1) : c[i] \in unused /\ child[c[i]] = c[i + 1] /\ path[c[i + 1]] = c[i] + 1
      <4>. SUFFICES ASSUME NEW i \in 1 .. (Len(c) - 1)
                    PROVE  c[i] \in unused /\ child[c[i]] = c[i + 1] /\ path[c[i + 1]] = c[i] + 1
        OBVIOUS
      <4>1. CASE i = 1
        <5>1. c[i] = v /\ c[i + 1] = w
          BY <3>5, <3>6, <4>1
        <5>. QED BY <2>2, <3>2, <5>1 DEF w
      <4>2. CASE i # 1
        <5>1. i - 1 \in 1 .. (Len(d) - 1) /\ (i - 1) + 1 = i /\ i - 1 \in 1 .. Len(d) /\ i \in 1 .. Len(d)
          BY <3>5, <3>6, <4>2
        <5>2. c[i] = d[i - 1] /\ c[i + 1] = d[i]
          BY <3>6, <5>1
        <5>3. d[i - 1] \in unused /\ child[d[i - 1]] = d[i] /\ path[d[i]] = d[i - 1] + 1
          BY <3>4, <5>1 DEF Links
        <5>. QED BY <5>2, <5>3
      <4>. QED BY <4>1, <4>2
    <3>10. c[Len(c)] \notin unused
      <4>1. Len(d) \in 1 .. Len(d) /\ d[Len(d)] \notin unused
        BY <3>4, <3>5 DEF Links
      <4>. QED BY <3>6, <4>1
    <3>11. Links(c, v, S \ Unneeded)
      BY <3>5, <3>6, <3>8, <3>9, <3>10 DEF Links
    <3>. QED BY <3>1, <3>11
  <2>. QED BY <2>1, <2>2
<1>. HIDE DEF T
<1>3. NVhds \in T
  BY <1>1, <1>2, NatInduct, Bounds
<1>4. \A v \in Vhds : v > NVhds - NVhds
  BY Bounds
<1>5. \A v \in Vhds : Good(v)
  BY <1>3, <1>4 DEF T
<1>. QED BY <1>5 DEF TypeInv, CheckTypes

\* Two chains have no VHD in common: going down from one that they share, they
\* would have the same head.
LEMMA ChainsDisjoint ==
  ASSUME TypeInv, NEW S, NEW v \in Heads, NEW w \in Heads, v # w, NEW c, NEW d,
         Links(c, v, S), Links(d, w, S)
  PROVE  Elems(c) \cap Elems(d) = {}
<1>. USE VhdsNat
<1>. DEFINE T == Elems(c) \cap Elems(d)
<1>1. Len(c) \in Nat /\ Len(d) \in Nat /\ \A i \in 1 .. Len(c) : c[i] \in Vhds
  BY DEF Links
<1>2. ASSUME T # {} PROVE FALSE
  <2>1. PICK x \in T : \A y \in T : x <= y
    <3>1. T \in SUBSET Nat
      BY <1>1 DEF Elems
    <3>. HIDE DEF T
    <3>. QED BY <1>2, <3>1, Smallest
  <2>2. PICK i \in 1 .. Len(c), j \in 1 .. Len(d) : x = c[i] /\ x = d[j]
    BY DEF Elems
  <2>3. i = 1 => x = v
    BY <2>2 DEF Links
  <2>4. j = 1 => x = w
    BY <2>2 DEF Links
  <2>5. i # 1 => /\ i - 1 \in 1 .. Len(c) /\ c[i - 1] \in unused /\ child[c[i - 1]] = x
                 /\ path[x] = c[i - 1] + 1 /\ c[i - 1] \in Vhds
    <3>. SUFFICES ASSUME i # 1
                  PROVE  /\ i - 1 \in 1 .. Len(c) /\ c[i - 1] \in unused /\ child[c[i - 1]] = x
                         /\ path[x] = c[i - 1] + 1 /\ c[i - 1] \in Vhds
      OBVIOUS
    <3>1. i - 1 \in 1 .. (Len(c) - 1) /\ i - 1 \in 1 .. Len(c) /\ (i - 1) + 1 = i
      BY <1>1
    <3>2. c[i - 1] \in unused /\ child[c[i - 1]] = c[i] /\ path[c[i]] = c[i - 1] + 1
      <4>1. \A l \in 1 .. (Len(c) - 1) : c[l] \in unused /\ child[c[l]] = c[l + 1] /\ path[c[l + 1]] = c[l] + 1
        BY DEF Links
      <4>. QED BY <3>1, <4>1
    <3>. QED BY <1>1, <2>2, <3>1, <3>2
  <2>6. j # 1 => /\ j - 1 \in 1 .. Len(d) /\ d[j - 1] \in unused /\ child[d[j - 1]] = x
                 /\ path[x] = d[j - 1] + 1 /\ d[j - 1] \in Vhds
    <3>. SUFFICES ASSUME j # 1
                  PROVE  /\ j - 1 \in 1 .. Len(d) /\ d[j - 1] \in unused /\ child[d[j - 1]] = x
                         /\ path[x] = d[j - 1] + 1 /\ d[j - 1] \in Vhds
      OBVIOUS
    <3>1. j - 1 \in 1 .. (Len(d) - 1) /\ j - 1 \in 1 .. Len(d) /\ (j - 1) + 1 = j
      BY <1>1
    <3>2. d[j - 1] \in Vhds
      BY <3>1 DEF Links
    <3>3. d[j - 1] \in unused /\ child[d[j - 1]] = d[j] /\ path[d[j]] = d[j - 1] + 1
      <4>1. \A l \in 1 .. (Len(d) - 1) : d[l] \in unused /\ child[d[l]] = d[l + 1] /\ path[d[l + 1]] = d[l] + 1
        BY DEF Links
      <4>. QED BY <3>1, <4>1
    <3>. QED BY <2>2, <3>1, <3>2, <3>3
  <2>7. CASE i # 1 /\ j # 1
    <3>1. c[i - 1] = d[j - 1]
      <4>1. c[i - 1] \in Int /\ d[j - 1] \in Int
        BY <2>5, <2>6, <2>7
      <4>2. c[i - 1] + 1 = d[j - 1] + 1
        BY <2>5, <2>6, <2>7
      <4>. QED BY <4>1, <4>2
    <3>2. c[i - 1] \in T
      BY <2>5, <2>6, <2>7, <3>1 DEF Elems
    <3>3. x > c[i - 1]
      <4>1. c[i - 1] \in Vhds /\ child[c[i - 1]] = x /\ x # None
        BY <1>1, <2>2, <2>5, <2>7
      <4>. QED BY <4>1 DEF TypeInv, CheckTypes, Younger
    <3>. HIDE DEF T
    <3>4. x <= c[i - 1] /\ x \in Int /\ c[i - 1] \in Int
      BY <1>1, <2>1, <2>2, <2>5, <2>7, <3>2
    <3>. QED BY <3>3, <3>4
  <2>8. CASE i = 1 /\ j # 1
    BY <2>3, <2>6, <2>8 DEF Heads
  <2>9. CASE i # 1 /\ j = 1
    BY <2>4, <2>5, <2>9 DEF Heads
  <2>10. CASE i = 1 /\ j = 1
    BY <2>3, <2>4, <2>10
  <2>. QED BY <2>7, <2>8, <2>9, <2>10
<1>. QED BY <1>2

\* Without an interrupted merge, the chains to merge are those of the heads, each once.
LEMMA ToMergeHeads ==
  ASSUME TypeInv, Interrupted = {}
  PROVE  /\ ToMerge \in Seq(Seq(Vhds))
         /\ \A i \in 1 .. Len(ToMerge) : \E v \in Heads : ToMerge[i] = UsedChildChain[v]
         /\ \A i, j \in 1 .. Len(ToMerge) : i # j =>
                \E v, w \in Heads : v # w /\ ToMerge[i] = UsedChildChain[v] /\ ToMerge[j] = UsedChildChain[w]
<1>. USE VhdsNat
<1>. DEFINE a == InOrder(Heads)
            z == InOrder(Interrupted \ Heads)
            n == Cardinality(Heads)
<1>1. Heads \in SUBSET Vhds /\ Interrupted \ Heads = {}
  BY DEF Heads, TypeInv, CheckTypes
<1>2. n \in Nat /\ a \in [1 .. n -> Heads] /\ \A i, j \in 1 .. n : i < j => a[i] < a[j]
  BY <1>1, InOrderType
<1>3. z \in Seq({}) /\ Len(z) = 0
  <2>1. Cardinality({}) = 0
    BY FS_EmptySet
  <2>2. {} \in SUBSET Vhds
    OBVIOUS
  <2>3. InOrder({}) \in [1 .. 0 -> {}]
    BY <2>1, <2>2, InOrderType
  <2>. QED BY <1>1, <2>3, IsSeq
<1>4. a \in Seq(Heads) /\ Len(a) = n
  <2>. HIDE DEF a, n
  <2>. QED BY <1>2, IsSeq
<1>5. ToMerge = [i \in DOMAIN (a \o z) |-> ChainOf((a \o z)[i])]
  BY DEF ToMerge
<1>. HIDE DEF a, z, n
<1>6. a \o z = a
  BY <1>3, <1>4
<1>7. ToMerge = [i \in 1 .. n |-> UsedChildChain[a[i]]]
  BY <1>2, <1>5, <1>6 DEF ChainOf
<1>8. ToMerge \in Seq(Seq(Vhds))
  BY ToMergeType DEF TypeInv, CheckTypes
<1>9. Len(ToMerge) = n
  BY <1>2, <1>7, <1>8
<1>10. \A i, j \in 1 .. n : i # j => a[i] # a[j]
  <2>. SUFFICES ASSUME NEW i \in 1 .. n, NEW j \in 1 .. n, i # j PROVE a[i] # a[j]
    OBVIOUS
  <2>1. a[i] \in Int /\ a[j] \in Int
    BY <1>1, <1>2
  <2>2. i < j => a[i] < a[j]
    BY <1>2
  <2>3. j < i => a[j] < a[i]
    BY <1>2
  <2>4. i < j \/ j < i
    BY <1>2
  <2>. QED BY <2>1, <2>2, <2>3, <2>4
<1>11. \A i \in 1 .. n : a[i] \in Heads /\ ToMerge[i] = UsedChildChain[a[i]]
  BY <1>2, <1>7
<1>. QED BY <1>8, <1>9, <1>10, <1>11

\* What is deleted is needed by no backup, and what is merged is a chain of S.
LEMMA FindChainsInv ==
  ASSUME TypeInv, Safety, FindChains
  PROVE  Safety'
<1>. USE VhdsNat DEF Safety
<1>1. /\ chain = <<>> /\ queue = <<>> /\ merged = {} /\ step = "none" /\ doomed = {} /\ pending = {} /\ phase = "jsons"
      /\ Interrupted = {}
  BY NotYet DEF FindChains, Calm, StatesInv
<1>2. /\ UNCHANGED <<chain, opened, step, todo, resuming, stale, path, data, blocks, table, uuid, states, resumed, jsons,
                     original, parent, deleted, unused, merged, vhds, pending, parents, child, byId>>
      /\ phase' = "work" /\ doomed' = Unneeded /\ (queue' = <<>> \/ queue' = ToMerge)
  <2>1. ToMerge \in Seq(Seq(Vhds))
    BY <1>1, ToMergeHeads
  <2>2. <<>> \o ToMerge = ToMerge
    BY <2>1
  <2>. QED BY <1>1, <2>2 DEF FindChains, repository, backups, checks
<1>3. Calm'
  BY <1>2 DEF Calm
<1>4. PathInv'
  BY <1>2, PathKept
<1>5. StatesInv'
  BY <1>1, <1>2 DEF StatesInv, Interrupted
<1>6. CheckInv'
  BY <1>2 DEF CheckInv
<1>7. ASSUME NEW S \in SUBSET Vhds, Needed(S), NEW R \in SUBSET Vhds, R = S \ Unneeded
      PROVE  Needed(R)'
  <2>. USE DEF Needed
  <2>0. Rooted(S) /\ jsons \subseteq S /\ S \subseteq vhds /\ vhds \ unused \subseteq S /\ jsons \subseteq vhds \ unused
        /\ unused \subseteq vhds /\ Younger(child)
    BY <1>1, <1>7 DEF SafeInv, CheckInv, TypeInv, CheckTypes
  <2>1. Rooted(R)
    <3>. SUFFICES ASSUME NEW v \in R, path[v] # 1 PROVE path[v] - 1 \in R
      BY <1>7, <2>0 DEF Rooted
    <3>. DEFINE p == path[v] - 1
    <3>1. p \in S /\ child[p] = v
      BY <1>1, <1>7, <2>0 DEF Rooted, CheckInv
    <3>2. ASSUME p \in Unneeded PROVE FALSE
      <4>1. p \in Vhds /\ v \in Vhds /\ p \in unused /\ UsedChildChain[p] = <<>>
        BY <3>1, <3>2 DEF Unneeded
      <4>. HIDE DEF p
      <4>2. UsedChildChain[v] = <<>>
        <5>1. UsedChildChain[p] = IF UsedChildChain[v] = <<>> THEN <<>> ELSE <<p>> \o UsedChildChain[v]
          BY <2>0, <3>1, <4>1, ChildChainDef
        <5>2. UsedChildChain[v] # <<>> => UsedChildChain[v] \in Seq(Vhds)
          BY <2>0, <4>1, ChildChainType DEF IsChain
        <5>3. UsedChildChain[v] # <<>> => <<p>> \o UsedChildChain[v] # <<>>
          BY <4>1, <5>2
        <5>. QED BY <4>1, <5>1, <5>3
      <4>3. v \in unused
        <5>1. v \notin unused => UsedChildChain[v] = <<v>>
          BY <2>0, <4>1, ChildChainDef
        <5>. QED BY <4>2, <5>1
      <4>. QED BY <1>7, <4>2, <4>3 DEF Unneeded
    <3>. QED BY <1>7, <3>1, <3>2
  <2>2. Unneeded \subseteq unused /\ Unneeded \cap R = {}
    BY <1>7 DEF Unneeded
  <2>3. \A v \in Heads : Links(UsedChildChain[v], v, R) /\ Len(UsedChildChain[v]) > 1
    <3>. SUFFICES ASSUME NEW v \in Heads PROVE Links(UsedChildChain[v], v, R) /\ Len(UsedChildChain[v]) > 1
      OBVIOUS
    <3>1. v \in vhds /\ v \in unused /\ UsedChildChain[v] # <<>>
      BY <2>0 DEF Heads
    <3>2. Links(UsedChildChain[v], v, R)
      BY <1>1, <1>7, <2>0, <3>1, ChainLinks
    <3>. DEFINE c == UsedChildChain[v]
    <3>3. c \in Seq(Vhds) /\ Len(c) > 0 /\ c[1] = v /\ c[Len(c)] \notin unused
      BY <3>2 DEF Links
    <3>. HIDE DEF c
    <3>4. Len(c) > 1
      BY <3>1, <3>3
    <3>. QED BY <3>2, <3>4 DEF c
  <2>4. Rooted(R)'
    BY <1>2, <2>1 DEF Rooted
  <2>5. jsons \subseteq R
    BY <1>7, <2>0, <2>2
  <2>6. SafeInv(R)'
    <3>1. R \subseteq vhds
      BY <1>7, <2>0
    <3>. QED BY <1>1, <1>2, <2>0, <2>2, <2>4, <2>5, <3>1 DEF SafeInv
  <2>7. \A v \in Heads : Linear(UsedChildChain[v], R)'
    <3>. SUFFICES ASSUME NEW v \in Heads PROVE Linear(UsedChildChain[v], R)'
      OBVIOUS
    <3>. DEFINE c == UsedChildChain[v]
    <3>1. Links(c, v, R) /\ Len(c) > 1
      BY <2>3
    <3>2. c' = c
      BY <1>2 DEF UsedChildChain
    <3>. HIDE DEF c
    <3>3. Linear(c, R)'
      BY <1>2, <3>1, <3>2 DEF Linear, Links, Elems
    <3>. QED BY <3>3 DEF c
  <2>8. QueueInv(R)'
    <3>1. CASE queue' = <<>>
      BY <3>1 DEF QueueInv
    <3>2. CASE queue' = ToMerge
      <4>1. ASSUME NEW i \in 1 .. Len(queue') PROVE Linear(queue[i], R)'
        <5>1. PICK v \in Heads : queue'[i] = UsedChildChain[v]
          BY <1>1, <3>2, <4>1, ToMergeHeads
        <5>2. Linear(UsedChildChain[v], R)'
          BY <2>7
        <5>3. UsedChildChain[v]' = UsedChildChain[v]
          BY <1>2 DEF UsedChildChain
        <5>. QED BY <5>1, <5>2, <5>3 DEF Linear, Elems
      <4>2. ASSUME NEW i \in 1 .. Len(queue'), NEW j \in 1 .. Len(queue'), i # j
            PROVE  Elems(queue'[i]) \cap Elems(queue'[j]) = {}
        <5>1. PICK v \in Heads, w \in Heads : v # w /\ queue'[i] = UsedChildChain[v] /\ queue'[j] = UsedChildChain[w]
          BY <1>1, <3>2, <4>2, ToMergeHeads
        <5>. QED BY <2>3, <5>1, ChainsDisjoint
      <4>. QED BY <4>1, <4>2 DEF QueueInv, Elems
    <3>. QED BY <1>2, <3>1, <3>2
  <2>9. ~ Committing /\ ~ Committing' /\ Active = {} /\ Active' = {}
    BY <1>1, <1>2 DEF Committing, Active
  <2>10. CommitInv(R)' /\ StepInv(R)'
    BY <1>1, <1>2, <2>9 DEF CommitInv, StepInv
  <2>11. ContentInv(R)'
    <3>1. \A v \in R, b \in Blocks : Holds(path[v], path[v], v, b)
      BY <1>7, <2>9 DEF ContentInv
    <3>2. ASSUME NEW v \in R, NEW b \in Blocks PROVE Holds(path[v], path[v], v, b)'
      <4>1. Holds(path[v], path[v], v, b)
        BY <3>1
      <4>. QED BY <1>2, <4>1 DEF Holds
    <3>. QED BY <2>9, <3>2 DEF ContentInv
  <2>. QED BY <2>6, <2>8, <2>10, <2>11
<1>8. \E S \in SUBSET Vhds : S \ Unneeded \in SUBSET Vhds /\ Needed(S)
  OBVIOUS
<1>9. (\E S \in SUBSET Vhds : Needed(S))'
  BY <1>7, <1>8
<1>. QED BY <1>3, <1>4, <1>5, <1>6, <1>9

-----------------------------------------------------------------------------
(* The merges. *)

\* The VHDs of a chain come in order, and their data hold all those from the
\* first data of the ancestor to the target.
LEMMA LinearOrder ==
  ASSUME TypeInv, NEW S \in SUBSET Vhds, Rooted(S), NEW c \in Seq(Vhds), Linear(c, S)
  PROVE  /\ Len(c) \in Nat /\ Len(c) > 1
         /\ \A i \in 1 .. Len(c) : c[i] \in S /\ path[c[i]] \in Vhds /\ path[c[i]] <= c[i] /\ path[c[i]] \in data
         /\ \A i, j \in 1 .. Len(c) : i < j => c[i] < path[c[j]] /\ c[i] < c[j]
         /\ \A u \in path[c[1]] .. c[Len(c)] : \E i \in 1 .. Len(c) : u \in path[c[i]] .. c[i]
<1>. USE VhdsNat
<1>1. Len(c) \in Nat /\ Len(c) > 1 /\ \A i \in 1 .. Len(c) : c[i] \in S /\ c[i] \in Nat
  <2>1. \A i \in 1 .. Len(c) : c[i] \in Elems(c)
    BY DEF Elems
  <2>2. Len(c) \in Nat /\ Len(c) > 1 /\ Elems(c) \subseteq S
    BY DEF Linear
  <2>. QED BY <2>1, <2>2
<1>2. \A i \in 1 .. Len(c) : path[c[i]] \in Vhds /\ path[c[i]] <= c[i] /\ path[c[i]] \in data
  BY <1>1 DEF Rooted, TypeInv, FileTypes
<1>3. \A i \in 1 .. (Len(c) - 1) : path[c[i + 1]] = c[i] + 1
  BY DEF Linear
<1>4. \A i \in 1 .. Len(c) : path[c[i]] \in Nat
  BY <1>2
<1>. DEFINE T == {n \in Nat : \A i, j \in 1 .. Len(c) : j = i + n + 1 => c[i] < path[c[j]]}
<1>5. 0 \in T
  <2>. SUFFICES ASSUME NEW i \in 1 .. Len(c), NEW j \in 1 .. Len(c), j = i + 0 + 1 PROVE c[i] < path[c[j]]
    OBVIOUS
  <2>1. i \in 1 .. (Len(c) - 1) /\ i + 1 = j /\ c[i] \in Nat
    BY <1>1
  <2>2. path[c[j]] = c[i] + 1
    BY <1>3, <2>1
  <2>. QED BY <2>1, <2>2
<1>6. ASSUME NEW n \in Nat, n \in T PROVE n + 1 \in T
  <2>. SUFFICES ASSUME NEW i \in 1 .. Len(c), NEW j \in 1 .. Len(c), j = i + (n + 1) + 1
                PROVE  c[i] < path[c[j]]
    OBVIOUS
  <2>1. j - 1 \in 1 .. Len(c) /\ j - 1 \in 1 .. (Len(c) - 1) /\ j - 1 = i + n + 1 /\ (j - 1) + 1 = j
    BY <1>1
  <2>2. c[i] < path[c[j - 1]]
    BY <1>6, <2>1
  <2>3. path[c[j]] = c[j - 1] + 1
    BY <1>3, <2>1
  <2>4. path[c[j - 1]] <= c[j - 1] /\ c[j - 1] \in Nat /\ path[c[j - 1]] \in Nat /\ c[i] \in Nat
    BY <1>1, <1>2, <1>4, <2>1
  <2>. QED BY <2>2, <2>3, <2>4
<1>. HIDE DEF T
<1>7. \A n \in Nat : n \in T
  BY <1>5, <1>6, NatInduct
<1>8. \A i, j \in 1 .. Len(c) : i < j => c[i] < path[c[j]] /\ c[i] < c[j]
  <2>. SUFFICES ASSUME NEW i \in 1 .. Len(c), NEW j \in 1 .. Len(c), i < j
                PROVE  c[i] < path[c[j]] /\ c[i] < c[j]
    OBVIOUS
  <2>1. j - i - 1 \in Nat /\ j = i + (j - i - 1) + 1
    BY <1>1
  <2>2. c[i] < path[c[j]]
    BY <1>7, <2>1 DEF T
  <2>3. path[c[j]] <= c[j] /\ c[j] \in Nat /\ path[c[j]] \in Nat /\ c[i] \in Nat
    BY <1>1, <1>2, <1>4
  <2>. QED BY <2>2, <2>3
<1>9. ASSUME NEW u \in path[c[1]] .. c[Len(c)] PROVE \E i \in 1 .. Len(c) : u \in path[c[i]] .. c[i]
  <2>. DEFINE I == {i \in Nat : i \in 1 .. Len(c) /\ u <= c[i]}
  <2>1. 1 \in 1 .. Len(c) /\ Len(c) \in 1 .. Len(c)
    BY <1>1
  <2>2. u \in Nat /\ path[c[1]] <= u /\ Len(c) \in I
    <3>1. path[c[1]] \in Nat /\ c[Len(c)] \in Nat
      BY <1>1, <1>4, <2>1
    <3>. QED BY <1>1, <2>1, <3>1
  <2>3. PICK i \in I : \A j \in I : i <= j
    <3>. HIDE DEF I
    <3>1. I \in SUBSET Nat
      BY DEF I
    <3>. QED BY <2>2, <3>1, Smallest
  <2>4. path[c[i]] <= u
    <3>1. CASE i = 1
      BY <2>2, <3>1
    <3>2. CASE i # 1
      <4>1. i - 1 \in 1 .. (Len(c) - 1) /\ i - 1 \in 1 .. Len(c) /\ (i - 1) + 1 = i /\ i - 1 \in Nat
        BY <1>1, <3>2
      <4>2. i - 1 \notin I
        <5>. HIDE DEF I
        <5>1. i \in Nat
          BY DEF I
        <5>. QED BY <2>3, <4>1, <5>1
      <4>3. ~ (u <= c[i - 1])
        BY <4>1, <4>2
      <4>4. path[c[i]] = c[i - 1] + 1 /\ c[i - 1] \in Nat
        BY <1>1, <1>3, <4>1
      <4>. QED BY <2>2, <4>3, <4>4
    <3>. QED BY <3>1, <3>2
  <2>5. i \in 1 .. Len(c) /\ u <= c[i] /\ path[c[i]] \in Nat /\ c[i] \in Nat
    BY <1>1, <1>4
  <2>. QED BY <2>2, <2>4, <2>5
<1>. QED BY <1>1, <1>2, <1>8, <1>9

\* The chain that is merged next is still one of S, whatever the run has deleted.
LEMMA StartMergeInv ==
  ASSUME TypeInv, Safety, StartMerge
  PROVE  Safety'
<1>. USE VhdsNat DEF Safety
<1>. DEFINE c  == Head(queue)
            ds == [i \in DOMAIN c |-> path[c[i]]]
<1>1. /\ chain = <<>> /\ queue # <<>> /\ phase = "work" /\ step = "none" /\ stale = 0 /\ resuming = FALSE
      /\ ~ Committing /\ queue \in Seq(Seq(Vhds)) /\ Len(queue) \in Nat /\ Len(queue) > 0
  BY DEF StartMerge, Calm, TypeInv, QueueTypes, MergeTypes, Committing
<1>2. c = queue[1] /\ c \in Seq(Vhds) /\ 1 \in 1 .. Len(queue)
  BY <1>1
<1>3. \A v \in Vhds : states[v] = None
  BY <1>1 DEF StatesInv
<1>4. PICK S \in SUBSET Vhds : Needed(S)
  OBVIOUS
<1>5. SafeInv(S) /\ QueueInv(S) /\ ContentInv(S) /\ Rooted(S) /\ Linear(c, S)
  BY <1>2, <1>4 DEF Needed, SafeInv, QueueInv
<1>. HIDE DEF c
<1>6. /\ Len(c) \in Nat /\ Len(c) > 1 /\ DOMAIN c = 1 .. Len(c) /\ Head(c) = c[1]
      /\ \A i \in 1 .. Len(c) : c[i] \in S /\ path[c[i]] \in Vhds /\ path[c[i]] <= c[i] /\ path[c[i]] \in data
  BY <1>2, <1>5, LinearOrder
<1>7. \A i \in 1 .. Len(c) : ds[i] = path[c[i]] /\ uuid[ds[i]] = c[i]
  BY <1>1, <1>6 DEF PathInv
<1>8. ds \in Seq(Vhds) /\ Len(ds) = Len(c)
  <2>1. ds \in [1 .. Len(c) -> Vhds]
    BY <1>6
  <2>. HIDE DEF ds
  <2>. QED BY <1>6, <2>1, IsSeq
<1>9. \A j \in 1 .. (Len(ds) - 1) : parent[ds[j + 1]] = uuid[ds[j]]
  <2>. SUFFICES ASSUME NEW j \in 1 .. (Len(c) - 1) PROVE parent[ds[j + 1]] = uuid[ds[j]]
    BY <1>8
  <2>1. j \in 1 .. Len(c) /\ j + 1 \in 1 .. Len(c)
    BY <1>6
  <2>2. ds[j + 1] = path[c[j + 1]] /\ path[c[j + 1]] = c[j] + 1 /\ path[c[j + 1]] \in Vhds
    BY <1>5, <1>6, <1>7, <2>1 DEF Linear
  <2>3. c[j] \in Nat /\ c[j] >= 1
    BY <1>6, <2>1
  <2>4. parent[path[c[j + 1]]] = path[c[j + 1]] - 1 /\ path[c[j + 1]] - 1 = c[j]
    BY <2>2, <2>3, ParentOf
  <2>. QED BY <1>7, <2>1, <2>2, <2>4
<1>10. \A i \in DOMAIN c : Exists(c[i])
  BY <1>6 DEF Exists
<1>11. /\ chain' = c /\ opened' = ds /\ step' = "blocks" /\ todo' = {b \in Blocks : InChildren(ds, b)}
       /\ resuming' = FALSE /\ queue' = Tail(queue)
       /\ states' = [states EXCEPT ![Head(c)] = [step |-> "mergeBlocks", chain |-> c, data |-> ds]]
       /\ UNCHANGED <<phase, merged, stale>>
  <2>1. states[Head(c)] = None
    <3>1. 1 \in 1 .. Len(c)
      BY <1>6
    <3>. QED BY <1>3, <1>6, <3>1
  <2>2. Linked(ds, 1) /\ Linked(ds, 2)
    <3>. HIDE DEF ds
    <3>. QED BY <1>6, <1>8, <1>9 DEF Linked
  <2>. QED BY <1>10, <2>1, <2>2 DEF StartMerge, c
<1>12. UNCHANGED <<original, path, data, blocks, table, uuid, jsons, vhds, pending, parents, child, byId, resumed, unused,
                   doomed>>
  BY DEF StartMerge, backups, checks
<1>13. Committing' /\ Active = {} /\ Active' = Elems(c) /\ c # <<>>
  BY <1>1, <1>6, <1>11 DEF Committing, Active, Elems
<1>14. Calm'
  BY <1>1, <1>11, <1>12 DEF Calm
<1>15. PathInv'
  <2>1. step' \notin {"cleanState", "rename"} /\ step \notin {"cleanState", "rename"}
    BY <1>1, <1>11
  <2>2. \A v, w \in Vhds : path[v] = path[w] /\ path[v] # None => v = w
    BY DEF PathInv
  <2>3. \A v \in Vhds : path[v] # None => uuid[path[v]] = v
    BY <2>1 DEF PathInv
  <2>. QED BY <1>12, <2>1, <2>2, <2>3 DEF PathInv
<1>16. StatesInv'
  <2>1. Ancestor' = c[1]
    BY <1>6, <1>11 DEF Ancestor
  <2>2. \A v \in Vhds : states'[v] # None => v = c[1]
    BY <1>3, <1>6, <1>11 DEF TypeInv, StateTypes
  <2>3. Interrupted' = {}
    BY <1>1, <1>12 DEF StatesInv, Interrupted
  <2>. QED BY <1>1, <1>11, <1>13, <2>1, <2>2, <2>3 DEF StatesInv
<1>17. CheckInv'
  BY <1>1, <1>11 DEF CheckInv
<1>18. Spared(S)
  BY <1>5, <1>12, KeptSpares DEF Spared
<1>19. SafeInv(S)'
  <2>1. Rooted(S)'
    BY <1>5, <1>18, SparedRooted
  <2>. QED BY <1>1, <1>5, <1>11, <1>12, <2>1 DEF SafeInv
<1>20. /\ Len(queue') = Len(queue) - 1
       /\ \A i \in 1 .. Len(queue') : i + 1 \in 1 .. Len(queue) /\ i + 1 # 1 /\ queue'[i] = queue[i + 1]
  BY <1>1, <1>11
<1>21. QueueInv(S)'
  <2>1. \A i \in 1 .. Len(queue') : Linear(queue[i], S)'
    <3>. SUFFICES ASSUME NEW i \in 1 .. Len(queue') PROVE Linear(queue[i], S)'
      OBVIOUS
    <3>. DEFINE d == queue[i + 1]
    <3>1. queue'[i] = d /\ Linear(d, S)
      BY <1>5, <1>20 DEF QueueInv
    <3>2. \A j \in 1 .. (Len(d) - 1) : d[j] \in unused' /\ path'[d[j + 1]] = d[j] + 1
      BY <1>12, <3>1 DEF Linear
    <3>3. Len(d) > 1 /\ Elems(d) \subseteq S
      BY <3>1 DEF Linear
    <3>. HIDE DEF d
    <3>. QED BY <3>1, <3>2, <3>3 DEF Linear, Elems
  <2>2. \A i, j \in 1 .. Len(queue') : i # j => Elems(queue'[i]) \cap Elems(queue'[j]) = {}
    <3>. SUFFICES ASSUME NEW i \in 1 .. Len(queue'), NEW j \in 1 .. Len(queue'), i # j
                  PROVE  Elems(queue'[i]) \cap Elems(queue'[j]) = {}
      OBVIOUS
    <3>1. i + 1 \in 1 .. Len(queue) /\ j + 1 \in 1 .. Len(queue) /\ i + 1 # j + 1
      BY <1>1, <1>20
    <3>. QED BY <1>5, <1>20, <3>1 DEF QueueInv
  <2>. QED BY <2>1, <2>2 DEF QueueInv, Elems
<1>22. CommitInv(S)'
  <2>1. Linear(chain, S)'
    <3>1. \A j \in 1 .. (Len(c) - 1) : c[j] \in unused' /\ path'[c[j + 1]] = c[j] + 1
      BY <1>5, <1>12 DEF Linear
    <3>. QED BY <1>5, <1>11, <3>1 DEF Linear, Elems
  <2>2. \A i \in 1 .. Len(queue') : Elems(queue'[i]) \cap Elems(c) = {}
    BY <1>2, <1>5, <1>20 DEF QueueInv
  <2>3. (\A i \in 1 .. Len(queue) : Elems(queue[i]) \cap Elems(chain) = {})'
    <3>1. chain' = c
      BY <1>11
    <3>. QED BY <2>2, <3>1 DEF Elems
  <2>4. (opened = [i \in DOMAIN chain |-> path[chain[i]]])'
    BY <1>11, <1>12
  <2>. QED BY <2>1, <2>3, <2>4 DEF CommitInv
<1>23. StepInv(S)'
  BY <1>11 DEF StepInv
<1>24. \A v \in S, b \in Blocks : Holds(path[v], path[v], v, b)
  BY <1>5, <1>13 DEF ContentInv
<1>25. ASSUME NEW b \in Blocks, ~ InChildren(ds, b) PROVE Holds(ds[1], ds[1], c[Len(c)], b)
  <2>. DEFINE d == path[c[1]]
  <2>1. 1 \in 1 .. Len(c) /\ Len(c) \in 1 .. Len(c) /\ d \in Nat /\ c[1] \in Nat /\ c[Len(c)] \in Nat
    <3>1. 1 \in 1 .. Len(c) /\ Len(c) \in 1 .. Len(c)
      BY <1>6
    <3>. QED BY <1>6, <3>1
  <2>2. c[1] < c[Len(c)]
    BY <1>2, <1>5, <1>6, <2>1, LinearOrder
  <2>3. ASSUME NEW u \in d .. c[Len(c)], b \in original[u] PROVE u \in d .. c[1]
    <3>1. PICK i \in 1 .. Len(c) : u \in path[c[i]] .. c[i]
      BY <1>2, <1>5, LinearOrder
    <3>2. CASE i = 1
      BY <3>1, <3>2
    <3>3. CASE i # 1
      <4>1. i \in 2 .. Len(ds)
        BY <1>6, <1>8, <3>3
      <4>2. b \notin table[path[c[i]]]
        BY <1>7, <1>25, <4>1 DEF InChildren
      <4>3. Holds(path[c[i]], path[c[i]], c[i], b)
        BY <1>6, <1>24
      <4>. QED BY <2>3, <3>1, <4>2, <4>3 DEF Holds
    <3>. QED BY <3>2, <3>3
  <2>4. Holds(d, d, c[1], b)
    BY <1>6, <1>24, <2>1
  <2>5. ds[1] = d
    BY <1>7, <2>1
  <2>. HIDE DEF d, ds
  <2>6. CASE b \in table[d]
    <3>1. blocks[d][b] \in d .. c[1] /\ b \in original[blocks[d][b]] /\ \A u \in d .. c[1] : b \in original[u] => u <= blocks[d][b]
      BY <2>4, <2>6 DEF Holds
    <3>2. blocks[d][b] \in d .. c[Len(c)]
      BY <2>1, <2>2, <3>1
    <3>. QED BY <2>3, <2>5, <2>6, <3>1, <3>2 DEF Holds
  <2>7. CASE b \notin table[d]
    BY <2>3, <2>4, <2>5, <2>7 DEF Holds
  <2>. QED BY <2>6, <2>7
<1>26. ContentInv(S)'
  <2>1. ASSUME NEW v \in S, NEW b \in Blocks PROVE Holds(path[v], path[v], v, b)'
    BY <1>12, <1>24 DEF Holds
  <2>2. ASSUME NEW b \in Blocks
        PROVE  (IF b \in todo THEN \A i \in 1 .. Len(chain) : Holds(opened[i], opened[i], chain[i], b)
                ELSE Holds(opened[1], opened[1], Target, b))'
    <3>1. Target' = c[Len(c)] /\ chain' = c /\ opened' = ds
      BY <1>2, <1>6, <1>11 DEF Target, Last
    <3>2. CASE b \in todo'
      <4>1. \A i \in 1 .. Len(c) : Holds(ds[i], ds[i], c[i], b)
        BY <1>6, <1>7, <1>24
      <4>2. ASSUME NEW i \in 1 .. Len(chain') PROVE Holds(opened[i], opened[i], chain[i], b)'
        <5>1. Holds(ds[i], ds[i], c[i], b) /\ chain'[i] = c[i] /\ opened'[i] = ds[i]
          BY <3>1, <4>1
        <5>. HIDE DEF ds
        <5>. QED BY <1>12, <5>1 DEF Holds
      <4>. QED BY <3>2, <4>2
    <3>3. CASE b \notin todo'
      <4>1. Holds(ds[1], ds[1], c[Len(c)], b)
        BY <1>11, <1>25, <3>3
      <4>. QED BY <1>12, <3>1, <3>3, <4>1 DEF Holds
    <3>. QED BY <3>2, <3>3
  <2>. QED BY <2>1, <2>2 DEF ContentInv
<1>27. Needed(S)'
  BY <1>19, <1>21, <1>22, <1>23, <1>26 DEF Needed
<1>. QED BY <1>14, <1>15, <1>16, <1>17, <1>27

\* What is queued and merged depends on the paths only.
LEMMA QueueKept ==
  ASSUME NEW S, QueueInv(S), UNCHANGED <<path, unused, queue>>
  PROVE  QueueInv(S)'
<1>1. ASSUME NEW i \in 1 .. Len(queue'), Linear(queue[i], S) PROVE Linear(queue[i], S)'
  <2>1. Len(queue'[i]) > 1 /\ Elems(queue'[i]) \subseteq S /\ queue' = queue
    BY <1>1 DEF Linear
  <2>2. \A j \in 1 .. (Len(queue'[i]) - 1) : queue'[i][j] \in unused' /\ path'[queue'[i][j + 1]] = queue'[i][j] + 1
    BY <1>1 DEF Linear
  <2>. QED BY <2>1, <2>2 DEF Linear, Elems
<1>2. (\A i, j \in 1 .. Len(queue) : i # j => Elems(queue[i]) \cap Elems(queue[j]) = {})'
  <2>1. queue' = queue /\ \A i, j \in 1 .. Len(queue) : i # j => Elems(queue[i]) \cap Elems(queue[j]) = {}
    BY DEF QueueInv
  <2>2. \A i, j \in 1 .. Len(queue') : i # j => Elems(queue'[i]) \cap Elems(queue'[j]) = {}
    BY <2>1
  <2>. QED BY <2>2 DEF Elems
<1>. QED BY <1>1, <1>2 DEF QueueInv

LEMMA CommitKept ==
  ASSUME NEW S, CommitInv(S), UNCHANGED <<path, unused, queue, chain, opened>>, Committing' => Committing
  PROVE  CommitInv(S)'
<1>. SUFFICES ASSUME Committing' PROVE CommitInv(S)'
  BY DEF CommitInv
<1>1. Linear(chain, S)'
  <2>1. Len(chain') > 1 /\ Elems(chain') \subseteq S
    BY DEF CommitInv, Linear
  <2>2. \A j \in 1 .. (Len(chain') - 1) : chain'[j] \in unused' /\ path'[chain'[j + 1]] = chain'[j] + 1
    BY DEF CommitInv, Linear
  <2>. QED BY <2>1, <2>2 DEF Linear, Elems
<1>2. (\A i \in 1 .. Len(queue) : Elems(queue[i]) \cap Elems(chain) = {})'
  BY DEF CommitInv, Elems
<1>3. (opened = [i \in DOMAIN chain |-> path[chain[i]]])'
  BY DEF CommitInv
<1>. QED BY <1>1, <1>2, <1>3 DEF CommitInv

LEMMA SafeKept ==
  ASSUME NEW S, SafeInv(S), UNCHANGED <<path, data, jsons, merged, phase, vhds, unused, pending, doomed>>
  PROVE  SafeInv(S)'
  BY DEF SafeInv, Rooted

\* While its blocks are merged and until the rename, a chain is one of S.
LEMMA CommittingChain ==
  ASSUME TypeInv, Safety, Committing, NEW S \in SUBSET Vhds, Needed(S)
  PROVE  /\ phase = "work" /\ resuming = FALSE /\ stale = 0 /\ chain # <<>> /\ Active = Elems(chain)
         /\ chain \in Seq(Vhds) /\ Rooted(S) /\ Linear(chain, S)
         /\ opened = [i \in DOMAIN chain |-> path[chain[i]]]
         /\ Len(chain) \in Nat /\ Len(chain) > 1 /\ DOMAIN chain = 1 .. Len(chain)
         /\ \A i \in 1 .. Len(chain) :
               /\ chain[i] \in S /\ opened[i] = path[chain[i]] /\ opened[i] \in Vhds
               /\ opened[i] <= chain[i] /\ opened[i] \in data
         /\ opened \in Seq(Vhds) /\ Len(opened) = Len(chain)
         /\ Ancestor = chain[1] /\ Target = chain[Len(chain)] /\ Ancestor \in S /\ Target \in S
<1>. USE VhdsNat DEF Safety
<1>1. chain # <<>> /\ chain \in Seq(Vhds)
  BY DEF Committing, TypeInv, QueueTypes, IsChain
<1>2. phase = "work" /\ resuming = FALSE /\ stale = 0 /\ Active = Elems(chain)
  BY <1>1 DEF Calm, TypeInv, MergeTypes, Active
<1>3. Rooted(S) /\ Linear(chain, S) /\ opened = [i \in DOMAIN chain |-> path[chain[i]]]
  BY DEF Needed, SafeInv, CommitInv
<1>4. /\ Len(chain) \in Nat /\ Len(chain) > 1
      /\ \A i \in 1 .. Len(chain) :
            chain[i] \in S /\ path[chain[i]] \in Vhds /\ path[chain[i]] <= chain[i] /\ path[chain[i]] \in data
  BY <1>1, <1>3, LinearOrder
<1>5. DOMAIN chain = 1 .. Len(chain)
  BY <1>1
<1>6. \A i \in 1 .. Len(chain) :
         /\ chain[i] \in S /\ opened[i] = path[chain[i]] /\ opened[i] \in Vhds
         /\ opened[i] <= chain[i] /\ opened[i] \in data
  BY <1>3, <1>4, <1>5
<1>7. opened \in Seq(Vhds) /\ Len(opened) = Len(chain)
  <2>1. opened \in [1 .. Len(chain) -> Vhds]
    BY <1>3, <1>4, <1>5
  <2>. QED BY <1>4, <2>1, IsSeq
<1>8. Ancestor = chain[1] /\ Target = chain[Len(chain)] /\ Ancestor \in S /\ Target \in S
  <2>1. Ancestor = chain[1] /\ Target = chain[Len(chain)]
    BY <1>1, <1>4 DEF Ancestor, Target, Last
  <2>2. 1 \in 1 .. Len(chain) /\ Len(chain) \in 1 .. Len(chain)
    BY <1>4
  <2>. QED BY <1>4, <2>1, <2>2
<1>. QED BY <1>1, <1>2, <1>3, <1>4, <1>5, <1>6, <1>7, <1>8

\* The block of the last child that has it becomes that of the ancestor.
LEMMA MergeBlockInv ==
  ASSUME TypeInv, Safety, NEW b \in Blocks, MergeBlock(b)
  PROVE  Safety'
<1>. USE VhdsNat DEF Safety
<1>1. step = "blocks" /\ Committing /\ b \in todo
  BY DEF MergeBlock, InFlight, Calm, Committing
<1>2. PICK S \in SUBSET Vhds : Needed(S)
  OBVIOUS
<1>. DEFINE c == chain
            n == Len(c)
            a == opened[1]
            s == Source(b)
            m == blocks[s][b]
<1>3. /\ phase = "work" /\ Active = Elems(c) /\ c \in Seq(Vhds) /\ Rooted(S) /\ Linear(c, S)
      /\ n \in Nat /\ n > 1 /\ Target = c[n]
      /\ \A i \in 1 .. n : /\ c[i] \in S /\ opened[i] = path[c[i]] /\ opened[i] \in Vhds
                           /\ opened[i] <= c[i] /\ opened[i] \in data
      /\ opened \in Seq(Vhds) /\ Len(opened) = n
  BY <1>1, <1>2, CommittingChain
<1>4. PICK k \in 2 .. n : /\ s = opened[k] /\ s \in Vhds /\ b \in table[s]
                          /\ \A j \in (k + 1) .. n : b \notin table[opened[j]]
  <2>1. InChildren(opened, b)
    BY <1>1 DEF TypeInv, MergeTypes
  <2>. QED BY <1>3, <2>1, SourceType
<1>. HIDE DEF c, n, s, a
<1>5. \A i \in 1 .. n : Holds(opened[i], opened[i], c[i], b)
  BY <1>1, <1>2 DEF Needed, ContentInv, c, n
<1>6. k \in 1 .. n /\ 1 \in 1 .. n /\ n \in 1 .. n /\ 1 < k /\ k <= n /\ a = opened[1]
  BY <1>3 DEF a
<1>7. /\ m \in s .. c[k] /\ b \in original[m] /\ m # None
      /\ \A u \in s .. c[k] : b \in original[u] => u <= m
  <2>1. Holds(s, s, c[k], b)
    BY <1>4, <1>5, <1>6
  <2>2. m \in s .. c[k] /\ b \in original[m] /\ \A u \in s .. c[k] : b \in original[u] => u <= m
    BY <1>4, <2>1 DEF Holds
  <2>3. m \in Int
    BY <1>4, <2>2
  <2>4. m # None
    <3>. HIDE DEF m
    <3>. QED BY <2>3, Bounds
  <2>. QED BY <2>2, <2>4
<1>8. \A i, j \in 1 .. n : i < j => c[i] < opened[j] /\ c[i] < c[j]
  BY <1>2, <1>3, LinearOrder DEF n
<1>9. a # s
  <2>1. c[1] < opened[k] /\ opened[1] <= c[1] /\ opened[1] \in Nat /\ opened[k] \in Nat /\ c[1] \in Nat
    BY <1>3, <1>6, <1>8
  <2>. QED BY <1>4, <1>6, <2>1
<1>10. a \in data /\ a \in Vhds
  BY <1>3, <1>6
<1>11. /\ blocks' = [d \in Vhds |->
                        IF d = a THEN [blocks[a] EXCEPT ![b] = m]
                        ELSE IF d = s /\ Transfer = "move" THEN [blocks[s] EXCEPT ![b] = None]
                        ELSE blocks[d]]
       /\ table' = [table EXCEPT ![a] = @ \cup {b}]
       /\ todo' = todo \ {b}
       /\ step' = step
  BY <1>7, <1>10 DEF MergeBlock, a, s
<1>12. /\ UNCHANGED <<original, path, data, uuid, states, jsons, phase, vhds, pending, parents, child, byId, resumed, unused,
                      doomed, merged, queue, chain, opened, resuming, stale>>
       /\ Committing' /\ Active' = Active /\ Target' = Target
  <2>1. UNCHANGED <<original, path, data, uuid, states, jsons, phase, vhds, pending, parents, child, byId, resumed, unused,
                    doomed, merged, queue, chain, opened, resuming, stale>>
    BY DEF MergeBlock, run, checks, backups
  <2>. QED BY <1>1, <1>11, <2>1 DEF Committing, Active, Elems, Target
<1>13. Calm'
  BY <1>1, <1>11, <1>12 DEF Calm
<1>14. PathInv'
  BY <1>11, <1>12, PathKept
<1>15. StatesInv'
  <2>1. Ancestor' = Ancestor /\ Interrupted' = Interrupted
    BY <1>12 DEF Ancestor, Interrupted
  <2>. QED BY <1>11, <1>12, <2>1 DEF StatesInv
<1>16. CheckInv'
  BY <1>3, <1>12 DEF CheckInv
<1>17. SafeInv(S)' /\ QueueInv(S)' /\ CommitInv(S)'
  BY <1>1, <1>2, <1>12, SafeKept, QueueKept, CommitKept DEF Needed
<1>18. StepInv(S)'
  BY <1>1, <1>11 DEF StepInv
<1>19. /\ \A d \in Vhds : d # a /\ d # s => blocks'[d] = blocks[d]
       /\ \A d \in Vhds : d # a => table'[d] = table[d]
       /\ \A d \in Vhds, e \in Blocks : e # b => blocks'[d][e] = blocks[d][e] /\ (e \in table'[d] <=> e \in table[d])
       /\ blocks'[a][b] = m /\ b \in table'[a]
  <2>1. blocks \in [Vhds -> [Blocks -> Vhds \cup {None}]] /\ table \in [Vhds -> SUBSET Blocks]
    BY DEF TypeInv, FileTypes, HistoryTypes
  <2>. HIDE DEF m
  <2>. QED BY <1>4, <1>9, <1>10, <1>11, <2>1
<1>20. ASSUME NEW v \in (S \ Active)', NEW e \in Blocks PROVE Holds(path[v], path[v], v, e)'
  <2>1. v \in S \ Active
    BY <1>12, <1>20
  <2>2. Holds(path[v], path[v], v, e)
    BY <1>2, <2>1 DEF Needed, ContentInv
  <2>3. path[v] \in Vhds /\ path[v] # None
    BY <1>3, <2>1 DEF Rooted, TypeInv, FileTypes
  <2>4. \A i \in 1 .. n : path[v] # opened[i]
    <3>1. \A i \in 1 .. n : c[i] # v /\ c[i] \in Vhds /\ opened[i] = path[c[i]]
      <4>1. \A i \in 1 .. n : c[i] \in Active
        BY <1>3 DEF Elems, n
      <4>. QED BY <1>3, <2>1, <4>1
    <3>2. \A x \in Vhds : path[x] = path[v] => x = v
      BY <2>1, <2>3 DEF PathInv
    <3>. QED BY <3>1, <3>2
  <2>5. path[v] # a /\ path[v] # s
    BY <1>4, <1>6, <2>4
  <2>6. blocks'[path[v]] = blocks[path[v]] /\ table'[path[v]] = table[path[v]] /\ path' = path /\ original' = original
    BY <1>12, <1>19, <2>3, <2>5
  <2>. QED BY <2>2, <2>6 DEF Holds
<1>21. ASSUME NEW u \in a .. c[n], b \in original[u] PROVE u <= m
  <2>1. PICK i \in 1 .. n : u \in opened[i] .. c[i]
    BY <1>2, <1>3, <1>6, LinearOrder DEF n
  <2>2. Holds(opened[i], opened[i], c[i], b) /\ c[i] \in Nat /\ opened[i] \in Nat
    BY <1>3, <1>5
  <2>3. CASE i = k
    BY <1>4, <1>7, <1>21, <2>1, <2>3
  <2>4. CASE i > k
    <3>1. b \notin table[opened[i]]
      BY <1>3, <1>4, <2>4
    <3>. QED BY <1>21, <2>1, <2>2, <3>1 DEF Holds
  <2>5. CASE i < k
    <3>1. c[i] < s /\ s \in Nat /\ c[k] \in Nat
      BY <1>3, <1>4, <1>6, <1>8, <2>5
    <3>2. m \in Int /\ s <= m
      BY <1>7, <3>1
    <3>3. u \in Int /\ u <= c[i]
      BY <2>1, <2>2
    <3>. HIDE DEF m
    <3>. QED BY <2>2, <3>1, <3>2, <3>3
  <2>. QED BY <1>3, <1>6, <2>3, <2>4, <2>5
<1>22. Holds(a, a, c[n], b)'
  <2>1. m \in a .. c[n]
    <3>. HIDE DEF m
    <3>1. a \in Nat /\ s \in Nat /\ c[1] \in Nat /\ c[k] \in Nat /\ c[n] \in Nat /\ a <= c[1]
      BY <1>3, <1>4, <1>6
    <3>2. c[1] < s
      BY <1>4, <1>6, <1>8
    <3>3. k = n \/ c[k] < c[n]
      <4>1. k < n => c[k] < c[n]
        BY <1>6, <1>8
      <4>. QED BY <1>3, <4>1
    <3>. QED BY <1>7, <3>1, <3>2, <3>3
  <2>2. a' = a /\ c' = c /\ n' = n
    BY <1>12 DEF a, c, n
  <2>. QED BY <1>7, <1>12, <1>19, <1>21, <2>1, <2>2 DEF Holds
<1>23. ASSUME NEW e \in Blocks
       PROVE  (IF e \in todo THEN \A i \in 1 .. Len(chain) : Holds(opened[i], opened[i], chain[i], e)
               ELSE Holds(opened[1], opened[1], Target, e))'
  <2>1. CASE e \in todo'
    <3>1. e \in todo /\ e # b
      BY <1>11, <2>1
    <3>2. ASSUME NEW i \in 1 .. Len(chain') PROVE Holds(opened[i], opened[i], chain[i], e)'
      <4>1. i \in 1 .. n /\ opened' = opened /\ chain' = chain
        BY <1>12 DEF n, c
      <4>2. opened[i] \in Vhds /\ Holds(opened[i], opened[i], chain[i], e)
        BY <1>1, <1>2, <1>3, <3>1, <4>1 DEF Needed, ContentInv, n, c
      <4>3. blocks'[opened[i]][e] = blocks[opened[i]][e] /\ (e \in table'[opened[i]] <=> e \in table[opened[i]])
        BY <1>19, <3>1, <4>2
      <4>. QED BY <1>12, <4>1, <4>2, <4>3 DEF Holds
    <3>. QED BY <2>1, <3>2
  <2>2. CASE e \notin todo' /\ e # b
    <3>1. e \notin todo
      BY <1>11, <2>2
    <3>2. Holds(opened[1], opened[1], Target, e) /\ opened[1] \in Vhds
      BY <1>1, <1>2, <1>3, <1>6, <3>1 DEF Needed, ContentInv
    <3>3. blocks'[opened[1]][e] = blocks[opened[1]][e] /\ (e \in table'[opened[1]] <=> e \in table[opened[1]])
      BY <1>19, <2>2, <3>2
    <3>4. Holds(opened[1], opened[1], Target, e)'
      BY <1>12, <3>2, <3>3 DEF Holds
    <3>. QED BY <2>2, <3>4
  <2>3. CASE e \notin todo' /\ e = b
    <3>1. Holds(opened[1], opened[1], Target, b)'
      BY <1>3, <1>12, <1>22 DEF Holds, a, c, n
    <3>. QED BY <2>3, <3>1
  <2>. QED BY <2>1, <2>2, <2>3
<1>24. Needed(S)'
  <2>1. ContentInv(S)'
    BY <1>20, <1>23 DEF ContentInv
  <2>. QED BY <1>17, <1>18, <2>1 DEF Needed
<1>. QED BY <1>13, <1>14, <1>15, <1>16, <1>24

\* The footer of the ancestor gets the uuid of the target, then the state file
\* says that the blocks are merged.
LEMMA CommitStepsInv ==
  ASSUME TypeInv, Safety, WriteFooter \/ WriteCleanState
  PROVE  Safety'
<1>. USE VhdsNat DEF Safety
<1>1. /\ Committing /\ Committing' /\ step \in {"blocks", "cleanState"} /\ step' \in {"cleanState", "rename"}
      /\ step' = "rename" <=> step = "cleanState"
  BY DEF WriteFooter, WriteCleanState, Committing
<1>2. PICK S \in SUBSET Vhds : Needed(S)
  OBVIOUS
<1>. DEFINE n == Len(chain)
<1>3. /\ phase = "work" /\ chain # <<>> /\ Rooted(S) /\ n \in Nat /\ n > 1
      /\ \A i \in 1 .. n : chain[i] \in S /\ opened[i] = path[chain[i]] /\ opened[i] \in Vhds
      /\ opened \in Seq(Vhds) /\ Len(opened) = n
      /\ Ancestor = chain[1] /\ Target = chain[n] /\ Ancestor \in S /\ Target \in S
  BY <1>1, <1>2, CommittingChain
<1>4. /\ UNCHANGED <<original, path, data, blocks, table, jsons, phase, vhds, pending, parents, child, byId, resumed,
                     unused, doomed, merged, queue, chain, opened, todo, resuming, stale>>
      /\ Ancestor' = Ancestor /\ Target' = Target /\ Interrupted' = Interrupted
  BY DEF WriteFooter, WriteCleanState, run, checks, backups, Ancestor, Target, Interrupted
<1>5. todo = {}
  BY <1>1, <1>2 DEF WriteFooter, WriteCleanState, Needed, StepInv
<1>6. Calm'
  BY <1>1, <1>4 DEF Calm
<1>7. PathInv'
  <2>1. \A v, w \in Vhds : path[v] = path[w] /\ path[v] # None => v = w
    BY DEF PathInv
  <2>2. ASSUME NEW v \in Vhds, path[v] # None PROVE uuid'[path[v]] = IF v = Ancestor THEN Target ELSE v
    <3>1. path[v] \in Vhds /\ uuid \in [Vhds -> Vhds]
      BY <2>2 DEF TypeInv, FileTypes, HistoryTypes
    <3>2. CASE WriteFooter
      <4>1. 1 \in 1 .. n /\ n \in 1 .. n
        BY <1>3
      <4>2. opened[1] = path[Ancestor] /\ Last(opened) = path[Target] /\ opened[1] \in Vhds /\ path[Target] \in Vhds
        BY <1>3, <4>1 DEF Last
      <4>3. step = "blocks" /\ uuid' = [uuid EXCEPT ![path[Ancestor]] = uuid[path[Target]]]
        BY <3>2, <4>2 DEF WriteFooter
      <4>4. uuid[path[v]] = v /\ uuid[path[Target]] = Target
        BY <1>3, <2>2, <4>2, <4>3 DEF PathInv
      <4>5. v # Ancestor => path[v] # path[Ancestor]
        BY <1>3, <2>1, <2>2
      <4>. QED BY <3>1, <4>2, <4>3, <4>4, <4>5
    <3>3. CASE WriteCleanState
      <4>1. step = "cleanState" /\ uuid' = uuid
        BY <3>3 DEF WriteCleanState
      <4>. QED BY <2>2, <4>1 DEF PathInv
    <3>. QED BY <3>2, <3>3
  <2>. QED BY <1>1, <1>4, <2>1, <2>2 DEF PathInv
<1>8. StatesInv'
  <2>1. \A v \in Vhds : states'[v] = states[v] \/ v = Ancestor
    BY DEF WriteFooter, WriteCleanState, TypeInv, StateTypes
  <2>2. \A v \in Vhds : states'[v] # None => v = Ancestor
    BY <1>3, <2>1 DEF StatesInv
  <2>. QED BY <1>1, <1>3, <1>4, <2>2 DEF StatesInv
<1>9. CheckInv'
  BY <1>3, <1>4 DEF CheckInv
<1>10. SafeInv(S)' /\ QueueInv(S)' /\ CommitInv(S)'
  BY <1>1, <1>2, <1>4, SafeKept, QueueKept, CommitKept DEF Needed
<1>11. StepInv(S)'
  BY <1>1, <1>4, <1>5 DEF StepInv
<1>12. ContentInv(S)'
  <2>1. Spared(S)
    BY <1>3, <1>4, KeptSpares
  <2>. QED BY <1>1, <1>2, <1>4, <2>1, SparedContent DEF Needed
<1>13. Needed(S)'
  BY <1>10, <1>11, <1>12 DEF Needed
<1>. QED BY <1>6, <1>7, <1>8, <1>9, <1>13

\* The data of the ancestor become those of the target, and no VHD is left that
\* has one of the others as parent.
LEMMA RenameInv ==
  ASSUME TypeInv, Safety, Rename
  PROVE  Safety'
<1>. USE VhdsNat DEF Safety
<1>1. step = "rename" /\ Committing
  BY DEF Rename, Committing
<1>2. PICK S \in SUBSET Vhds : Needed(S)
  OBVIOUS
<1>. DEFINE c == chain
            n == Len(c)
<1>3. /\ phase = "work" /\ resuming = FALSE /\ stale = 0 /\ c # <<>> /\ Active = Elems(c)
      /\ c \in Seq(Vhds) /\ Rooted(S) /\ Linear(c, S) /\ n \in Nat /\ n > 1
      /\ \A i \in 1 .. n : /\ c[i] \in S /\ opened[i] = path[c[i]] /\ opened[i] \in Vhds
                           /\ opened[i] <= c[i] /\ opened[i] \in data
      /\ Ancestor = c[1] /\ Target = c[n] /\ Ancestor \in S /\ Target \in S
  BY <1>1, <1>2, CommittingChain
<1>4. \A i, j \in 1 .. n : i < j => c[i] < path[c[j]] /\ c[i] < c[j]
  BY <1>3, LinearOrder
<1>5. \A i \in 1 .. (n - 1) : c[i] \in unused /\ path[c[i + 1]] = c[i] + 1
  BY <1>3 DEF Linear
<1>. HIDE DEF c, n
<1>6. 1 \in 1 .. n /\ n \in 1 .. n /\ 1 < n /\ 1 \in 1 .. (n - 1)
  BY <1>3
<1>7. \A v, w \in Vhds : path[v] = path[w] /\ path[v] # None => v = w
  BY DEF PathInv
<1>8. \A i \in 1 .. n : c[i] \in Vhds /\ path[c[i]] \in Vhds /\ path[c[i]] <= c[i] /\ path[c[i]] \in data
  BY <1>3
<1>9. /\ path[Target] \in Vhds /\ path[Ancestor] \in Vhds /\ path[Target] \in data /\ path[Ancestor] \in data
      /\ Ancestor # Target /\ path[Ancestor] # path[Target]
  <2>1. c[1] < c[n] /\ c[1] \in Nat /\ c[n] \in Nat
    BY <1>4, <1>6, <1>8
  <2>2. c[1] # c[n]
    BY <2>1
  <2>3. path[c[1]] \in Vhds /\ path[c[n]] \in Vhds
    BY <1>6, <1>8
  <2>. QED BY <1>3, <1>6, <1>7, <1>8, <2>2, <2>3
<1>10. /\ path' = [path EXCEPT ![Target] = path[Ancestor], ![Ancestor] = None]
       /\ opened' = <<path[Target]>>
       /\ \/ step' = "oldTarget" /\ UNCHANGED <<data, blocks>>
          \/ step' = "children" /\ EraseData(path[Target])
       /\ UNCHANGED <<phase, merged, chain, todo, resuming, stale>>
  BY <1>9 DEF Rename
<1>11. /\ UNCHANGED <<original, table, uuid, states, jsons, vhds, pending, parents, child, byId, resumed, unused, doomed,
                      queue>>
       /\ ~ Committing' /\ Active' = {} /\ Ancestor' = Ancestor /\ Target' = Target /\ Interrupted' = Interrupted
  BY <1>10 DEF Rename, checks, backups, Committing, Active, Ancestor, Target, Interrupted
<1>12. /\ path'[Target] = path[Ancestor] /\ path'[Ancestor] = None
       /\ \A v \in Vhds : v # Target /\ v # Ancestor => path'[v] = path[v]
  BY <1>3, <1>9, <1>10 DEF TypeInv, FileTypes
<1>13. \A d \in data : d # path[Target] => d \in data' /\ blocks'[d] = blocks[d]
  BY <1>10 DEF EraseData, TypeInv, FileTypes
<1>14. Calm'
  BY <1>3, <1>10, <1>11 DEF Calm
<1>15. PathInv'
  <2>1. \A v, w \in Vhds : path'[v] = path'[w] /\ path'[v] # None => v = w
    <3>. SUFFICES ASSUME NEW v \in Vhds, NEW w \in Vhds, path'[v] = path'[w], path'[v] # None PROVE v = w
      OBVIOUS
    <3>1. v # Ancestor /\ w # Ancestor
      BY <1>12
    <3>2. ASSUME NEW u \in Vhds, u # Ancestor, u # Target PROVE path[u] # path[Ancestor] /\ path'[u] = path[u]
      BY <1>3, <1>7, <1>9, <1>12, <3>2
    <3>. QED BY <1>7, <1>12, <3>1, <3>2
  <2>2. ASSUME NEW v \in Vhds, path'[v] # None PROVE uuid[path'[v]] = v
    <3>1. uuid[path[Ancestor]] = Target
      BY <1>1, <1>3, <1>9 DEF PathInv
    <3>2. v # Ancestor /\ path[v] # None => uuid[path[v]] = v
      BY DEF PathInv
    <3>. QED BY <1>12, <2>2, <3>1, <3>2
  <2>. QED BY <1>10, <1>11, <2>1, <2>2 DEF PathInv
<1>16. StatesInv'
  <2>1. \A v \in Vhds : states[v] # None => v = Ancestor
    BY <1>3 DEF StatesInv
  <2>. QED BY <1>3, <1>10, <1>11, <1>12, <2>1 DEF StatesInv, c
<1>17. CheckInv'
  BY <1>3, <1>10 DEF CheckInv
<1>. DEFINE Gone == {c[i] : i \in 1 .. (n - 1)}
<1>18. ASSUME NEW R \in SUBSET Vhds, R = S \ Gone PROVE Needed(R)'
  <2>1. \A i \in 1 .. (n - 1) : i \in 1 .. n /\ i + 1 \in 1 .. n /\ c[i] \notin R /\ c[i] \in Vhds
    <3>1. \A i \in 1 .. (n - 1) : i \in 1 .. n /\ i + 1 \in 1 .. n
      BY <1>3
    <3>. QED BY <1>8, <1>18, <3>1
  <2>2. Target \in R /\ Ancestor \notin R
    <3>1. \A i \in 1 .. (n - 1) : c[i] # c[n]
      <4>. SUFFICES ASSUME NEW i \in 1 .. (n - 1) PROVE c[i] # c[n]
        OBVIOUS
      <4>1. i < n /\ i \in 1 .. n
        BY <1>3
      <4>2. c[i] < c[n] /\ c[i] \in Nat /\ c[n] \in Nat
        BY <1>4, <1>6, <1>8, <4>1
      <4>. QED BY <4>2
    <3>. QED BY <1>3, <1>6, <1>18, <3>1
  <2>3. \A v \in R : v # Target => v \notin Elems(c)
    <3>. SUFFICES ASSUME NEW i \in 1 .. n, c[i] \in R PROVE c[i] = Target
      BY DEF Elems, n
    <3>1. i = n \/ i \in 1 .. (n - 1)
      BY <1>3
    <3>. QED BY <1>3, <2>1, <3>1
  <2>4. ASSUME NEW v \in R, v # Target
        PROVE  path'[v] = path[v] /\ path[v] \in data /\ path[v] \in Vhds /\ path[v] # path[Target] /\ v \in S \ Active
    <3>1. path[v] \in data /\ path[v] \in Vhds /\ path[v] # None
      BY <1>3, <1>18 DEF Rooted, TypeInv, FileTypes
    <3>. QED BY <1>3, <1>7, <1>12, <1>18, <2>2, <2>3, <2>4, <3>1
  <2>5. ASSUME NEW v \in R PROVE path'[v] \in data' /\ (path'[v] = 1 \/ path'[v] - 1 \in R)
    <3>1. CASE v = Target
      <4>1. path[c[1]] = 1 \/ path[c[1]] - 1 \in S
        BY <1>3 DEF Rooted
      <4>2. path[c[1]] - 1 \notin Gone
        <5>. SUFFICES ASSUME NEW i \in 1 .. (n - 1), path[c[1]] - 1 = c[i] PROVE FALSE
          OBVIOUS
        <5>1. path[c[1]] <= c[1] /\ path[c[1]] \in Nat /\ c[1] \in Nat /\ c[i] \in Nat
          BY <1>6, <1>8, <2>1
        <5>2. i = 1 \/ c[1] < c[i]
          <6>1. i = 1 \/ 1 < i
            OBVIOUS
          <6>. QED BY <1>4, <1>6, <2>1, <6>1
        <5>3. path[c[1]] = c[i] + 1
          BY <5>1
        <5>. QED BY <5>1, <5>2, <5>3
      <4>. HIDE DEF Gone
      <4>. QED BY <1>3, <1>9, <1>12, <1>13, <1>18, <3>1, <4>1, <4>2
    <3>2. CASE v # Target
      <4>1. path[v] = 1 \/ path[v] - 1 \in S
        BY <1>3, <1>18 DEF Rooted
      <4>2. path[v] - 1 \notin Gone
        <5>. SUFFICES ASSUME NEW i \in 1 .. (n - 1), path[v] - 1 = c[i] PROVE FALSE
          OBVIOUS
        <5>1. path[v] \in Vhds /\ path[v] \in Nat /\ c[i] \in Nat
          BY <2>1, <2>4, <3>2
        <5>2. path[v] = path[c[i + 1]]
          <6>1. path[v] = c[i] + 1
            BY <5>1
          <6>. QED BY <1>5, <6>1
        <5>3. v = c[i + 1]
          BY <1>7, <1>8, <2>1, <5>1, <5>2
        <5>. QED BY <2>1, <2>3, <3>2, <5>3 DEF Elems, n
      <4>. HIDE DEF Gone
      <4>. QED BY <1>13, <1>18, <2>4, <3>2, <4>1, <4>2
    <3>. QED BY <3>1, <3>2
  <2>6. SafeInv(R)'
    <3>1. SafeInv(S)
      BY <1>2 DEF Needed
    <3>2. Gone \subseteq unused
      BY <1>5
    <3>. HIDE DEF Gone
    <3>3. Rooted(R)'
      BY <2>5 DEF Rooted
    <3>. QED BY <1>3, <1>10, <1>11, <1>18, <3>1, <3>2, <3>3 DEF SafeInv
  <2>7. QueueInv(R)'
    <3>1. \A i \in 1 .. Len(queue) : queue[i] \in Seq(Vhds) /\ Linear(queue[i], S) /\ Elems(queue[i]) \cap Elems(c) = {}
      BY <1>1, <1>2 DEF Needed, QueueInv, CommitInv, TypeInv, QueueTypes, c
    <3>2. ASSUME NEW i \in 1 .. Len(queue') PROVE Linear(queue[i], R)'
      <4>. DEFINE d == queue[i]
      <4>1. queue'[i] = d /\ d \in Seq(Vhds) /\ Linear(d, S) /\ Elems(d) \cap Elems(c) = {}
        BY <1>11, <3>1, <3>2
      <4>. HIDE DEF d
      <4>2. Len(d) \in Nat /\ Len(d) > 1 /\ Elems(d) \subseteq S
        BY <4>1 DEF Linear
      <4>3. Elems(d) \subseteq R
        <5>1. Gone \subseteq Elems(c)
          BY <2>1 DEF Elems, n
        <5>. HIDE DEF Gone
        <5>. QED BY <1>18, <4>1, <4>2, <5>1
      <4>4. Target \in Elems(c)
        BY <1>3, <1>6 DEF Elems, n
      <4>5. \A j \in 1 .. (Len(d) - 1) : d[j + 1] \in R /\ d[j + 1] # Target
        <5>. SUFFICES ASSUME NEW j \in 1 .. (Len(d) - 1) PROVE d[j + 1] \in R /\ d[j + 1] # Target
          OBVIOUS
        <5>1. j + 1 \in 1 .. Len(d)
          BY <4>2
        <5>2. d[j + 1] \in Elems(d)
          BY <5>1 DEF Elems
        <5>. QED BY <4>1, <4>3, <4>4, <5>2
      <4>6. \A j \in 1 .. (Len(d) - 1) : d[j] \in unused' /\ path'[d[j + 1]] = d[j] + 1
        BY <1>11, <2>4, <4>1, <4>5 DEF Linear
      <4>. QED BY <4>1, <4>2, <4>3, <4>6 DEF Linear, Elems
    <3>3. (\A i, j \in 1 .. Len(queue) : i # j => Elems(queue[i]) \cap Elems(queue[j]) = {})'
      <4>1. queue' = queue /\ \A i, j \in 1 .. Len(queue) : i # j => Elems(queue[i]) \cap Elems(queue[j]) = {}
        BY <1>2, <1>11 DEF Needed, QueueInv
      <4>2. \A i, j \in 1 .. Len(queue') : i # j => Elems(queue'[i]) \cap Elems(queue'[j]) = {}
        BY <4>1
      <4>. QED BY <4>2 DEF Elems
    <3>. QED BY <3>2, <3>3 DEF QueueInv
  <2>8. StepInv(R)'
    <3>1. opened'[1] = path[Target]
      BY <1>10
    <3>2. \A v \in Vhds : path'[v] # path[Target]
      <4>1. \A v \in Vhds : v # Target => path[v] # path[Target]
        BY <1>3, <1>7, <1>9
      <4>. QED BY <1>9, <1>12, <4>1
    <3>3. Merged' \cap R = {} /\ Len(chain') > 1
      <4>1. Merged' = {c[i] : i \in 2 .. (n - 1)}
        BY <1>10 DEF Merged, n, c
      <4>2. \A i \in 2 .. (n - 1) : i \in 1 .. (n - 1)
        BY <1>3
      <4>. QED BY <1>3, <1>10, <2>1, <4>1, <4>2 DEF n, c
    <3>. QED BY <1>9, <1>10, <1>11, <2>2, <3>1, <3>2, <3>3 DEF StepInv
  <2>9. ASSUME NEW v \in R, NEW b \in Blocks PROVE Holds(path[v], path[v], v, b)'
    <3>1. CASE v = Target
      <4>1. todo = {}
        BY <1>1, <1>2 DEF Needed, StepInv
      <4>2. Holds(opened[1], opened[1], Target, b)
        BY <1>1, <1>2, <4>1 DEF Needed, ContentInv
      <4>3. opened[1] = path[Ancestor] /\ path'[v] = path[Ancestor] /\ blocks'[path[Ancestor]] = blocks[path[Ancestor]]
        BY <1>3, <1>6, <1>9, <1>12, <1>13, <3>1
      <4>. QED BY <1>11, <3>1, <4>2, <4>3 DEF Holds
    <3>2. CASE v # Target
      <4>1. path'[v] = path[v] /\ blocks'[path[v]] = blocks[path[v]] /\ v \in S \ Active
        BY <1>13, <2>4, <3>2
      <4>2. Holds(path[v], path[v], v, b)
        BY <1>2, <4>1 DEF Needed, ContentInv
      <4>. QED BY <1>11, <4>1, <4>2 DEF Holds
    <3>. QED BY <3>1, <3>2
  <2>10. ContentInv(R)' /\ CommitInv(R)'
    BY <1>11, <2>9 DEF ContentInv, CommitInv
  <2>. QED BY <2>6, <2>7, <2>8, <2>10 DEF Needed
<1>. HIDE DEF Gone
<1>19. S \ Gone \in SUBSET Vhds
  OBVIOUS
<1>20. (\E R \in SUBSET Vhds : Needed(R))'
  BY <1>18, <1>19
<1>. QED BY <1>14, <1>15, <1>16, <1>17, <1>20

LEMMA UnlinkOldTargetInv ==
  ASSUME TypeInv, Safety, UnlinkOldTarget
  PROVE  Safety'
<1>. USE VhdsNat DEF Safety
<1>1. /\ step = "oldTarget" /\ step' = "children" /\ phase = "work" /\ chain # <<>>
      /\ ~ Committing /\ ~ Committing' /\ EraseData(opened[1])
  BY DEF UnlinkOldTarget, Committing, Calm, TypeInv, QueueTypes
<1>2. /\ UNCHANGED <<original, path, table, uuid, states, jsons, phase, vhds, pending, parents, child, byId, resumed,
                     unused, doomed, merged, queue, chain, opened, todo, resuming, stale>>
      /\ Ancestor' = Ancestor /\ Target' = Target /\ Merged' = Merged /\ Interrupted' = Interrupted
  BY DEF UnlinkOldTarget, run, checks, backups, Ancestor, Target, Merged, Interrupted
<1>3. Calm'
  BY <1>1, <1>2 DEF Calm
<1>4. PathInv'
  BY <1>1, <1>2, PathKept
<1>5. StatesInv'
  BY <1>1, <1>2 DEF StatesInv
<1>6. CheckInv'
  BY <1>1, <1>2 DEF CheckInv
<1>7. ASSUME NEW S \in SUBSET Vhds, Needed(S) PROVE Needed(S)'
  <2>. USE DEF Needed
  <2>1. Rooted(S) /\ \A w \in S : path[w] # opened[1]
    BY <1>1, <1>7 DEF SafeInv, StepInv
  <2>2. Spared(S)
    BY <1>1, <1>2, <2>1, EraseSpares
  <2>3. SafeInv(S)'
    <3>1. Rooted(S)'
      BY <2>1, <2>2, SparedRooted
    <3>. QED BY <1>2, <1>7, <3>1 DEF SafeInv
  <2>4. QueueInv(S)'
    BY <1>2, <1>7, QueueKept
  <2>5. CommitInv(S)' /\ StepInv(S)'
    BY <1>1, <1>2, <1>7 DEF CommitInv, StepInv
  <2>6. ContentInv(S)'
    BY <1>1, <1>7, <2>2, SparedContent
  <2>. QED BY <2>3, <2>4, <2>5, <2>6
<1>. QED BY <1>3, <1>4, <1>5, <1>6, <1>7

\* The VHDs between the ancestor and the target are no more needed.
LEMMA UnlinkChildInv ==
  ASSUME TypeInv, Safety, NEW v \in Vhds, UnlinkChild(v)
  PROVE  Safety'
<1>. USE VhdsNat DEF Safety
<1>1. step = "children" /\ phase = "work" /\ chain # <<>> /\ v \in Merged /\ Unlink(v)
  BY DEF UnlinkChild, Calm, TypeInv, QueueTypes
<1>2. /\ UNCHANGED <<original, table, uuid, states, jsons, phase, vhds, pending, parents, child, byId, resumed,
                     unused, doomed, merged, queue, chain, opened, todo, resuming, stale, step, merge>>
      /\ Ancestor' = Ancestor /\ Interrupted' = Interrupted
  BY DEF UnlinkChild, run, checks, backups, merge, Ancestor, Interrupted
<1>3. Calm'
  BY <1>1, <1>2 DEF Calm
<1>4. \A w \in Vhds : path'[w] = path[w] \/ path'[w] = None
  BY <1>1 DEF Unlink, TypeInv, FileTypes
<1>5. PathInv'
  BY <1>2, <1>4, PathKept
<1>6. StatesInv'
  <2>1. Ancestor \in Vhds
    BY <1>1 DEF TypeInv, QueueTypes, IsChain, Ancestor
  <2>2. path'[Ancestor] = None
    BY <1>1, <1>4, <2>1 DEF StatesInv
  <2>. QED BY <1>1, <1>2, <2>2 DEF StatesInv
<1>7. CheckInv'
  BY <1>1, <1>2 DEF CheckInv
<1>8. ASSUME NEW S \in SUBSET Vhds, Needed(S) PROVE Needed(S)'
  <2>1. Rooted(S) /\ v \in Vhds \ S
    BY <1>1, <1>8 DEF Needed, SafeInv, StepInv
  <2>2. Spared(S)
    BY <1>1, <1>2, <2>1, UnlinkSpares
  <2>3. SafeInv(S)'
    <3>1. Rooted(S)'
      BY <2>1, <2>2, SparedRooted
    <3>. QED BY <1>2, <1>8, <3>1 DEF Needed, SafeInv
  <2>. QED BY <1>2, <1>8, <2>2, <2>3, CleanKeeps
<1>. QED BY <1>3, <1>5, <1>6, <1>7, <1>8

\* The backup of the target is still listed, or was deleted.
LEMMA EndMergeInv ==
  ASSUME TypeInv, Safety, EndMerge
  PROVE  Safety'
<1>. USE VhdsNat DEF Safety
<1>1. /\ step = "children" /\ phase = "work" /\ chain # <<>> /\ stale = 0
      /\ step' = "none" /\ chain' = <<>> /\ stale' = 0 /\ resuming' = FALSE
      /\ merged' = merged \cup ({Target} \cap (vhds \ unused))
      /\ states' = [states EXCEPT ![Ancestor] = None]
      /\ ~ Committing /\ ~ Committing'
  BY DEF EndMerge, NoMerge, Committing, Calm, TypeInv, QueueTypes
<1>2. /\ UNCHANGED <<original, path, data, blocks, table, uuid, jsons, phase, vhds, pending, parents, child, byId,
                     resumed, unused, doomed, queue>>
      /\ Interrupted' = Interrupted
  BY DEF EndMerge, checks, backups, Interrupted
<1>3. Calm'
  BY <1>1, <1>2 DEF Calm
<1>4. PathInv'
  <2>1. \A v, w \in Vhds : path[v] = path[w] /\ path[v] # None => v = w
    BY DEF PathInv
  <2>2. \A v \in Vhds : path[v] # None => uuid[path[v]] = v
    BY <1>1 DEF PathInv
  <2>. QED BY <1>1, <1>2, <2>1, <2>2 DEF PathInv
<1>5. StatesInv'
  <2>1. \A v \in Vhds : states[v] # None => v = Ancestor
    BY <1>1 DEF StatesInv
  <2>2. \A v \in Vhds : states'[v] = None
    BY <1>1, <2>1 DEF TypeInv, StateTypes
  <2>. QED BY <1>1, <1>2, <2>2 DEF StatesInv
<1>6. CheckInv'
  BY <1>1, <1>2 DEF CheckInv
<1>7. ASSUME NEW S \in SUBSET Vhds, Needed(S) PROVE Needed(S)'
  <2>. USE DEF Needed
  <2>1. Rooted(S) /\ Target \in S
    BY <1>1, <1>7 DEF SafeInv, StepInv
  <2>2. Spared(S)
    BY <1>2, <2>1, KeptSpares
  <2>3. SafeInv(S)'
    <3>1. Rooted(S)'
      BY <2>1, <2>2, SparedRooted
    <3>. QED BY <1>1, <1>2, <1>7, <2>1, <3>1 DEF SafeInv
  <2>4. QueueInv(S)'
    BY <1>2, <1>7, QueueKept
  <2>5. CommitInv(S)' /\ StepInv(S)'
    BY <1>1 DEF CommitInv, StepInv
  <2>6. ContentInv(S)'
    BY <1>1, <1>7, <2>2, SparedContent
  <2>. QED BY <2>3, <2>4, <2>5, <2>6
<1>. QED BY <1>3, <1>4, <1>5, <1>6, <1>7

\* A crash outside the commit leaves at most a state file whose ancestor is gone.
LEMMA CrashInv ==
  ASSUME OrderlyCrashes, TypeInv, Safety, Crash
  PROVE  Safety'
<1>. USE VhdsNat DEF Safety
<1>1. ~ Committing
  BY DEF Crash, OrderlyCrashes, Committing
<1>2. /\ phase' = "idle" /\ queue' = <<>> /\ doomed' = {} /\ merged' = {} /\ stale' = 0
      /\ chain' = <<>> /\ step' = "none" /\ resuming' = FALSE /\ ~ Committing'
  BY DEF Crash, NoMerge, Committing
<1>3. UNCHANGED <<original, path, data, blocks, table, uuid, states, jsons, vhds, pending, parents, child, byId, resumed,
                  unused>>
  BY DEF Crash, checks, backups, repository
<1>4. Calm'
  BY <1>2 DEF Calm
<1>5. PathInv'
  <2>1. \A v, w \in Vhds : path[v] = path[w] /\ path[v] # None => v = w
    BY DEF PathInv
  <2>2. \A v \in Vhds : path[v] # None => uuid[path[v]] = v
    BY <1>1 DEF PathInv, Committing
  <2>. QED BY <1>2, <1>3, <2>1, <2>2 DEF PathInv
<1>6. StatesInv'
  <2>1. ASSUME NEW v \in Vhds, states[v] # None PROVE path[v] = None
    <3>1. CASE chain # <<>> /\ v = Ancestor
      <4>1. step \in {"oldTarget", "children"}
        BY <1>1, <3>1 DEF Calm, Committing, TypeInv, QueueTypes, MergeTypes, MergeSteps
      <4>. QED BY <3>1, <4>1 DEF StatesInv
    <3>2. CASE ~ (chain # <<>> /\ v = Ancestor)
      BY <2>1, <3>2 DEF StatesInv
    <3>. QED BY <3>1, <3>2
  <2>. QED BY <1>2, <1>3, <2>1 DEF StatesInv
<1>7. CheckInv'
  BY <1>2 DEF CheckInv
<1>8. ASSUME NEW S \in SUBSET Vhds, Needed(S) PROVE Needed(S)'
  <2>. USE DEF Needed
  <2>1. Rooted(S)
    BY <1>8 DEF SafeInv
  <2>2. Spared(S)
    BY <1>3, <2>1, KeptSpares
  <2>3. SafeInv(S)'
    <3>1. Rooted(S)'
      BY <2>1, <2>2, SparedRooted
    <3>. QED BY <1>2, <1>3, <1>8, <3>1 DEF SafeInv
  <2>4. QueueInv(S)' /\ CommitInv(S)' /\ StepInv(S)'
    BY <1>2 DEF QueueInv, CommitInv, StepInv
  <2>5. ContentInv(S)'
    BY <1>1, <1>2, <1>8, <2>2, SparedContent
  <2>. QED BY <2>3, <2>4, <2>5
<1>. QED BY <1>4, <1>5, <1>6, <1>7, <1>8

-----------------------------------------------------------------------------
(* Every step. *)

LEMMA StutterInv ==
  ASSUME TypeInv, Safety, UNCHANGED vars
  PROVE  Safety'
<1>. USE VhdsNat DEF Safety
<1>1. /\ UNCHANGED <<original, path, data, blocks, table, uuid, parent, states, jsons, phase, vhds, pending, parents, child,
                     byId, resumed, unused, doomed, merged, queue, chain, opened, step, todo, resuming, stale, merge>>
      /\ Ancestor' = Ancestor /\ Interrupted' = Interrupted
  BY DEF vars, backups, repository, run, checks, merge, Ancestor, Interrupted
<1>2. Calm'
  BY <1>1 DEF Calm
<1>3. PathInv'
  BY <1>1, PathKept
<1>4. StatesInv'
  BY <1>1 DEF StatesInv
<1>5. CheckInv'
  <2>1. Opened' = Opened /\ \A v \in Vhds : Exists(v)' <=> Exists(v)
    BY <1>1 DEF Opened, Exists
  <2>. QED BY <1>1, <2>1 DEF CheckInv
<1>6. ASSUME NEW S \in SUBSET Vhds, Needed(S) PROVE Needed(S)'
  <2>1. Spared(S)
    BY <1>1, <1>6, KeptSpares DEF Needed, SafeInv
  <2>2. SafeInv(S)'
    BY <1>1, <1>6, SafeKept DEF Needed
  <2>. QED BY <1>1, <1>6, <2>1, <2>2, CleanKeeps
<1>. QED BY <1>2, <1>3, <1>4, <1>5, <1>6

LEMMA NextInv ==
  ASSUME OrderlyCrashes, IInv, [Next]_vars
  PROVE  IInv'
<1>. USE DEF IInv
<1>1. TypeInv'
  BY TypeInvNext
<1>2. Safety'
  <2>1. CASE Clean
    <3>1. CASE Start(TRUE)
      BY <3>1, StartInv
    <3>2. ASSUME NEW v \in Vhds, CheckVhd(v) \/ DropState(v) \/ RemoveAlias(v) \/ RemoveData(v) PROVE Safety'
      BY <3>2, CheckVhdInv, StatesPhaseInv, AliasesInv
    <3>3. ASSUME NEW v \in Vhds, UnlinkVhd(v) \/ ReadJson(v) PROVE Safety'
      BY <3>3, UnlinkVhdInv, JsonsInv
    <3>4. CASE EndCheck \/ EndStates
      BY <3>4, StatesPhaseInv
    <3>5. CASE FindOrphans
      BY <3>5, FindOrphansInv
    <3>6. CASE ListJsons
      BY <3>6, JsonsInv
    <3>7. CASE FindChains
      BY <3>7, FindChainsInv
    <3>8. CASE EndRun
      BY <3>8, EndRunInv
    <3>. QED BY <2>1, <3>1, <3>2, <3>3, <3>4, <3>5, <3>6, <3>7, <3>8 DEF Clean
  <2>2. CASE Merge
    <3>1. ASSUME NEW b \in Blocks, MergeBlock(b) PROVE Safety'
      BY <3>1, MergeBlockInv
    <3>2. ASSUME NEW v \in Vhds, UnlinkChild(v) PROVE Safety'
      BY <3>2, UnlinkChildInv
    <3>3. ~ FailMerge
      BY DEF FailMerge, Safety, Calm
    <3>. QED BY <2>2, <3>1, <3>2, <3>3, StartMergeInv, CommitStepsInv, RenameInv, UnlinkOldTargetInv, EndMergeInv DEF Merge
  <2>3. CASE Start(FALSE)
    BY <2>3, StartInv
  <2>4. ASSUME NEW k \in Vhds, DeleteBackup(k) PROVE Safety'
    BY <2>4, DeleteBackupInv
  <2>5. CASE Crash
    BY <2>5, CrashInv
  <2>6. CASE UNCHANGED vars
    BY <2>6, StutterInv
  <2>. QED BY <2>1, <2>2, <2>3, <2>4, <2>5, <2>6 DEF Next
<1>. QED BY <1>1, <1>2

LEMMA Inductive == OrderlyCrashes => (Spec => []IInv)
<1>. SUFFICES ASSUME OrderlyCrashes PROVE Spec => []IInv
  OBVIOUS
<1>1. IInv /\ [Next]_vars => IInv'
  BY NextInv
<1>. QED BY <1>1, InitInv, PTL DEF Spec

\* cleanVm() deletes no metadata of a backup that the user did not delete.
LEMMA KeptNext ==
  ASSUME IInv, BackupsKept, [Next]_vars
  PROVE  BackupsKept'
<1>1. /\ jsons' = jsons \/ \E k \in Vhds : DeleteBackup(k) \/ (jsons \subseteq jsons' /\ deleted' = deleted)
      /\ deleted' = deleted \/ \E k \in Vhds : DeleteBackup(k)
  <2>1. CASE Clean
    <3>1. ASSUME NEW k \in Vhds, ReadJson(k) PROVE jsons' = jsons
      <4>1. jsons \subseteq vhds
        BY <3>1 DEF IInv, Safety, Needed, SafeInv, ReadJson
      <4>. QED BY <3>1, <4>1 DEF ReadJson
    <3>2. CASE EndRun
      BY <3>2, VhdsNat DEF EndRun, backups
    <3>3. deleted' = deleted
      BY <2>1 DEF Clean, Start, CheckVhd, DropState, RemoveAlias, RemoveData, UnlinkVhd, ReadJson, EndCheck, EndStates,
                  FindOrphans, ListJsons, FindChains, EndRun, backups
    <3>. QED BY <2>1, <3>1, <3>2, <3>3 DEF Clean, Start, CheckVhd, DropState, RemoveAlias, RemoveData, UnlinkVhd, EndCheck,
                EndStates, FindOrphans, ListJsons, FindChains, repository
  <2>2. CASE Merge
    BY <2>2 DEF Merge, StartMerge, MergeBlock, FailMerge, WriteFooter, WriteCleanState, Rename, UnlinkOldTarget, UnlinkChild,
                EndMerge, backups, repository
  <2>3. CASE Start(FALSE) \/ Crash \/ UNCHANGED vars
    BY <2>3 DEF Start, Crash, vars, backups, repository
  <2>4. CASE \E k \in Vhds : DeleteBackup(k)
    BY <2>4 DEF DeleteBackup
  <2>. QED BY <2>1, <2>2, <2>3, <2>4 DEF Next
<1>2. ASSUME NEW k \in Vhds, DeleteBackup(k) PROVE BackupsKept'
  BY <1>2 DEF DeleteBackup, BackupsKept
<1>. QED BY <1>1, <1>2 DEF BackupsKept

-----------------------------------------------------------------------------
(* What is read. *)

LEMMA ExpectedDef ==
  ASSUME TypeInv, NEW b
  PROVE  \A k \in Vhds : Expected(k, b) = IF b \in original[k] THEN k
                                          ELSE IF parent[k] = None THEN None ELSE Expected(parent[k], b)
<1>. DEFINE V == Vhds \cup {None}
            P(f) == f = [v \in Vhds |-> IF b \in original[v] THEN v
                                        ELSE IF parent[v] = None THEN None ELSE f[parent[v]]]
            go == {v \in Vhds : b \notin original[v] /\ parent[v] # None}
            rank == [v \in Vhds |-> v]
            leaf == [v \in Vhds |-> IF b \in original[v] THEN v ELSE None]
            through == [v \in Vhds |-> [w \in V |-> w]]
            written == CHOOSE f : P(f)
<1>1. \A k : Expected(k, b) = written[k]
  BY DEF Expected
<1>2. NVhds \in Nat /\ \A v \in Vhds : v \in Nat /\ v >= 1 /\ v <= NVhds
  BY Bounds, VhdsNat
<1>3. \A v \in go : parent[v] \in Vhds /\ parent[v] < v
  <2>. SUFFICES ASSUME NEW v \in go PROVE parent[v] \in Vhds /\ parent[v] < v
    OBVIOUS
  <2>1. v \in Vhds /\ v \in Nat /\ parent[v] # None
    BY <1>2
  <2>2. parent[v] = v - 1 /\ v - 1 \in Vhds
    BY <2>1, ParentOf
  <2>. QED BY <2>1, <2>2
<1>4. Descends(Vhds, NVhds + 1, rank, go, parent)
  <2>1. rank \in [Vhds -> Nat] /\ \A v \in Vhds : rank[v] < NVhds + 1 /\ rank[v] = v
    BY <1>2
  <2>. HIDE DEF rank
  <2>2. go \in SUBSET Vhds
    OBVIOUS
  <2>. HIDE DEF go
  <2>. QED BY <1>2, <1>3, <2>1, <2>2 DEF Descends
<1>5. leaf \in [Vhds -> V] /\ through \in [Vhds -> [V -> V]]
  OBVIOUS
<1>6. \A v \in Vhds : leaf[v] = (IF b \in original[v] THEN v ELSE None) /\ \A w \in V : through[v][w] = w
  OBVIOUS
<1>. HIDE DEF leaf, through, rank
<1>7. PICK f \in [Vhds -> V] : Solves(f, Vhds, go, parent, leaf, through)
  BY <1>4, <1>5, Descent
<1>8. \A v \in Vhds : f[v] = IF b \in original[v] THEN v ELSE IF parent[v] = None THEN None ELSE f[parent[v]]
  <2>. SUFFICES ASSUME NEW v \in Vhds
                PROVE  f[v] = IF b \in original[v] THEN v ELSE IF parent[v] = None THEN None ELSE f[parent[v]]
    OBVIOUS
  <2>1. f[v] = IF v \in go THEN through[v][f[parent[v]]] ELSE leaf[v]
    BY <1>7 DEF Solves
  <2>2. CASE v \in go
    <3>1. f[parent[v]] \in V
      BY <1>3, <2>2
    <3>. QED BY <1>6, <2>1, <2>2, <3>1
  <2>3. CASE v \notin go
    BY <1>6, <2>1, <2>3
  <2>. QED BY <2>2, <2>3
<1>9. P(f)
  BY <1>8
<1>. HIDE DEF P
<1>10. P(written)
  BY <1>9
<1>. HIDE DEF written
<1>11. \A v \in Vhds : written[v] = IF b \in original[v] THEN v ELSE IF parent[v] = None THEN None ELSE written[parent[v]]
  BY <1>10 DEF P
<1>. QED BY <1>1, <1>11

LEMMA ReadsDef ==
  ASSUME TypeInv, NEW b, NEW w
  PROVE  \A v \in Vhds : Reads(v, b, w) <=>
             /\ Exists(v)
             /\ IF b \in table[path[v]] THEN w # None /\ blocks[path[v]][b] = w
                ELSE IF parent[path[v]] = None THEN w = None
                ELSE Reads(parent[path[v]], b, w)
<1>. DEFINE P(f) == f = [v \in Vhds |-> /\ Exists(v)
                                        /\ IF b \in table[path[v]] THEN w # None /\ blocks[path[v]][b] = w
                                           ELSE IF parent[path[v]] = None THEN w = None
                                           ELSE f[parent[path[v]]]]
            go == {v \in Vhds : Exists(v) /\ b \notin table[path[v]] /\ parent[path[v]] # None}
            next == [v \in Vhds |-> parent[path[v]]]
            rank == [v \in Vhds |-> v]
            leaf == [v \in Vhds |-> Exists(v) /\ IF b \in table[path[v]] THEN w # None /\ blocks[path[v]][b] = w ELSE w = None]
            through == [v \in Vhds |-> [o \in BOOLEAN |-> o]]
            found == CHOOSE f : P(f)
<1>1. \A v : Reads(v, b, w) = found[v]
  BY Zenon DEF Reads
<1>2. NVhds \in Nat /\ \A v \in Vhds : v \in Nat /\ v >= 1 /\ v <= NVhds
  BY Bounds, VhdsNat
<1>3. \A v \in go : next[v] = parent[path[v]] /\ parent[path[v]] \in Vhds /\ parent[path[v]] < v
  <2>. SUFFICES ASSUME NEW v \in go PROVE parent[path[v]] \in Vhds /\ parent[path[v]] < v
    OBVIOUS
  <2>1. v \in Vhds /\ v \in Nat /\ parent[path[v]] # None /\ path[v] \in Vhds /\ path[v] <= v
    BY <1>2 DEF Exists, TypeInv, FileTypes
  <2>2. parent[path[v]] = path[v] - 1 /\ path[v] - 1 \in Vhds /\ path[v] \in Nat
    BY <2>1, ParentOf
  <2>. QED BY <2>1, <2>2
<1>4. Descends(Vhds, NVhds + 1, rank, go, next)
  <2>1. rank \in [Vhds -> Nat] /\ \A v \in Vhds : rank[v] < NVhds + 1 /\ rank[v] = v
    BY <1>2
  <2>. HIDE DEF rank, next
  <2>2. go \in SUBSET Vhds
    OBVIOUS
  <2>. HIDE DEF go
  <2>. QED BY <1>2, <1>3, <2>1, <2>2 DEF Descends
<1>5. leaf \in [Vhds -> BOOLEAN]
  BY Zenon
<1>6. through \in [Vhds -> [BOOLEAN -> BOOLEAN]]
  BY Zenon
<1>7. \A v \in Vhds :
         /\ leaf[v] = (Exists(v) /\ IF b \in table[path[v]] THEN w # None /\ blocks[path[v]][b] = w ELSE w = None)
         /\ \A o \in BOOLEAN : through[v][o] = o
  BY Zenon
<1>. HIDE DEF leaf, through, rank, next
<1>8. PICK f \in [Vhds -> BOOLEAN] : Solves(f, Vhds, go, next, leaf, through)
  BY <1>4, <1>5, <1>6, Descent
<1>9. \A v \in Vhds : f[v] = (/\ Exists(v)
                              /\ IF b \in table[path[v]] THEN w # None /\ blocks[path[v]][b] = w
                                 ELSE IF parent[path[v]] = None THEN w = None
                                 ELSE f[parent[path[v]]])
  <2>. SUFFICES ASSUME NEW v \in Vhds
                PROVE  f[v] = (/\ Exists(v)
                               /\ IF b \in table[path[v]] THEN w # None /\ blocks[path[v]][b] = w
                                  ELSE IF parent[path[v]] = None THEN w = None
                                  ELSE f[parent[path[v]]])
    OBVIOUS
  <2>1. f[v] = IF v \in go THEN through[v][f[next[v]]] ELSE leaf[v]
    BY <1>8 DEF Solves
  <2>2. CASE v \in go
    <3>1. f[parent[path[v]]] \in BOOLEAN
      BY <1>3, <2>2
    <3>2. f[v] = f[parent[path[v]]]
      BY <1>3, <1>7, <2>1, <2>2, <3>1, Zenon
    <3>3. Exists(v) /\ b \notin table[path[v]] /\ parent[path[v]] # None
      BY <2>2
    <3>. QED BY <3>1, <3>2, <3>3, Zenon
  <2>3. CASE v \notin go
    <3>1. f[v] = leaf[v]
      BY <2>1, <2>3
    <3>. QED BY <1>7, <2>3, <3>1, Zenon
  <2>. QED BY <2>2, <2>3
<1>10. P(f)
  BY <1>9, Zenon
<1>. HIDE DEF P
<1>11. P(found)
  BY <1>10, Zenon
<1>. HIDE DEF found
<1>12. found = [v \in Vhds |-> /\ Exists(v)
                               /\ IF b \in table[path[v]] THEN w # None /\ blocks[path[v]][b] = w
                                  ELSE IF parent[path[v]] = None THEN w = None
                                  ELSE found[parent[path[v]]]]
  BY <1>11 DEF P
<1>. QED BY <1>1, <1>12, Zenon

\* The VHD that wrote block b of backup k.
Wrote(w, k, b) ==
    \/ w \in 1 .. k /\ b \in original[w] /\ \A u \in 1 .. k : b \in original[u] => u <= w
    \/ w = None /\ \A u \in 1 .. k : b \notin original[u]

LEMMA ExpectedWrote ==
  ASSUME TypeInv, NEW b
  PROVE  \A k \in Vhds : Wrote(Expected(k, b), k, b)
<1>. USE VhdsNat
<1>. DEFINE T == {n \in Nat : \A k \in Vhds : k <= n => Wrote(Expected(k, b), k, b)}
<1>1. 0 \in T
  <2>1. \A k \in Vhds : ~ (k <= 0)
    BY Bounds
  <2>. QED BY <2>1
<1>2. ASSUME NEW n \in Nat, n \in T PROVE n + 1 \in T
  <2>. SUFFICES ASSUME NEW k \in Vhds, k <= n + 1 PROVE Wrote(Expected(k, b), k, b)
    OBVIOUS
  <2>0. k \in Nat /\ k >= 1
    OBVIOUS
  <2>1. CASE b \in original[k]
    <3>1. Expected(k, b) = k
      BY <2>1, ExpectedDef
    <3>. QED BY <2>0, <2>1, <3>1 DEF Wrote
  <2>2. CASE b \notin original[k] /\ k = 1
    <3>1. Expected(k, b) = None
      BY <2>2, ExpectedDef, ParentOf
    <3>2. \A u \in 1 .. k : u = k
      BY <2>2
    <3>. QED BY <2>2, <3>1, <3>2 DEF Wrote
  <2>3. CASE b \notin original[k] /\ k # 1
    <3>. DEFINE j == k - 1
                w == Expected(j, b)
    <3>1. j \in Vhds /\ parent[k] = j /\ j # None /\ j <= n /\ j \in Nat
      BY <2>0, <2>3, ParentOf
    <3>2. Expected(k, b) = w
      BY <2>3, <3>1, ExpectedDef
    <3>3. Wrote(w, j, b)
      BY <1>2, <3>1
    <3>4. \A u : u \in 1 .. k <=> u \in 1 .. j \/ u = k
      BY <2>0
    <3>. HIDE DEF w, j
    <3>. QED BY <2>3, <3>2, <3>3, <3>4 DEF Wrote
  <2>. QED BY <2>1, <2>2, <2>3
<1>. HIDE DEF T
<1>3. NVhds \in T
  BY <1>1, <1>2, NatInduct, Bounds
<1>. QED BY <1>3 DEF T

-----------------------------------------------------------------------------
(* The backups are kept. *)

\* The VHDs of S follow each other.
LEMMA Follow ==
  ASSUME TypeInv, PathInv, NEW S \in SUBSET Vhds, Rooted(S)
  PROVE  \A v, w \in S : v < w => v < path[w]
<1>. USE VhdsNat
<1>1. \A v \in S : path[v] \in Vhds /\ path[v] \in Nat /\ path[v] <= v /\ v \in Nat
  BY DEF Rooted, TypeInv, FileTypes
<1>2. \A v, w \in S : path[v] = path[w] => v = w
  BY <1>1 DEF PathInv
<1>. DEFINE T == {v \in S : \E w \in S : v < w /\ path[w] <= v}
<1>3. ASSUME T # {} PROVE FALSE
  <2>1. PICK v \in T : \A u \in T : v <= u
    <3>1. T \in SUBSET Nat
      BY <1>1
    <3>. HIDE DEF T
    <3>. QED BY <1>3, <3>1, Smallest
  <2>2. PICK w \in S : v < w /\ path[w] <= v
    OBVIOUS
  <2>3. /\ v \in S /\ v \in Nat /\ w \in Nat /\ path[v] \in Nat /\ path[w] \in Nat
        /\ path[v] <= v /\ path[v] >= 1 /\ path[w] >= 1 /\ v # w /\ path[v] # path[w]
    BY <1>1, <1>2, <2>2
  <2>4. CASE path[w] < path[v]
    <3>. DEFINE u == path[v] - 1
    <3>1. u \in S
      BY <2>3, <2>4 DEF Rooted
    <3>2. u < v /\ u < w /\ path[w] <= u
      BY <2>2, <2>3, <2>4
    <3>. HIDE DEF u
    <3>3. u \in T
      BY <3>1, <3>2
    <3>. HIDE DEF T
    <3>4. v <= u /\ u \in Nat
      BY <1>1, <2>1, <3>1, <3>3
    <3>. QED BY <2>3, <3>2, <3>4
  <2>5. CASE path[v] < path[w]
    <3>. DEFINE p == path[w] - 1
    <3>1. p \in S
      BY <2>2, <2>3, <2>5 DEF Rooted
    <3>2. p < v /\ path[v] <= p
      BY <2>2, <2>3, <2>5
    <3>. HIDE DEF p
    <3>3. p \in T
      BY <2>3, <3>1, <3>2
    <3>. HIDE DEF T
    <3>4. v <= p /\ p \in Nat
      BY <1>1, <2>1, <3>1, <3>3
    <3>. QED BY <2>3, <3>2, <3>4
  <2>. QED BY <2>3, <2>4, <2>5
<1>4. ASSUME NEW v \in S, NEW w \in S, v < w PROVE v < path[w]
  <2>1. ~ (path[w] <= v)
    BY <1>3, <1>4
  <2>. QED BY <1>1, <2>1
<1>. QED BY <1>4

\* A data that has the VHDs from lo to hi has the last block they wrote.
LEMMA HoldsLast ==
  ASSUME NEW d, NEW lo \in Nat, NEW hi \in Nat, NEW b, Holds(d, lo, hi, b), NEW k \in Nat, hi <= k, lo >= 1,
         NEW w, Wrote(w, k, b), w \in lo .. hi
  PROVE  b \in table[d] /\ blocks[d][b] = w /\ w # None
<1>1. w \in Int /\ w # None /\ w \in 1 .. k /\ b \in original[w] /\ \A u \in 1 .. k : b \in original[u] => u <= w
  BY Bounds DEF Wrote
<1>2. b \in table[d]
  BY <1>1 DEF Holds
<1>. DEFINE m == blocks[d][b]
<1>3. m \in lo .. hi /\ b \in original[m] /\ w <= m
  BY <1>1, <1>2 DEF Holds
<1>. HIDE DEF m
<1>4. m \in 1 .. k /\ m \in Int
  BY <1>3
<1>5. m <= w
  BY <1>1, <1>3, <1>4
<1>6. m = w
  BY <1>1, <1>3, <1>4, <1>5
<1>. QED BY <1>1, <1>2, <1>6 DEF m

\* When no merge is under way, the VHDs of S are read as they were made.
LEMMA RestorableFromS ==
  ASSUME TypeInv, NEW S \in SUBSET Vhds, Rooted(S), NEW b \in Blocks,
         \A v \in S : Holds(path[v], path[v], v, b)
  PROVE  \A k \in S, w \in Vhds \cup {None} : Wrote(w, k, b) => Reads(k, b, w)
<1>. USE VhdsNat
<1>. DEFINE T == {n \in Nat : \A k \in S, w \in Vhds \cup {None} : k <= n /\ Wrote(w, k, b) => Reads(k, b, w)}
<1>1. 0 \in T
  <2>1. \A k \in S : ~ (k <= 0)
    BY Bounds
  <2>. QED BY <2>1
<1>2. ASSUME NEW n \in Nat, n \in T PROVE n + 1 \in T
  <2>. SUFFICES ASSUME NEW k \in S, NEW w \in Vhds \cup {None}, k <= n + 1, Wrote(w, k, b) PROVE Reads(k, b, w)
    OBVIOUS
  <2>. DEFINE p == path[k]
  <2>1. k \in Nat /\ k \in Vhds /\ p \in Vhds /\ p \in Nat /\ p >= 1 /\ p <= k /\ p # None /\ p \in data
    BY DEF Rooted, TypeInv, FileTypes
  <2>2. Exists(k)
    BY <2>1 DEF Exists
  <2>3. Holds(p, p, k, b) /\ (p = 1 \/ p - 1 \in S)
    BY DEF Rooted
  <2>4. Reads(k, b, w) <=> IF b \in table[p] THEN w # None /\ blocks[p][b] = w
                           ELSE IF parent[p] = None THEN w = None
                           ELSE Reads(parent[p], b, w)
    BY <2>1, <2>2, ReadsDef
  <2>. HIDE DEF p
  <2>5. CASE w \in p .. k
    <3>1. k <= k
      BY <2>1
    <3>2. b \in table[p] /\ blocks[p][b] = w /\ w # None
      BY <2>1, <2>3, <2>5, <3>1, HoldsLast
    <3>. QED BY <2>4, <3>2
  <2>6. CASE w \notin p .. k
    <3>1. b \notin table[p]
      <4>. SUFFICES ASSUME b \in table[p] PROVE FALSE
        OBVIOUS
      <4>. DEFINE m == blocks[p][b]
      <4>1. m \in p .. k /\ b \in original[m]
        BY <2>3 DEF Holds
      <4>. HIDE DEF m
      <4>2. m \in 1 .. k
        BY <2>1, <4>1
      <4>3. w \in 1 .. k /\ m <= w
        BY <4>1, <4>2 DEF Wrote
      <4>. QED BY <2>1, <2>6, <4>1, <4>3
    <3>2. CASE p = 1
      <4>1. w = None
        BY <2>1, <2>6, <3>2 DEF Wrote
      <4>. QED BY <2>4, <3>1, <3>2, <4>1, <2>1, ParentOf
    <3>3. CASE p # 1
      <4>. DEFINE j == p - 1
      <4>1. j \in S /\ parent[p] = j /\ j # None /\ j <= n /\ j \in Nat
        BY <2>1, <2>3, <3>3, ParentOf
      <4>2. \A u \in 1 .. j : u \in 1 .. k
        BY <2>1, <4>1
      <4>3. w \in 1 .. k => w \in 1 .. j
        BY <2>1, <2>6
      <4>. HIDE DEF j
      <4>4. Wrote(w, j, b)
        BY <4>2, <4>3 DEF Wrote
      <4>. QED BY <1>2, <2>4, <3>1, <4>1, <4>4
    <3>. QED BY <3>2, <3>3
  <2>. QED BY <2>5, <2>6
<1>. HIDE DEF T
<1>3. NVhds \in T
  BY <1>1, <1>2, NatInduct, Bounds
<1>. QED BY <1>3 DEF T

LEMMA ListedFromInv == IInv => ListedRestorable
<1>. SUFFICES ASSUME IInv, Quiet, NEW k \in jsons, NEW b \in Blocks PROVE Reads(k, b, Expected(k, b))
  BY DEF ListedRestorable, Restorable
<1>1. PICK S \in SUBSET Vhds : Needed(S)
  BY DEF IInv, Safety
<1>2. TypeInv /\ Rooted(S) /\ k \in S /\ k \in Vhds
  BY <1>1 DEF IInv, Needed, SafeInv
<1>3. Active = {}
  BY DEF Quiet, IInv, TypeInv, QueueTypes, Active, Committing
<1>4. \A v \in S : Holds(path[v], path[v], v, b)
  BY <1>1, <1>3 DEF Needed, ContentInv
<1>5. Wrote(Expected(k, b), k, b)
  BY <1>2, ExpectedWrote
<1>6. Expected(k, b) \in Vhds \cup {None}
  <2>1. \A u \in 1 .. k : u \in Vhds
    BY <1>2, VhdsNat, Bounds DEF Vhds
  <2>. QED BY <1>5, <2>1 DEF Wrote
<1>. QED BY <1>2, <1>4, <1>5, <1>6, RestorableFromS

\* A backup that is listed comes after the whole chain that is being merged, when
\* it comes after one of its VHDs.
LEMMA AfterChain ==
  ASSUME IInv, Committing, NEW S \in SUBSET Vhds, Needed(S), NEW k \in jsons, NEW i \in 1 .. Len(chain), chain[i] <= k
  PROVE  Target <= k
<1>. USE VhdsNat
<1>. DEFINE c == chain
            n == Len(c)
<1>1. TypeInv /\ Safety /\ PathInv
  BY DEF IInv, Safety
<1>2. /\ phase = "work" /\ Rooted(S) /\ Linear(c, S) /\ n \in Nat /\ n > 1 /\ Target = c[n]
      /\ \A j \in 1 .. n : c[j] \in S /\ c[j] \in Nat
  BY <1>1, CommittingChain
<1>3. k \in S /\ k \notin unused /\ k \in Nat
  BY <1>2 DEF Needed, SafeInv
<1>4. \A j \in 1 .. (n - 1) : c[j] \in unused /\ path[c[j + 1]] = c[j] + 1
  BY <1>2 DEF Linear
<1>. HIDE DEF c, n
<1>. DEFINE T == {m \in Nat : i + m <= n => c[i + m] <= k}
<1>5. 0 \in T
  <2>1. i + 0 = i
    BY DEF n, c
  <2>. QED BY <2>1 DEF c
<1>6. ASSUME NEW m \in Nat, m \in T PROVE m + 1 \in T
  <2>. SUFFICES ASSUME i + (m + 1) <= n PROVE c[i + (m + 1)] <= k
    OBVIOUS
  <2>. DEFINE j == i + m
  <2>1. j \in 1 .. (n - 1) /\ j \in 1 .. n /\ j + 1 \in 1 .. n /\ i + (m + 1) = j + 1
    BY <1>2 DEF n, c
  <2>2. c[j] <= k
    BY <1>2, <1>6, <2>1
  <2>. HIDE DEF j
  <2>3. c[j] # k
    BY <1>3, <1>4, <2>1
  <2>4. k < c[j + 1] => k < path[c[j + 1]]
    BY <1>1, <1>2, <1>3, <2>1, Follow
  <2>5. path[c[j + 1]] = c[j] + 1 /\ c[j] \in Nat /\ c[j + 1] \in Nat
    BY <1>2, <1>4, <2>1
  <2>6. c[j + 1] <= k
    BY <1>3, <2>2, <2>3, <2>4, <2>5
  <2>. QED BY <2>1, <2>6
<1>. HIDE DEF T
<1>7. n - i \in Nat /\ i + (n - i) = n
  BY <1>2 DEF n, c
<1>8. n - i \in T
  BY <1>5, <1>6, <1>7, NatInduct
<1>. QED BY <1>2, <1>7, <1>8 DEF T

LEMMA ContentFromInv == IInv /\ BackupsKept => ContentKept
<1>. USE VhdsNat
<1>. SUFFICES ASSUME IInv, BackupsKept, NEW k \in Vhds \ deleted, NEW b \in Blocks, Expected(k, b) # None
              PROVE  \E d \in data : blocks[d][b] = Expected(k, b)
  BY DEF ContentKept
<1>. DEFINE w == Expected(k, b)
<1>1. PICK S \in SUBSET Vhds : Needed(S)
  BY DEF IInv, Safety
<1>2. TypeInv /\ Safety /\ Rooted(S) /\ k \in S /\ k \in jsons /\ k \in Nat
  BY <1>1 DEF IInv, Needed, SafeInv, BackupsKept
<1>3. Wrote(w, k, b) /\ w \in 1 .. k
  <2>1. Wrote(w, k, b)
    BY <1>2, ExpectedWrote
  <2>. QED BY <2>1 DEF Wrote
<1>. HIDE DEF w
<1>4. \A v \in S : path[v] \in Vhds /\ path[v] \in Nat /\ path[v] >= 1 /\ path[v] <= v /\ v \in Nat /\ path[v] \in data
  BY <1>2 DEF Rooted, TypeInv, FileTypes
<1>5. \E v \in S : w \in path[v] .. v /\ v <= k
  <2>. DEFINE V == {v \in S : w <= v /\ v <= k}
  <2>1. V \in SUBSET Nat /\ k \in V
    <3>1. w <= k /\ k <= k
      BY <1>2, <1>3
    <3>. QED BY <1>2, <1>4, <3>1
  <2>2. PICK v \in V : \A u \in V : v <= u
    <3>. HIDE DEF V
    <3>. QED BY <2>1, Smallest
  <2>3. path[v] <= w
    <3>. SUFFICES ASSUME w < path[v] PROVE FALSE
      BY <1>3, <1>4
    <3>. DEFINE u == path[v] - 1
    <3>1. u \in S /\ u \in Nat /\ u < v /\ w <= u
      BY <1>2, <1>3, <1>4 DEF Rooted
    <3>2. v \in Nat /\ v <= k
      BY <1>4
    <3>. HIDE DEF u
    <3>3. u \in V
      BY <1>2, <3>1, <3>2
    <3>. HIDE DEF V
    <3>. QED BY <2>2, <3>1, <3>2, <3>3
  <2>4. v \in S /\ w <= v /\ v <= k
    OBVIOUS
  <2>. HIDE DEF V
  <2>. QED BY <1>3, <1>4, <2>3, <2>4
<1>6. PICK v \in S : w \in path[v] .. v /\ v <= k
  BY <1>5
<1>7. ASSUME Holds(path[v], path[v], v, b) PROVE blocks[path[v]][b] = w /\ path[v] \in data
  <2>1. path[v] \in Nat /\ path[v] >= 1 /\ v \in Nat /\ path[v] \in data
    BY <1>4
  <2>2. v <= k /\ w \in path[v] .. v
    BY <1>6
  <2>3. Wrote(w, k, b) /\ k \in Nat
    BY <1>2, <1>3
  <2>. QED BY <1>7, <2>1, <2>2, <2>3, HoldsLast
<1>8. CASE v \notin Active
  <2>1. Holds(path[v], path[v], v, b)
    BY <1>1, <1>8 DEF Needed, ContentInv
  <2>. QED BY <1>7, <2>1 DEF w
<1>9. CASE v \in Active
  <2>1. Committing /\ Active = Elems(chain)
    BY <1>9 DEF Active
  <2>. DEFINE c == chain
              n == Len(c)
  <2>2. /\ n \in Nat /\ n > 1 /\ Target = c[n] /\ c \in Seq(Vhds) /\ Linear(c, S)
        /\ \A i \in 1 .. n : c[i] \in S /\ opened[i] = path[c[i]] /\ opened[i] \in data
    BY <1>1, <1>2, <2>1, CommittingChain
  <2>3. PICK i \in 1 .. n : v = c[i]
    BY <1>9, <2>1 DEF Elems
  <2>4. CASE b \in todo
    <3>1. Holds(path[v], path[v], v, b)
      BY <1>1, <2>1, <2>2, <2>3, <2>4 DEF Needed, ContentInv
    <3>. QED BY <1>7, <3>1 DEF w
  <2>5. CASE b \notin todo
    <3>. DEFINE a == opened[1]
    <3>1. Holds(a, a, Target, b)
      BY <1>1, <2>1, <2>5 DEF Needed, ContentInv
    <3>2. Target <= k
      BY <1>1, <1>2, <1>6, <2>1, <2>3, AfterChain
    <3>3. 1 \in 1 .. n /\ n \in 1 .. n
      BY <2>2
    <3>4. a \in Nat /\ a >= 1 /\ a <= c[1] /\ a = path[c[1]] /\ a \in data /\ Target \in Nat /\ c[1] \in Nat
      BY <1>4, <2>2, <3>3
    <3>5. a <= path[v] /\ v <= Target
      <4>1. \A x, y \in 1 .. n : x < y => c[x] < path[c[y]] /\ c[x] < c[y]
        BY <1>2, <2>2, LinearOrder
      <4>2. i = 1 \/ c[1] < path[c[i]]
        BY <2>2, <3>3, <4>1
      <4>3. i = n \/ c[i] < c[n]
        BY <2>2, <3>3, <4>1
      <4>4. path[v] \in Nat /\ v \in Nat
        BY <1>4
      <4>. HIDE DEF c, n
      <4>5. a <= path[v]
        BY <2>3, <3>4, <4>2, <4>4
      <4>6. v <= Target
        BY <2>2, <2>3, <3>4, <4>3, <4>4
      <4>. QED BY <4>5, <4>6
    <3>. HIDE DEF a
    <3>6. w \in a .. Target
      BY <1>3, <1>4, <1>6, <3>4, <3>5
    <3>7. blocks[a][b] = w
      <4>1. a \in Nat /\ a >= 1 /\ Target \in Nat /\ k \in Nat /\ Wrote(w, k, b)
        BY <1>2, <1>3, <3>4
      <4>. QED BY <3>1, <3>2, <3>6, <4>1, HoldsLast
    <3>. QED BY <3>4, <3>7 DEF w
  <2>. QED BY <2>4, <2>5
<1>. QED BY <1>8, <1>9

\* Whatever the order of the steps and the crashes outside the commit of a merge,
\* cleanVm() deletes no metadata of a backup that the user did not delete.
THEOREM KeepsBackups ==
  ASSUME OrderlyCrashes
  PROVE  Spec => []BackupsKept
<1>1. Init => BackupsKept
  BY DEF Init, BackupsKept
<1>2. IInv /\ BackupsKept /\ [Next]_vars => BackupsKept'
  BY KeptNext
<1>. QED BY <1>1, <1>2, Inductive, PTL DEF Spec

\* Each time nothing is under way, every backup that is listed is read as it was
\* made, from whatever data its path leads to.
THEOREM ListedBackupsRestorable ==
  ASSUME OrderlyCrashes
  PROVE  Spec => []ListedRestorable
<1>. QED BY Inductive, ListedFromInv, PTL

\* Each time nothing is under way, so is every backup that the user did not delete.
THEOREM KeptBackupsRestorable ==
  ASSUME OrderlyCrashes
  PROVE  Spec => []BackupsRestorable
<1>1. BackupsKept /\ ListedRestorable => BackupsRestorable
  BY DEF BackupsKept, ListedRestorable, BackupsRestorable
<1>. QED BY <1>1, KeepsBackups, ListedBackupsRestorable, PTL

\* At every step of a run and of a merge, each block of a backup that the user did
\* not delete is stored in some data: none is lost on its way to the ancestor.
THEOREM KeepsContent ==
  ASSUME OrderlyCrashes
  PROVE  Spec => []ContentKept
<1>. QED BY Inductive, KeepsBackups, ContentFromInv, PTL

=============================================================================
