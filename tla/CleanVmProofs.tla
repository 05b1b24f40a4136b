--------------------------- MODULE CleanVmProofs ---------------------------
(***************************************************************************)
(* The types of CleanVm, for every number of backups and blocks, every     *)
(* transfer and crashes at every step, and the lemmas on its recursive     *)
(* functions that CleanVmKeptProofs needs too.                             *)
(***************************************************************************)
EXTENDS CleanVm, FiniteSetTheorems, WellFoundedInduction, TLAPS

LEMMA Bounds ==
    /\ NVhds \in Nat \ {0} /\ NBlocks \in Nat \ {0} /\ Concurrency \in Nat \ {0}
    /\ MaxDeleted \in Nat /\ MaxCrashes \in Nat
    /\ CrashSteps \subseteq MergeSteps
    /\ None \notin Int /\ None \notin Seq(Int)
  BY CleanVmAssumption

LEMMA VhdsNat ==
    /\ Vhds \in SUBSET Nat /\ Vhds \in SUBSET Int /\ None \notin Vhds
    /\ \A v \in Vhds : v \in Nat /\ v >= 1 /\ v <= NVhds
    /\ \A v \in Nat : v >= 1 /\ v <= NVhds => v \in Vhds
    /\ 1 \in Vhds
  BY Bounds DEF Vhds

-----------------------------------------------------------------------------
(* Recursive functions. *)

LEMMA NatInduct ==
  ASSUME NEW S, 0 \in S, \A n \in Nat : n \in S => n + 1 \in S
  PROVE  Nat \subseteq S
<1>. SUFFICES ASSUME NEW y \in Nat, y \notin S PROVE FALSE
  OBVIOUS
<1>1. y \in Nat \ S
  OBVIOUS
<1>2. PICK x \in Nat \ S : \A z \in Nat \ S : <<z, x>> \notin OpToRel(<, Nat)
  BY <1>1, WFMin, NatLessThanWellFounded
<1>3. x # 0 /\ x - 1 \in Nat
  OBVIOUS
<1>4. <<x - 1, x>> \in OpToRel(<, Nat)
  BY <1>3 DEF OpToRel
<1>5. x - 1 \in S
  BY <1>2, <1>3, <1>4
<1>. QED BY <1>3, <1>5

\* A set of numbers that is not empty has a smallest one.
LEMMA Smallest ==
  ASSUME NEW S \in SUBSET Nat, S # {}
  PROVE  \E x \in S : \A y \in S : x <= y
<1>1. PICK x \in S : \A z \in S : <<z, x>> \notin OpToRel(<, Nat)
  BY WFMin, NatLessThanWellFounded
<1>2. \A z \in S : ~ (z < x)
  BY <1>1 DEF OpToRel
<1>. QED BY <1>2

\* Where a function takes the value it has at next[k], of a lower rank.
Descends(D, bound, rank, go, next) ==
    /\ bound \in Nat /\ rank \in [D -> Nat] /\ \A k \in D : rank[k] < bound
    /\ go \in SUBSET D
    /\ \A k \in go : next[k] \in D /\ rank[next[k]] < rank[k]

Solves(f, D, go, next, leaf, through) ==
    \A k \in D : f[k] = IF k \in go THEN through[k][f[next[k]]] ELSE leaf[k]

LEMMA Descent ==
  ASSUME NEW D, NEW V, NEW bound, NEW rank, NEW go, NEW next, NEW leaf, NEW through,
         Descends(D, bound, rank, go, next), leaf \in [D -> V], through \in [D -> [V -> V]]
  PROVE  \E f \in [D -> V] : Solves(f, D, go, next, leaf, through)
<1>. USE DEF Descends
<1>. DEFINE Good(f, n) == \A k \in D : rank[k] < n \/ k \notin go =>
                              f[k] = IF k \in go THEN through[k][f[next[k]]] ELSE leaf[k]
            S == {n \in Nat : \E f \in [D -> V] : Good(f, n)}
<1>1. 0 \in S
  <2>1. Good(leaf, 0)
    OBVIOUS
  <2>. QED BY <2>1
<1>2. ASSUME NEW n \in Nat, n \in S PROVE n + 1 \in S
  <2>1. PICK f \in [D -> V] : Good(f, n)
    BY <1>2
  <2>. DEFINE g == [k \in D |-> IF k \in go /\ rank[k] = n THEN through[k][f[next[k]]] ELSE f[k]]
  <2>2. g \in [D -> V]
    <3>1. \A k \in D : k \in go => through[k][f[next[k]]] \in V
      OBVIOUS
    <3>. QED BY <3>1
  <2>3. \A k \in D : g[k] = IF k \in go /\ rank[k] = n THEN through[k][f[next[k]]] ELSE f[k]
    OBVIOUS
  <2>4. \A k \in go : rank[k] < n + 1 => g[next[k]] = f[next[k]]
    <3>. SUFFICES ASSUME NEW k \in go, rank[k] < n + 1 PROVE g[next[k]] = f[next[k]]
      OBVIOUS
    <3>1. next[k] \in D /\ rank[next[k]] < n
      <4>1. k \in D /\ next[k] \in D /\ rank[next[k]] < rank[k] /\ rank[k] \in Nat /\ rank[next[k]] \in Nat
        OBVIOUS
      <4>. QED BY <4>1
    <3>. QED BY <2>3, <3>1
  <2>. HIDE DEF g
  <2>5. ASSUME NEW k \in D, rank[k] < n + 1 \/ k \notin go
        PROVE  g[k] = IF k \in go THEN through[k][g[next[k]]] ELSE leaf[k]
    <3>1. rank[k] \in Nat
      OBVIOUS
    <3>2. CASE k \in go /\ rank[k] = n
      BY <2>3, <2>4, <2>5, <3>2
    <3>3. CASE k \in go /\ rank[k] # n
      <4>1. rank[k] < n
        BY <2>5, <3>1, <3>3
      <4>. QED BY <2>1, <2>3, <2>4, <2>5, <3>3, <4>1
    <3>4. CASE k \notin go
      BY <2>1, <2>3, <3>4
    <3>. QED BY <3>2, <3>3, <3>4
  <2>. QED BY <2>2, <2>5
<1>. HIDE DEF S
<1>3. bound \in S
  BY <1>1, <1>2, NatInduct
<1>4. PICK f \in [D -> V] : Good(f, bound)
  BY <1>3 DEF S
<1>. QED BY <1>4 DEF Solves

-----------------------------------------------------------------------------
(* The chains to merge. *)

IsChain(c) == c \in Seq(Vhds) /\ Len(c) > 0 /\ c[1] <= c[Len(c)]

\* A child comes after its parent.
Younger(ch) == ch \in [Vhds -> Vhds \cup {None}] /\ \A v \in Vhds : ch[v] # None => ch[v] > v

LEMMA ChildChainDef ==
  ASSUME Younger(child)
  PROVE  \A v \in Vhds : UsedChildChain[v] =
             IF v \notin unused THEN <<v>>
             ELSE IF child[v] = None \/ UsedChildChain[child[v]] = <<>> THEN <<>>
             ELSE <<v>> \o UsedChildChain[child[v]]
<1>. DEFINE P(f) == f = [v \in Vhds |-> IF v \notin unused THEN <<v>>
                                        ELSE IF child[v] = None \/ f[child[v]] = <<>> THEN <<>>
                                        ELSE <<v>> \o f[child[v]]]
            go == {v \in Vhds : v \in unused /\ child[v] # None}
            rank == [v \in Vhds |-> NVhds - v]
            leaf == [v \in Vhds |-> IF v \notin unused THEN <<v>> ELSE <<>>]
            through == [v \in Vhds |-> [s \in Seq(Vhds) |-> IF s = <<>> THEN <<>> ELSE <<v>> \o s]]
<1>1. UsedChildChain = CHOOSE f : P(f)
  BY DEF UsedChildChain
<1>2. Descends(Vhds, NVhds + 1, rank, go, child)
  <2>1. NVhds \in Nat /\ \A v \in Vhds : v \in Nat /\ v >= 1 /\ v <= NVhds
    BY Bounds, VhdsNat
  <2>2. rank \in [Vhds -> Nat] /\ \A v \in Vhds : rank[v] < NVhds + 1
    BY <2>1
  <2>3. \A v \in go : child[v] \in Vhds /\ child[v] > v
    BY DEF Younger
  <2>4. \A v \in go : rank[child[v]] < rank[v]
    <3>1. \A v \in Vhds, w \in Vhds : w > v => rank[w] < rank[v]
      BY <2>1
    <3>. QED BY <2>3, <3>1
  <2>. HIDE DEF rank
  <2>. QED BY <2>1, <2>2, <2>3, <2>4 DEF Descends
<1>3. leaf \in [Vhds -> Seq(Vhds)] /\ through \in [Vhds -> [Seq(Vhds) -> Seq(Vhds)]]
  <2>1. \A v \in Vhds : (IF v \notin unused THEN <<v>> ELSE <<>>) \in Seq(Vhds)
    OBVIOUS
  <2>2. \A v \in Vhds : \A s \in Seq(Vhds) : (IF s = <<>> THEN <<>> ELSE <<v>> \o s) \in Seq(Vhds)
    OBVIOUS
  <2>. QED BY <2>1, <2>2
<1>4. \A v \in go : child[v] \in Vhds
  BY DEF Younger
<1>5. \A v \in Vhds : leaf[v] = (IF v \notin unused THEN <<v>> ELSE <<>>)
  OBVIOUS
<1>6. \A v \in Vhds : \A s \in Seq(Vhds) : through[v][s] = (IF s = <<>> THEN <<>> ELSE <<v>> \o s)
  OBVIOUS
<1>. HIDE DEF leaf, through, rank
<1>7. PICK f \in [Vhds -> Seq(Vhds)] : Solves(f, Vhds, go, child, leaf, through)
  BY <1>2, <1>3, Descent
<1>8. \A v \in Vhds : f[v] = IF v \notin unused THEN <<v>>
                             ELSE IF child[v] = None \/ f[child[v]] = <<>> THEN <<>>
                             ELSE <<v>> \o f[child[v]]
  <2>. SUFFICES ASSUME NEW v \in Vhds
                PROVE  f[v] = IF v \notin unused THEN <<v>>
                              ELSE IF child[v] = None \/ f[child[v]] = <<>> THEN <<>>
                              ELSE <<v>> \o f[child[v]]
    OBVIOUS
  <2>1. f[v] = IF v \in go THEN through[v][f[child[v]]] ELSE leaf[v]
    BY <1>7 DEF Solves
  <2>2. CASE v \in go
    <3>1. f[child[v]] \in Seq(Vhds)
      BY <1>4, <2>2
    <3>. QED BY <1>6, <2>1, <2>2, <3>1
  <2>3. CASE v \notin go
    BY <1>5, <2>1, <2>3
  <2>. QED BY <2>2, <2>3
<1>9. P(f)
  BY <1>8
<1>. HIDE DEF P
<1>10. P(UsedChildChain)
  BY <1>1, <1>9
<1>. QED BY <1>10 DEF P

\* A chain goes from its VHD to a later one.
LEMMA ChildChainType ==
  ASSUME Younger(child)
  PROVE  \A v \in Vhds : LET c == UsedChildChain[v]
                         IN c = <<>> \/ (IsChain(c) /\ c[1] = v)
<1>. DEFINE Typed(v) == LET c == UsedChildChain[v] IN c = <<>> \/ (IsChain(c) /\ c[1] = v)
            S == {n \in Nat : \A v \in Vhds : v > NVhds - n => Typed(v)}
<1>1. 0 \in S
  BY VhdsNat, Bounds
<1>2. ASSUME NEW n \in Nat, n \in S PROVE n + 1 \in S
  <2>. SUFFICES ASSUME NEW v \in Vhds, v > NVhds - (n + 1) PROVE Typed(v)
    OBVIOUS
  <2>0. v \in Nat /\ NVhds \in Nat
    BY VhdsNat, Bounds
  <2>1. CASE v \notin unused
    <3>1. UsedChildChain[v] = <<v>>
      BY <2>1, ChildChainDef
    <3>. QED BY <2>0, <3>1 DEF IsChain
  <2>2. CASE v \in unused /\ child[v] # None /\ UsedChildChain[child[v]] # <<>>
    <3>. DEFINE d == UsedChildChain[child[v]]
    <3>1. child[v] \in Vhds /\ child[v] > v /\ child[v] \in Nat
      BY <2>2, VhdsNat DEF Younger
    <3>2. child[v] > NVhds - n
      BY <2>0, <3>1
    <3>3. IsChain(d) /\ d[1] = child[v]
      BY <1>2, <2>2, <3>1, <3>2
    <3>4. UsedChildChain[v] = <<v>> \o d
      BY <2>2, ChildChainDef
    <3>. HIDE DEF d
    <3>. DEFINE c == <<v>> \o d
    <3>5. d \in Seq(Vhds) /\ Len(d) \in Nat /\ Len(d) > 0 /\ d[1] <= d[Len(d)]
      BY <3>3 DEF IsChain
    <3>6. c \in Seq(Vhds) /\ Len(c) = Len(d) + 1 /\ c[1] = v /\ c[Len(d) + 1] = d[Len(d)]
      BY <3>5
    <3>7. d[Len(d)] \in Nat
      <4>1. d[Len(d)] \in Vhds
        BY <3>5
      <4>. QED BY <4>1, VhdsNat
    <3>8. v <= d[Len(d)]
      BY <2>0, <3>1, <3>3, <3>5, <3>7
    <3>. HIDE DEF c
    <3>. QED BY <3>4, <3>5, <3>6, <3>8 DEF IsChain, c
  <2>3. CASE v \in unused /\ (child[v] = None \/ UsedChildChain[child[v]] = <<>>)
    BY <2>3, ChildChainDef
  <2>. QED BY <2>1, <2>2, <2>3
<1>. HIDE DEF S
<1>3. NVhds \in S
  BY <1>1, <1>2, NatInduct, Bounds
<1>4. \A v \in Vhds : v > NVhds - NVhds
  BY VhdsNat, Bounds
<1>. QED BY <1>3, <1>4 DEF S

\* VHDs can be put in order.
LEMMA InOrderType ==
  ASSUME NEW T \in SUBSET Vhds
  PROVE  /\ IsFiniteSet(T) /\ Cardinality(T) \in Nat
         /\ InOrder(T) \in [1 .. Cardinality(T) -> T]
         /\ \A i, j \in DOMAIN InOrder(T) : i < j => InOrder(T)[i] < InOrder(T)[j]
<1>. DEFINE Ordered(s, U) == /\ s \in [1 .. Cardinality(U) -> U]
                             /\ \A i, j \in DOMAIN s : i < j => s[i] < s[j]
            upTo(n) == {v \in T : v <= n}
            S == {n \in Nat : IsFiniteSet(upTo(n)) /\ \E s : Ordered(s, upTo(n))}
<1>0. \A v \in T : v \in Nat /\ v >= 1 /\ v <= NVhds
  BY VhdsNat
<1>1. 0 \in S
  <2>1. upTo(0) = {}
    BY <1>0
  <2>2. IsFiniteSet({}) /\ Cardinality({}) = 0
    BY FS_EmptySet
  <2>3. Ordered(<<>>, {})
    BY <2>2
  <2>. HIDE DEF Ordered, upTo
  <2>4. IsFiniteSet(upTo(0)) /\ \E s : Ordered(s, upTo(0))
    BY <2>1, <2>2, <2>3
  <2>. QED BY <2>4
<1>2. ASSUME NEW n \in Nat, n \in S PROVE n + 1 \in S
  <2>1. IsFiniteSet(upTo(n)) /\ \E s : Ordered(s, upTo(n))
    BY <1>2
  <2>2. PICK s : Ordered(s, upTo(n))
    BY <2>1
  <2>3. CASE n + 1 \notin T
    <3>1. upTo(n + 1) = upTo(n)
      <4>1. \A v \in T : v <= n + 1 <=> v <= n
        BY <1>0, <2>3
      <4>. QED BY <4>1
    <3>. HIDE DEF Ordered, upTo
    <3>. QED BY <2>1, <3>1
  <2>4. CASE n + 1 \in T
    <3>. DEFINE k == Cardinality(upTo(n))
                t == [i \in 1 .. k + 1 |-> IF i = k + 1 THEN n + 1 ELSE s[i]]
    <3>1. upTo(n + 1) = upTo(n) \cup {n + 1} /\ n + 1 \notin upTo(n)
      <4>1. \A v \in T : v <= n + 1 <=> v <= n \/ v = n + 1
        BY <1>0
      <4>. QED BY <2>4, <4>1
    <3>2. k \in Nat
      BY <2>1, FS_CardinalityType
    <3>3. IsFiniteSet(upTo(n + 1)) /\ Cardinality(upTo(n + 1)) = k + 1
      <4>. HIDE DEF upTo
      <4>. QED BY <2>1, <3>1, FS_AddElement
    <3>4. \A i \in 1 .. k : s[i] \in upTo(n) /\ s[i] \in Nat /\ s[i] < n + 1
      <4>1. \A v \in upTo(n) : v \in Nat /\ v < n + 1
        BY <1>0
      <4>. HIDE DEF upTo
      <4>. QED BY <2>2, <4>1
    <3>5. \A i, j \in 1 .. k : i < j => s[i] < s[j]
      BY <2>2
    <3>. HIDE DEF k
    <3>6. t \in [1 .. k + 1 -> upTo(n + 1)]
      <4>. HIDE DEF upTo
      <4>. QED BY <3>1, <3>2, <3>4
    <3>7. \A i, j \in 1 .. k + 1 : i < j => t[i] < t[j]
      BY <3>2, <3>4, <3>5
    <3>8. DOMAIN t = 1 .. k + 1
      OBVIOUS
    <3>. HIDE DEF t, upTo
    <3>9. Ordered(t, upTo(n + 1))
      BY <3>3, <3>6, <3>7, <3>8
    <3>. HIDE DEF Ordered
    <3>. QED BY <3>3, <3>9
  <2>. QED BY <2>3, <2>4
<1>3. NVhds \in S
  <2>. HIDE DEF S
  <2>. QED BY <1>1, <1>2, NatInduct, Bounds
<1>4. upTo(NVhds) = T
  BY <1>0
<1>5. IsFiniteSet(T) /\ \E s : Ordered(s, T)
  <2>. HIDE DEF upTo, Ordered
  <2>. QED BY <1>3, <1>4
<1>6. Cardinality(T) \in Nat
  BY <1>5, FS_CardinalityType
<1>7. InOrder(T) \in [1 .. Cardinality(T) -> T] /\ \A i, j \in DOMAIN InOrder(T) : i < j => InOrder(T)[i] < InOrder(T)[j]
  BY <1>5 DEF InOrder
<1>. QED BY <1>5, <1>6, <1>7

LEMMA IsSeq ==
  ASSUME NEW T, NEW n \in Nat, NEW s \in [1 .. n -> T]
  PROVE  s \in Seq(T) /\ Len(s) = n
  OBVIOUS

\* The chains that cleanVm() asks to merge: those of the heads, then those of
\* the state files.
LEMMA ToMergeType ==
  ASSUME Younger(child), unused \subseteq Vhds, \A v \in Vhds : resumed[v] # None => IsChain(resumed[v])
  PROVE  ToMerge \in Seq(Seq(Vhds)) /\ \A i \in 1 .. Len(ToMerge) : IsChain(ToMerge[i])
<1>. DEFINE a == InOrder(Heads)
            b == InOrder(Interrupted \ Heads)
            order == a \o b
<1>1. Heads \in SUBSET Vhds /\ Interrupted \in SUBSET Vhds /\ Interrupted \ Heads \in SUBSET Vhds
  BY DEF Heads, Interrupted
<1>2. a \in Seq(Heads) /\ b \in Seq(Interrupted \ Heads)
  <2>1. /\ a \in [1 .. Cardinality(Heads) -> Heads] /\ Cardinality(Heads) \in Nat
        /\ b \in [1 .. Cardinality(Interrupted \ Heads) -> Interrupted \ Heads]
        /\ Cardinality(Interrupted \ Heads) \in Nat
    BY <1>1, InOrderType
  <2>. QED BY <2>1, IsSeq
<1>3. order \in Seq(Heads \cup Interrupted)
  <2>1. a \in Seq(Heads \cup Interrupted) /\ b \in Seq(Heads \cup Interrupted)
    BY <1>2
  <2>. HIDE DEF a, b
  <2>. QED BY <2>1
<1>4. ToMerge = [i \in DOMAIN order |-> ChainOf(order[i])]
  BY DEF ToMerge
<1>. HIDE DEF order, a, b
<1>5. \A v \in Heads \cup Interrupted : IsChain(ChainOf(v))
  <2>. SUFFICES ASSUME NEW v \in Heads \cup Interrupted PROVE IsChain(ChainOf(v))
    OBVIOUS
  <2>1. CASE v \in Interrupted
    BY <2>1 DEF ChainOf, Interrupted
  <2>2. CASE v \notin Interrupted
    <3>1. v \in Vhds /\ UsedChildChain[v] # <<>>
      BY <2>2 DEF Heads
    <3>2. IsChain(UsedChildChain[v])
      BY <3>1, ChildChainType
    <3>. QED BY <2>2, <3>2 DEF ChainOf
  <2>. QED BY <2>1, <2>2
<1>6. DOMAIN order = 1 .. Len(order) /\ Len(order) \in Nat
  BY <1>3
<1>7. \A i \in 1 .. Len(order) : IsChain(ToMerge[i]) /\ ToMerge[i] \in Seq(Vhds)
  <2>1. \A i \in 1 .. Len(order) : order[i] \in Heads \cup Interrupted /\ ToMerge[i] = ChainOf(order[i])
    BY <1>3, <1>4, <1>6
  <2>. QED BY <1>5, <2>1 DEF IsChain
<1>8. ToMerge \in Seq(Seq(Vhds)) /\ Len(ToMerge) = Len(order)
  <2>1. ToMerge \in [1 .. Len(order) -> Seq(Vhds)]
    BY <1>4, <1>6, <1>7
  <2>. QED BY <1>6, <2>1
<1>. QED BY <1>7, <1>8

-----------------------------------------------------------------------------
(* Type correctness.  The data that a merge opened must be known to be VHDs  *)
(* for the blocks and the footer it writes to have a type; the chains must   *)
(* go from a VHD to a later one for a path to lead to older data.            *)

StateFiles == [step : {"mergeBlocks", "cleanupVhds"}, chain : Seq(Vhds), data : Seq(Vhds \cup {None})]

HistoryTypes ==
    /\ original \in [Vhds -> SUBSET Blocks]
    /\ parent = [v \in Vhds |-> IF v = 1 THEN None ELSE v - 1]
    /\ deleted \subseteq Vhds
    /\ table \in [Vhds -> SUBSET Blocks]
    /\ uuid \in [Vhds -> Vhds]
    /\ jsons \subseteq Vhds
    /\ crashes \in 0 .. MaxCrashes

FileTypes ==
    /\ path \in [Vhds -> Vhds \cup {None}]
    /\ \A v \in Vhds : path[v] # None => path[v] <= v
    /\ data \subseteq Vhds
    /\ blocks \in [Vhds -> [Blocks -> Vhds \cup {None}]]

StateTypes ==
    /\ states \in [Vhds -> StateFiles \cup {None}]
    /\ \A v \in Vhds : states[v] # None => IsChain(states[v].chain)

CheckTypes ==
    /\ vhds \subseteq Vhds
    /\ pending \subseteq Vhds
    /\ parents \in [Vhds -> Vhds \cup {None}]
    /\ byId \in [Vhds -> Vhds \cup {None}]
    /\ Younger(child)
    /\ DOMAIN resumed = Vhds
    /\ \A v \in Vhds : resumed[v] # None => IsChain(resumed[v])
    /\ unused \subseteq Vhds

RunTypes ==
    /\ phase \in Phases
    /\ merging \in BOOLEAN
    /\ doomed \subseteq Vhds
    /\ merged \subseteq Vhds

QueueTypes ==
    /\ queue \in Seq(Seq(Vhds))
    /\ \A i \in 1 .. Len(queue) : IsChain(queue[i])
    /\ chain # <<>> => IsChain(chain)
    /\ step # "none" <=> chain # <<>>
    /\ stale \in 0 .. Unmerged

MergeTypes ==
    /\ step \in MergeSteps
    /\ opened \in Seq(Vhds \cup {None})
    /\ step \in {"blocks", "failing"} => opened \in Seq(Vhds) /\ Len(opened) > 0
    /\ step \in {"blocks", "failing"} => \A b \in todo : InChildren(opened, b)
    /\ todo \subseteq Blocks
    /\ resuming \in BOOLEAN

TypeInv ==
    /\ HistoryTypes /\ FileTypes /\ StateTypes
    /\ CheckTypes /\ RunTypes
    /\ QueueTypes /\ MergeTypes

LEMMA TypeInvInit == Init => TypeInv
<1>. SUFFICES ASSUME Init PROVE TypeInv
  OBVIOUS
<1>. USE Bounds, VhdsNat DEF Init, NoVhd
<1>1. HistoryTypes
  BY DEF HistoryTypes
<1>5. RunTypes
  BY DEF RunTypes, Phases
<1>2. FileTypes
  BY DEF FileTypes
<1>3. StateTypes /\ CheckTypes
  BY DEF StateTypes, CheckTypes, Younger
<1>4. QueueTypes
  BY DEF QueueTypes, Unmerged
<1>6. MergeTypes
  <2>1. step \in MergeSteps /\ todo \subseteq Blocks /\ resuming \in BOOLEAN
    BY DEF MergeSteps
  <2>2. opened \in Seq(Vhds \cup {None})
    OBVIOUS
  <2>3. step \notin {"blocks", "failing"}
    OBVIOUS
  <2>. QED BY <2>1, <2>2, <2>3 DEF MergeTypes
<1>. QED BY <1>1, <1>2, <1>3, <1>4, <1>5, <1>6 DEF TypeInv

LEMMA EraseTypes ==
  ASSUME FileTypes, NEW d, EraseData(d)
  PROVE  data' \subseteq Vhds /\ blocks' \in [Vhds -> [Blocks -> Vhds \cup {None}]]
  BY DEF FileTypes, EraseData

LEMMA UnlinkTypes ==
  ASSUME FileTypes, NEW v \in Vhds, Unlink(v)
  PROVE  FileTypes'
<1>1. data' \subseteq Vhds /\ blocks' \in [Vhds -> [Blocks -> Vhds \cup {None}]]
  BY EraseTypes DEF Unlink, FileTypes
<1>2. path' = path \/ path' = [path EXCEPT ![v] = None]
  BY DEF Unlink
<1>3. path' \in [Vhds -> Vhds \cup {None}] /\ \A w \in Vhds : path'[w] # None => path'[w] <= w
  BY <1>2 DEF FileTypes
<1>. QED BY <1>1, <1>3 DEF FileTypes

\* What cleanVm() changes before the merges.
LEMMA CleanTypes ==
  ASSUME TypeInv, Clean \/ Start(FALSE) \/ \E k \in Vhds : DeleteBackup(k)
  PROVE  TypeInv'
<1>. USE VhdsNat DEF TypeInv
<1>1. ASSUME NEW m \in BOOLEAN, Start(m) PROVE TypeInv'
  <2>. USE <1>1 DEF Start, backups, repository, merge
  <2>1. HistoryTypes' /\ FileTypes' /\ StateTypes'
    BY DEF HistoryTypes, FileTypes, StateTypes
  <2>2. RunTypes' /\ QueueTypes'
    BY DEF RunTypes, QueueTypes, Unmerged, Phases
  <2>3. MergeTypes'
    BY DEF MergeTypes, InChildren
  <2>4. CheckTypes'
    BY DEF CheckTypes, StateTypes, Younger, NoVhd
  <2>. QED BY <2>1, <2>2, <2>3, <2>4
<1>2. ASSUME NEW v \in Vhds, CheckVhd(v) PROVE TypeInv'
  <2>. USE <1>2 DEF CheckVhd, backups, repository, merge
  <2>1. HistoryTypes' /\ FileTypes' /\ StateTypes'
    BY DEF HistoryTypes, FileTypes, StateTypes
  <2>2. RunTypes' /\ QueueTypes'
    BY DEF RunTypes, QueueTypes, Unmerged, Phases
  <2>3. MergeTypes'
    BY DEF MergeTypes, InChildren
  <2>4. ASSUME ~Exists(v) PROVE CheckTypes'
    BY <2>4 DEF CheckTypes, Younger
  <2>5. ASSUME Exists(v) PROVE CheckTypes'
    <3>. DEFINE p == parent[path[v]]
    <3>1. path[v] \in Vhds /\ path[v] <= v
      BY <2>5 DEF FileTypes, Exists
    <3>2. p \in Vhds \cup {None} /\ (p # None => p < v)
      <4>1. p = IF path[v] = 1 THEN None ELSE path[v] - 1
        BY <3>1 DEF HistoryTypes
      <4>2. path[v] \in Nat /\ path[v] >= 1 /\ path[v] <= NVhds /\ v \in Nat
        BY <3>1
      <4>3. path[v] # 1 => path[v] - 1 \in Vhds
        BY <4>2, Bounds DEF Vhds
      <4>. QED BY <3>1, <4>1, <4>2, <4>3
    <3>3. /\ parents' = [parents EXCEPT ![v] = p]
          /\ child' = IF p # None /\ child[p] = None THEN [child EXCEPT ![p] = v] ELSE child
          /\ byId' = byId \/ byId' = [byId EXCEPT ![uuid[path[v]]] = v]
          /\ vhds' \subseteq vhds /\ pending' = pending \ {v}
          /\ UNCHANGED <<resumed, unused>>
      BY <2>5
    <3>. HIDE <1>2 DEF p, CheckVhd
    <3>4. Younger(child')
      <4>1. p # None /\ child[p] = None => p \in Vhds /\ v > p
        BY <3>2
      <4>. QED BY <3>3, <4>1 DEF CheckTypes, Younger
    <3>. QED BY <3>2, <3>3, <3>4 DEF CheckTypes, Younger
  <2>. QED BY <2>1, <2>2, <2>3, <2>4, <2>5
<1>3. ASSUME EndCheck \/ EndStates PROVE TypeInv'
  <2>. USE <1>3 DEF EndCheck, EndStates, backups, repository, merge, checks
  <2>1. HistoryTypes' /\ FileTypes' /\ StateTypes'
    BY DEF HistoryTypes, FileTypes, StateTypes
  <2>2. RunTypes' /\ QueueTypes'
    BY DEF RunTypes, QueueTypes, Unmerged, Phases
  <2>3. MergeTypes' /\ CheckTypes'
    BY DEF MergeTypes, InChildren, CheckTypes
  <2>. QED BY <2>1, <2>2, <2>3
<1>4. ASSUME NEW v \in Vhds, DropState(v) PROVE TypeInv'
  <2>. USE <1>4 DEF DropState, backups, merge
  <2>1. HistoryTypes' /\ FileTypes'
    BY DEF HistoryTypes, FileTypes
  <2>4. StateTypes'
    BY DEF StateTypes
  <2>2. RunTypes' /\ QueueTypes'
    BY DEF RunTypes, QueueTypes, Unmerged, Phases
  <2>3. MergeTypes' /\ CheckTypes'
    BY DEF MergeTypes, InChildren, CheckTypes, Younger
  <2>. QED BY <2>1, <2>2, <2>3, <2>4
<1>5. ASSUME NEW v \in Vhds, RemoveAlias(v) \/ RemoveData(v) \/ UnlinkVhd(v) PROVE TypeInv'
  <2>. USE <1>5 DEF RemoveAlias, RemoveData, UnlinkVhd, backups, run, merge, checks
  <2>1. HistoryTypes' /\ StateTypes'
    BY DEF HistoryTypes, StateTypes
  <2>2. RunTypes' /\ QueueTypes'
    BY DEF RunTypes, QueueTypes, Unmerged, Phases
  <2>3. MergeTypes' /\ CheckTypes'
    BY DEF MergeTypes, InChildren, CheckTypes
  <2>4. FileTypes'
    <3>1. CASE RemoveData(v)
      BY <3>1, EraseTypes DEF FileTypes
    <3>2. CASE Unlink(v)
      BY <3>2, UnlinkTypes
    <3>. QED BY <3>1, <3>2
  <2>. QED BY <2>1, <2>2, <2>3, <2>4
<1>6. ASSUME NEW v \in Vhds, ReadJson(v) \/ DeleteBackup(v) PROVE TypeInv'
  <2>. USE <1>6 DEF ReadJson, DeleteBackup, backups, run, merge, checks
  <2>1. FileTypes' /\ StateTypes'
    BY DEF FileTypes, StateTypes
  <2>4. jsons' \subseteq jsons /\ deleted' \subseteq deleted \cup {v} /\ UNCHANGED <<original, parent, table, uuid, crashes>>
    OBVIOUS
  <2>5. HistoryTypes'
    BY <2>4 DEF HistoryTypes
  <2>2. RunTypes' /\ QueueTypes'
    BY DEF RunTypes, QueueTypes, Unmerged, Phases
  <2>3. MergeTypes' /\ CheckTypes'
    BY DEF MergeTypes, InChildren, CheckTypes
  <2>. QED BY <2>1, <2>2, <2>3, <2>5
<1>7. ASSUME FindOrphans \/ ListJsons \/ EndRun PROVE TypeInv'
  <2>. USE <1>7 DEF FindOrphans, ListJsons, EndRun, backups, repository, merge, checks
  <2>1. HistoryTypes' /\ FileTypes' /\ StateTypes'
    BY DEF HistoryTypes, FileTypes, StateTypes, RunTypes
  <2>2. RunTypes' /\ QueueTypes'
    BY DEF RunTypes, QueueTypes, Unmerged, Phases
  <2>3. MergeTypes' /\ CheckTypes'
    BY DEF MergeTypes, InChildren, CheckTypes, HistoryTypes
  <2>. QED BY <2>1, <2>2, <2>3
<1>8. ASSUME FindChains PROVE TypeInv'
  <2>. USE <1>8 DEF FindChains, backups, repository, checks
  <2>1. HistoryTypes' /\ FileTypes' /\ StateTypes'
    BY DEF HistoryTypes, FileTypes, StateTypes
  <2>2. RunTypes'
    BY DEF RunTypes, Phases, Unneeded, CheckTypes
  <2>3. MergeTypes' /\ CheckTypes'
    BY DEF MergeTypes, InChildren, CheckTypes
  <2>4. QueueTypes'
    <3>1. ToMerge \in Seq(Seq(Vhds)) /\ \A i \in 1 .. Len(ToMerge) : IsChain(ToMerge[i])
      BY ToMergeType DEF CheckTypes
    <3>2. queue' = queue \/ queue' = queue \o ToMerge
      OBVIOUS
    <3>3. queue' \in Seq(Seq(Vhds)) /\ Len(queue') >= Len(queue) /\ Len(queue) \in Nat /\ Len(queue') \in Nat
      BY <3>1, <3>2 DEF QueueTypes
    <3>4. \A i \in 1 .. Len(queue') : IsChain(queue'[i])
      BY <3>1, <3>2 DEF QueueTypes
    <3>5. stale' \in 0 .. Unmerged'
      <4>. DEFINE u == IF chain = <<>> THEN 0 ELSE 1
      <4>1. stale \in 0 .. Len(queue) + u /\ u \in Nat
        BY DEF QueueTypes, Unmerged
      <4>2. stale' = stale /\ Unmerged' = Len(queue') + u
        BY DEF Unmerged
      <4>. HIDE DEF u
      <4>. QED BY <3>3, <4>1, <4>2
    <3>6. queue' \in Seq(Seq(Vhds)) /\ UNCHANGED <<chain, step>>
      BY <3>3
    <3>. QED BY <3>4, <3>5, <3>6 DEF QueueTypes
  <2>. QED BY <2>1, <2>2, <2>3, <2>4
<1>. QED BY <1>1, <1>2, <1>3, <1>4, <1>5, <1>6, <1>7, <1>8 DEF Clean

\* A merge that stops, with or without an error, leaves nothing in memory.
LEMMA NoMergeTypes ==
  ASSUME NoMerge
  PROVE  MergeTypes' /\ chain' = <<>> /\ step' = "none"
<1>1. step' = "none" /\ chain' = <<>> /\ opened' = <<>> /\ todo' = {} /\ resuming' = FALSE
  BY DEF NoMerge
<1>2. step' \in MergeSteps /\ step' \notin {"blocks", "failing"}
  BY <1>1 DEF MergeSteps
<1>3. opened' \in Seq(Vhds \cup {None}) /\ todo' \subseteq Blocks
  BY <1>1
<1>4. resuming' \in BOOLEAN
  BY <1>1
<1>. QED BY <1>1, <1>2, <1>3, <1>4 DEF MergeTypes

LEMMA ThrowTypes ==
  ASSUME TypeInv, chain # <<>>, Throw(queue), UNCHANGED <<queue, merging, doomed>>
  PROVE  RunTypes' /\ QueueTypes' /\ MergeTypes'
<1>. USE DEF TypeInv, Throw
<1>1. MergeTypes' /\ chain' = <<>> /\ step' = "none"
  BY NoMergeTypes
<1>2. RunTypes'
  BY DEF RunTypes, Phases
<1>3. QueueTypes'
  <2>1. Len(queue) \in Nat /\ stale \in 0 .. Len(queue) + 1
    BY DEF QueueTypes, Unmerged
  <2>2. Unmerged' = Len(queue)
    BY <1>1 DEF Unmerged
  <2>3. stale' \in 0 .. Unmerged'
    BY <2>1, <2>2
  <2>. QED BY <1>1, <2>3 DEF QueueTypes
<1>. QED BY <1>1, <1>2, <1>3

LEMMA StartMergeTypes ==
  ASSUME TypeInv, StartMerge
  PROVE  TypeInv'
<1>. USE VhdsNat DEF TypeInv
<1>. DEFINE c == Head(queue)
            file == states[Head(c)]
            ds == [i \in DOMAIN c |-> path[c[i]]]
            begin == [states EXCEPT ![Head(c)] = [step |-> "mergeBlocks", chain |-> c, data |-> ds]]
<1>1. /\ queue \in Seq(Seq(Vhds)) /\ Len(queue) \in Nat /\ Len(queue) > 0
      /\ queue' = Tail(queue) /\ queue' \in Seq(Seq(Vhds)) /\ Len(queue') = Len(queue) - 1
      /\ \A i \in 1 .. Len(queue') : queue'[i] = queue[i + 1]
  BY DEF StartMerge, QueueTypes
<1>2. c = queue[1] /\ IsChain(c)
  BY <1>1 DEF QueueTypes
<1>3. \A i \in 1 .. Len(queue') : IsChain(queue'[i])
  <2>1. \A i \in 1 .. Len(queue') : i + 1 \in 1 .. Len(queue)
    BY <1>1
  <2>. QED BY <1>1, <2>1 DEF QueueTypes
<1>4. chain = <<>> /\ UNCHANGED <<backups, path, data, blocks, table, uuid, jsons, merging, checks, doomed, crashes>>
  BY DEF StartMerge
<1>5. HistoryTypes' /\ FileTypes' /\ CheckTypes'
  BY <1>4 DEF HistoryTypes, FileTypes, CheckTypes, Younger, backups, checks
<1>6. stale \in 0 .. Len(queue)
  BY <1>1, <1>4 DEF QueueTypes, Unmerged
<1>7. c # <<>> /\ c \in Seq(Vhds) /\ Len(c) \in Nat /\ Len(c) > 0 /\ Head(c) \in Vhds /\ DOMAIN c = 1 .. Len(c)
  BY <1>2 DEF IsChain
<1>8. ds \in Seq(Vhds \cup {None}) /\ Len(ds) = Len(c)
  <2>1. \A i \in 1 .. Len(c) : path[c[i]] \in Vhds \cup {None}
    BY <1>7 DEF FileTypes
  <2>2. ds \in [1 .. Len(c) -> Vhds \cup {None}]
    BY <1>7, <2>1
  <2>. HIDE DEF ds
  <2>. QED BY <1>7, <2>2, IsSeq
<1>9. CASE /\ chain' = c
           /\ step' = "cleanState"
           /\ resuming' = TRUE
           /\ UNCHANGED <<opened, todo, states, phase, merged, stale>>
  <2>. HIDE DEF c
  <2>1. StateTypes' /\ RunTypes'
    BY <1>4, <1>9 DEF StateTypes, RunTypes
  <2>2. step' \in MergeSteps /\ step' \notin {"blocks", "failing"}
    BY <1>9 DEF MergeSteps
  <2>3. MergeTypes'
    BY <1>9, <2>2 DEF MergeTypes
  <2>4. Unmerged' = Len(queue)
    BY <1>1, <1>7, <1>9 DEF Unmerged
  <2>5. QueueTypes'
    BY <1>1, <1>2, <1>3, <1>6, <1>7, <1>9, <2>4 DEF QueueTypes
  <2>. QED BY <1>5, <2>1, <2>3, <2>5
<1>10. CASE /\ \A i \in DOMAIN c : Exists(c[i])
            /\ chain' = c
            /\ opened' = ds
            /\ step' = "blocks"
            /\ todo' = {b \in Blocks : InChildren(ds, b)}
            /\ resuming' = (file # None)
            /\ states' = IF file # None THEN states ELSE begin
            /\ UNCHANGED <<phase, merged, stale>>
  <2>1. ds \in Seq(Vhds)
    <3>1. \A i \in 1 .. Len(c) : path[c[i]] \in Vhds
      BY <1>7, <1>10 DEF FileTypes, Exists
    <3>2. ds \in [1 .. Len(c) -> Vhds]
      BY <1>7, <3>1
    <3>. HIDE DEF ds
    <3>. QED BY <1>7, <3>2, IsSeq
  <2>. HIDE DEF c, ds, file, begin
  <2>2. StateTypes'
    <3>1. CASE states' = states
      BY <3>1 DEF StateTypes
    <3>2. CASE states' = begin
      <4>1. [step |-> "mergeBlocks", chain |-> c, data |-> ds] \in StateFiles
        BY <1>7, <1>8 DEF StateFiles
      <4>2. [step |-> "mergeBlocks", chain |-> c, data |-> ds].chain = c
        OBVIOUS
      <4>. QED BY <1>2, <1>7, <3>2, <4>1, <4>2 DEF StateTypes, begin
    <3>. QED BY <1>10, <3>1, <3>2
  <2>3. RunTypes'
    BY <1>4, <1>10 DEF RunTypes
  <2>4. step' \in MergeSteps /\ resuming' \in BOOLEAN
    BY <1>10 DEF MergeSteps
  <2>5. (\A b \in todo : InChildren(opened, b))'
    <3>1. table' = table /\ opened' = ds /\ todo' = {b \in Blocks : InChildren(ds, b)}
      BY <1>4, <1>10
    <3>. QED BY <3>1 DEF InChildren
  <2>6. MergeTypes'
    <3>1. opened' \in Seq(Vhds) /\ opened' \in Seq(Vhds \cup {None}) /\ Len(opened') > 0 /\ todo' \subseteq Blocks
      BY <1>7, <1>8, <1>10, <2>1
    <3>. QED BY <2>4, <2>5, <3>1 DEF MergeTypes
  <2>7. Unmerged' = Len(queue)
    BY <1>1, <1>7, <1>10 DEF Unmerged
  <2>8. QueueTypes'
    BY <1>1, <1>2, <1>3, <1>6, <1>7, <1>10, <2>7 DEF QueueTypes
  <2>. QED BY <1>5, <2>2, <2>3, <2>6, <2>8
<1>11. CASE Throw(Tail(queue)) /\ UNCHANGED states
  <2>. USE <1>11 DEF Throw
  <2>1. MergeTypes' /\ chain' = <<>> /\ step' = "none"
    BY NoMergeTypes
  <2>2. RunTypes' /\ StateTypes'
    BY <1>4 DEF RunTypes, Phases, StateTypes
  <2>3. Unmerged' = Len(queue') /\ Len(Tail(queue)) = Len(queue')
    BY <1>1, <2>1 DEF Unmerged
  <2>4. stale' \in 0 .. Unmerged'
    BY <1>1, <1>6, <2>3
  <2>5. QueueTypes'
    BY <1>1, <1>3, <2>1, <2>4 DEF QueueTypes
  <2>. QED BY <1>5, <2>1, <2>2, <2>5
<1>. QED BY <1>9, <1>10, <1>11 DEF StartMerge

\* The data that holds block b for mergeBlock() is one of those that are open.
LEMMA SourceType ==
  ASSUME opened \in Seq(Vhds), NEW b, InChildren(opened, b)
  PROVE  \E i \in 2 .. Len(opened) :
             /\ Source(b) = opened[i] /\ opened[i] \in Vhds /\ b \in table[opened[i]]
             /\ \A j \in (i + 1) .. Len(opened) : b \notin table[opened[j]]
<1>. DEFINE n == Len(opened)
            T == {k \in Nat : k <= n - 2 /\ b \in table[opened[n - k]]}
            latest(i) == b \in table[opened[i]] /\ \A j \in (i + 1) .. n : b \notin table[opened[j]]
<1>1. n \in Nat
  OBVIOUS
<1>2. PICK i \in 2 .. n : b \in table[opened[i]]
  BY DEF InChildren
<1>3. n - i \in T
  <2>1. n - i \in Nat /\ n - i <= n - 2 /\ n - (n - i) = i
    BY <1>1, <1>2
  <2>. QED BY <1>2, <2>1
<1>4. PICK k \in T : \A m \in T : k <= m
  <2>. HIDE DEF T
  <2>1. T \in SUBSET Nat
    BY DEF T
  <2>. QED BY <1>3, <2>1, Smallest
<1>5. n - k \in 2 .. n /\ latest(n - k)
  <2>1. k \in Nat /\ k <= n - 2 /\ b \in table[opened[n - k]]
    OBVIOUS
  <2>2. n - k \in 2 .. n
    BY <1>1, <2>1
  <2>3. ASSUME NEW j \in (n - k + 1) .. n, b \in table[opened[j]] PROVE FALSE
    <3>1. n - j \in Nat /\ n - j < k /\ n - j <= n - 2 /\ n - (n - j) = j
      BY <1>1, <2>1
    <3>2. n - j \in T
      BY <2>3, <3>1
    <3>. HIDE DEF T
    <3>3. k <= n - j
      BY <1>4, <3>2
    <3>. QED BY <1>1, <2>1, <3>1, <3>3
  <2>. QED BY <2>1, <2>2, <2>3
<1>. HIDE DEF latest
<1>6. \E l \in 2 .. n : latest(l)
  BY <1>5
<1>. DEFINE l == CHOOSE x \in 2 .. n : latest(x)
<1>7. l \in 2 .. n /\ latest(l)
  BY <1>6
<1>8. Source(b) = opened[l]
  BY DEF Source, latest
<1>. HIDE DEF l
<1>9. opened[l] \in Vhds
  BY <1>7
<1>. QED BY <1>7, <1>8, <1>9 DEF latest

LEMMA MergeBlockTypes ==
  ASSUME TypeInv, NEW b \in Blocks, MergeBlock(b)
  PROVE  TypeInv'
<1>. USE DEF TypeInv
<1>1. /\ step \in {"blocks", "failing"} /\ b \in todo
      /\ UNCHANGED <<backups, path, data, uuid, states, jsons, run, queue, chain, opened, resuming, stale, crashes>>
  BY DEF MergeBlock, InFlight
<1>2. opened \in Seq(Vhds) /\ Len(opened) > 0 /\ opened[1] \in Vhds /\ InChildren(opened, b)
  BY <1>1 DEF MergeTypes
<1>3. Source(b) \in Vhds
  BY <1>2, SourceType
<1>. DEFINE a == opened[1]
            s == Source(b)
            moved == [d \in Vhds |->
                         IF d = a THEN [blocks[a] EXCEPT ![b] = blocks[s][b]]
                         ELSE IF d = s /\ Transfer = "move" THEN [blocks[s] EXCEPT ![b] = None]
                         ELSE blocks[d]]
<1>4. /\ blocks' = blocks \/ blocks' = moved
      /\ table' = table \/ table' = [table EXCEPT ![a] = @ \cup {b}]
      /\ todo' \subseteq todo
      /\ step' \in {"blocks", "failing"}
  BY <1>1 DEF MergeBlock
<1>5. moved \in [Vhds -> [Blocks -> Vhds \cup {None}]]
  <2>1. blocks[a] \in [Blocks -> Vhds \cup {None}] /\ blocks[s] \in [Blocks -> Vhds \cup {None}]
    BY <1>2, <1>3 DEF FileTypes
  <2>. HIDE DEF a, s
  <2>2. blocks[s][b] \in Vhds \cup {None}
    BY <2>1
  <2>3. [blocks[a] EXCEPT ![b] = blocks[s][b]] \in [Blocks -> Vhds \cup {None}]
    BY <2>1, <2>2
  <2>4. [blocks[s] EXCEPT ![b] = None] \in [Blocks -> Vhds \cup {None}]
    BY <2>1
  <2>. QED BY <2>3, <2>4 DEF FileTypes
<1>. HIDE DEF moved, a, s
<1>6. table' \in [Vhds -> SUBSET Blocks] /\ \A d \in Vhds : table[d] \subseteq table'[d]
  BY <1>4 DEF HistoryTypes
<1>7. HistoryTypes'
  BY <1>1, <1>6 DEF HistoryTypes, backups
<1>8. FileTypes' /\ StateTypes'
  BY <1>1, <1>4, <1>5 DEF FileTypes, StateTypes
<1>9. CheckTypes' /\ RunTypes'
  BY <1>1 DEF CheckTypes, RunTypes, run, checks, Younger
<1>10. QueueTypes'
  <2>1. step' # "none" /\ step # "none"
    BY <1>1, <1>4
  <2>. QED BY <1>1, <2>1 DEF QueueTypes, Unmerged
<1>11. MergeTypes'
  <2>1. (\A c \in todo : InChildren(opened, c))'
    <3>1. \A c \in todo : InChildren(opened, c)
      BY <1>1 DEF MergeTypes
    <3>2. opened' = opened /\ \A i \in 2 .. Len(opened) : opened[i] \in Vhds
      BY <1>1, <1>2
    <3>. QED BY <1>4, <1>6, <3>1, <3>2 DEF InChildren
  <2>2. step' \in MergeSteps /\ todo' \subseteq Blocks
    BY <1>4 DEF MergeSteps, MergeTypes
  <2>. QED BY <1>1, <1>2, <2>1, <2>2 DEF MergeTypes
<1>. QED BY <1>7, <1>8, <1>9, <1>10, <1>11

\* The other steps of a merge.
LEMMA MergeStepTypes ==
  ASSUME TypeInv, \/ FailMerge \/ WriteFooter \/ WriteCleanState \/ UnlinkOldTarget \/ EndMerge
                  \/ \E v \in Vhds : UnlinkChild(v)
  PROVE  TypeInv'
<1>. USE VhdsNat DEF TypeInv
<1>1. CASE FailMerge
  <2>. USE <1>1 DEF FailMerge, backups, repository, checks
  <2>1. chain # <<>>
    BY DEF QueueTypes
  <2>2. RunTypes' /\ QueueTypes' /\ MergeTypes'
    BY <2>1, ThrowTypes
  <2>3. HistoryTypes' /\ FileTypes' /\ StateTypes'
    BY DEF HistoryTypes, FileTypes, StateTypes
  <2>4. CheckTypes'
    BY DEF CheckTypes, Younger
  <2>. QED BY <2>2, <2>3, <2>4
<1>2. CASE WriteFooter
  <2>. USE <1>2 DEF WriteFooter, backups, run, checks
  <2>1. opened[1] \in Vhds /\ Last(opened) \in Vhds
    BY DEF MergeTypes, Last
  <2>2. HistoryTypes'
    BY <2>1 DEF HistoryTypes
  <2>3. FileTypes' /\ StateTypes'
    BY DEF FileTypes, StateTypes
  <2>4. CheckTypes' /\ RunTypes'
    BY DEF CheckTypes, RunTypes, Younger
  <2>5. QueueTypes' /\ MergeTypes'
    BY DEF QueueTypes, MergeTypes, Unmerged, MergeSteps
  <2>. QED BY <2>2, <2>3, <2>4, <2>5
<1>3. CASE WriteCleanState
  <2>. USE <1>3 DEF WriteCleanState, backups, run, checks
  <2>1. IsChain(chain)
    BY DEF QueueTypes
  <2>2. HistoryTypes' /\ FileTypes'
    BY DEF HistoryTypes, FileTypes
  <2>3. StateTypes'
    <3>1. [step |-> "cleanupVhds", chain |-> chain, data |-> opened] \in StateFiles
      BY <2>1 DEF IsChain, StateFiles, MergeTypes
    <3>. QED BY <2>1, <3>1 DEF StateTypes
  <2>4. CheckTypes' /\ RunTypes'
    BY DEF CheckTypes, RunTypes, Younger
  <2>5. QueueTypes' /\ MergeTypes'
    BY DEF QueueTypes, MergeTypes, Unmerged, MergeSteps
  <2>. QED BY <2>2, <2>3, <2>4, <2>5
<1>4. CASE UnlinkOldTarget
  <2>. USE <1>4 DEF UnlinkOldTarget, backups, run, checks
  <2>1. FileTypes'
    BY EraseTypes DEF FileTypes
  <2>2. HistoryTypes' /\ StateTypes'
    BY DEF HistoryTypes, StateTypes
  <2>3. CheckTypes' /\ RunTypes'
    BY DEF CheckTypes, RunTypes, Younger
  <2>4. QueueTypes' /\ MergeTypes'
    BY DEF QueueTypes, MergeTypes, Unmerged, MergeSteps
  <2>. QED BY <2>1, <2>2, <2>3, <2>4
<1>5. ASSUME NEW v \in Vhds, UnlinkChild(v) PROVE TypeInv'
  <2>. USE <1>5 DEF UnlinkChild, backups, run, merge, checks
  <2>1. FileTypes'
    BY UnlinkTypes
  <2>2. HistoryTypes' /\ StateTypes'
    BY DEF HistoryTypes, StateTypes
  <2>3. CheckTypes' /\ RunTypes'
    BY DEF CheckTypes, RunTypes, Younger
  <2>4. QueueTypes' /\ MergeTypes'
    BY DEF QueueTypes, MergeTypes, Unmerged, InChildren
  <2>. QED BY <2>1, <2>2, <2>3, <2>4
<1>6. CASE EndMerge
  <2>. USE <1>6 DEF EndMerge, backups, checks
  <2>1. MergeTypes' /\ chain' = <<>> /\ step' = "none"
    BY NoMergeTypes
  <2>2. HistoryTypes' /\ FileTypes' /\ CheckTypes'
    BY DEF HistoryTypes, FileTypes, CheckTypes, Younger
  <2>3. StateTypes'
    BY DEF StateTypes
  <2>4. RunTypes'
    BY DEF RunTypes, CheckTypes
  <2>5. QueueTypes'
    <3>1. chain # <<>>
      BY DEF QueueTypes
    <3>2. Len(queue) \in Nat /\ stale \in 0 .. Len(queue) + 1
      BY <3>1 DEF QueueTypes, Unmerged
    <3>3. Unmerged' = Len(queue)
      BY <2>1 DEF Unmerged
    <3>. QED BY <2>1, <3>2, <3>3 DEF QueueTypes
  <2>. QED BY <2>1, <2>2, <2>3, <2>4, <2>5
<1>. QED BY <1>1, <1>2, <1>3, <1>4, <1>5, <1>6

LEMMA RenameTypes ==
  ASSUME TypeInv, Rename
  PROVE  TypeInv'
<1>. USE VhdsNat DEF TypeInv
<1>1. /\ step = "rename"
      /\ UNCHANGED <<backups, table, uuid, states, jsons, merging, checks, doomed, queue, crashes>>
  BY DEF Rename
<1>2. HistoryTypes' /\ StateTypes' /\ CheckTypes'
  BY <1>1 DEF HistoryTypes, StateTypes, CheckTypes, Younger, backups, checks
<1>3. chain # <<>> /\ IsChain(chain)
  BY <1>1 DEF QueueTypes
<1>4. Ancestor \in Vhds /\ Target \in Vhds /\ Ancestor <= Target
  BY <1>3 DEF IsChain, Ancestor, Target, Last
<1>5. CASE Throw(queue) /\ UNCHANGED <<path, data, blocks>>
  <2>1. RunTypes' /\ QueueTypes' /\ MergeTypes'
    BY <1>1, <1>3, <1>5, ThrowTypes
  <2>2. FileTypes'
    BY <1>5 DEF FileTypes
  <2>. QED BY <1>2, <2>1, <2>2
<1>6. CASE /\ step' \in {"oldTarget", "children"}
           /\ opened' = opened \/ opened' = <<path[Target]>>
           /\ UNCHANGED <<phase, merged, chain, todo, resuming, stale>>
  <2>1. RunTypes'
    BY <1>1, <1>6 DEF RunTypes
  <2>2. step' # "none" /\ step' \in MergeSteps /\ step' \notin {"blocks", "failing"}
    BY <1>6 DEF MergeSteps
  <2>3. QueueTypes'
    BY <1>1, <1>3, <1>6, <2>2 DEF QueueTypes, Unmerged
  <2>4. <<path[Target]>> \in Seq(Vhds \cup {None})
    BY <1>4 DEF FileTypes
  <2>5. MergeTypes'
    BY <1>6, <2>2, <2>4 DEF MergeTypes
  <2>6. FileTypes'
    <3>1. CASE UNCHANGED <<path, data, blocks>>
      BY <3>1 DEF FileTypes
    <3>2. CASE /\ path[Ancestor] # None
               /\ path' = [path EXCEPT ![Target] = path[Ancestor], ![Ancestor] = None]
               /\ EraseData(path[Target]) \/ UNCHANGED <<data, blocks>>
      <4>1. data' \subseteq Vhds /\ blocks' \in [Vhds -> [Blocks -> Vhds \cup {None}]]
        BY <3>2, EraseTypes DEF FileTypes
      <4>2. path[Ancestor] \in Vhds /\ path[Ancestor] <= Target
        <5>1. path[Ancestor] \in Vhds /\ path[Ancestor] <= Ancestor
          BY <1>4, <3>2 DEF FileTypes
        <5>2. path[Ancestor] \in Nat /\ Ancestor \in Nat /\ Target \in Nat
          BY <1>4, <5>1
        <5>. QED BY <1>4, <5>1, <5>2
      <4>3. path' \in [Vhds -> Vhds \cup {None}]
        BY <3>2, <4>2 DEF FileTypes
      <4>4. \A v \in Vhds : path'[v] # None => path'[v] <= v
        BY <3>2, <4>2 DEF FileTypes
      <4>. QED BY <4>1, <4>3, <4>4 DEF FileTypes
    <3>. QED BY <1>6, <3>1, <3>2 DEF Rename, Throw, NoMerge
  <2>. QED BY <1>2, <2>1, <2>3, <2>5, <2>6
<1>. QED BY <1>5, <1>6 DEF Rename

LEMMA CrashTypes ==
  ASSUME TypeInv, Crash
  PROVE  TypeInv'
<1>. USE DEF TypeInv, Crash, backups, repository, checks
<1>1. MergeTypes' /\ chain' = <<>> /\ step' = "none"
  BY NoMergeTypes
<1>2. HistoryTypes'
  BY Bounds DEF HistoryTypes
<1>3. FileTypes' /\ StateTypes'
  BY DEF FileTypes, StateTypes
<1>4. CheckTypes' /\ RunTypes'
  BY DEF CheckTypes, Younger, RunTypes, Phases
<1>5. QueueTypes'
  BY <1>1 DEF QueueTypes, Unmerged
<1>. QED BY <1>1, <1>2, <1>3, <1>4, <1>5

LEMMA TypeInvNext == TypeInv /\ [Next]_vars => TypeInv'
<1>. SUFFICES ASSUME TypeInv, [Next]_vars PROVE TypeInv'
  OBVIOUS
<1>1. CASE Merge
  BY <1>1, StartMergeTypes, MergeBlockTypes, MergeStepTypes, RenameTypes DEF Merge
<1>2. CASE UNCHANGED vars
  <2>. USE <1>2 DEF vars, backups, repository, run, merge, checks, TypeInv
  <2>1. HistoryTypes' /\ FileTypes' /\ StateTypes'
    BY DEF HistoryTypes, FileTypes, StateTypes
  <2>2. CheckTypes' /\ RunTypes'
    BY DEF CheckTypes, RunTypes, Younger
  <2>3. QueueTypes' /\ MergeTypes'
    BY DEF QueueTypes, MergeTypes, Unmerged, InChildren
  <2>. QED BY <2>1, <2>2, <2>3
<1>. QED BY <1>1, <1>2, CleanTypes, CrashTypes DEF Next

LEMMA TypeInductive == Spec => []TypeInv
  BY TypeInvInit, TypeInvNext, PTL DEF Spec

\* The repository, the run of cleanVm() and the merges keep their types: whatever
\* crashes and errors interrupt cleanVm(), mergeVhdChain() reads and writes data
\* of VHDs only, and no run counts more merges of earlier runs than there are.
THEOREM TypeCorrect == Spec => []TypeOK
<1>1. TypeInv => TypeOK
  <2>. SUFFICES ASSUME TypeInv PROVE TypeOK
    OBVIOUS
  <2>. USE DEF TypeInv
  <2>1. parent \in [Vhds -> Vhds \cup {None}]
    <3>1. \A v \in Vhds : v = 1 \/ v - 1 \in Vhds
      BY Bounds DEF Vhds
    <3>. QED BY <3>1 DEF HistoryTypes
  <2>2. {parents, child, byId} \subseteq [Vhds -> Vhds \cup {None}]
    BY DEF CheckTypes, Younger
  <2>3. \A v \in Vhds : states[v] = None \/ states[v].step \in {"mergeBlocks", "cleanupVhds"}
    <3>1. \A f \in StateFiles : f.step \in {"mergeBlocks", "cleanupVhds"}
      BY DEF StateFiles
    <3>2. \A v \in Vhds : states[v] \in StateFiles \cup {None}
      BY DEF StateTypes
    <3>. QED BY <3>1, <3>2
  <2>4. /\ original \in [Vhds -> SUBSET Blocks] /\ deleted \subseteq Vhds
        /\ table \in [Vhds -> SUBSET Blocks] /\ uuid \in [Vhds -> Vhds] /\ jsons \subseteq Vhds
        /\ crashes \in 0 .. MaxCrashes
    BY DEF HistoryTypes
  <2>5. /\ path \in [Vhds -> Vhds \cup {None}] /\ data \subseteq Vhds
        /\ blocks \in [Vhds -> [Blocks -> Vhds \cup {None}]]
    BY DEF FileTypes
  <2>6. vhds \subseteq Vhds /\ pending \subseteq Vhds /\ DOMAIN resumed = Vhds /\ unused \subseteq Vhds
    BY DEF CheckTypes
  <2>7. phase \in Phases /\ merging \in BOOLEAN /\ doomed \subseteq Vhds /\ merged \subseteq Vhds
    BY DEF RunTypes
  <2>8. step \in MergeSteps /\ todo \subseteq Blocks /\ resuming \in BOOLEAN /\ stale \in 0 .. Unmerged
    BY DEF MergeTypes, QueueTypes
  <2>. QED BY <2>1, <2>2, <2>3, <2>4, <2>5, <2>6, <2>7, <2>8 DEF TypeOK
<1>. QED BY <1>1, TypeInductive, PTL

=============================================================================
