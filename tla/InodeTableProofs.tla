--------------------------- MODULE InodeTableProofs ---------------------------
(***************************************************************************)
(* Proofs about InodeTable, for any table, disk, list and directories, and *)
(* for a session alone.                                                    *)
(***************************************************************************)
EXTENDS InodeTable, FiniteSetTheorems, WellFoundedInduction, TLAPS

-----------------------------------------------------------------------------
(***************************************************************************)
(* Sums.                                                                   *)
(***************************************************************************)
Parts(f, S) == UNION {{i} \X (1 .. f[i]) : i \in S}

LEMMA PartsOf ==
  ASSUME NEW S, NEW f, NEW p
  PROVE  p \in Parts(f, S) <=> \E i \in S : \E k \in 1 .. f[i] : p = <<i, k>>
BY DEF Parts

LEMMA PartsFinite ==
  ASSUME NEW S, IsFiniteSet(S), NEW B \in Nat, NEW f \in [S -> 0 .. B], NEW T \in SUBSET S
  PROVE  IsFiniteSet(Parts(f, T)) /\ Cardinality(Parts(f, T)) \in Nat
<1>1. IsFiniteSet(1 .. B)
  BY FS_Interval
<1>2. IsFiniteSet(S \X (1 .. B))
  BY <1>1, FS_Product
<1>3. Parts(f, T) \in SUBSET (S \X (1 .. B))
  <2> SUFFICES ASSUME NEW p \in Parts(f, T) PROVE p \in S \X (1 .. B)
    OBVIOUS
  <2>1. PICK i \in T : \E k \in 1 .. f[i] : p = <<i, k>>
    BY PartsOf
  <2>2. f[i] \in 0 .. B /\ i \in S
    OBVIOUS
  <2>3. PICK k \in 1 .. f[i] : p = <<i, k>>
    BY <2>1
  <2>4. k \in 1 .. B
    BY <2>2
  <2> QED
    BY <2>2, <2>3, <2>4
<1> QED
  BY <1>2, <1>3, FS_Subset, FS_CardinalityType

LEMMA OnePart ==
  ASSUME NEW i, NEW n \in Nat
  PROVE  IsFiniteSet({i} \X (1 .. n)) /\ Cardinality({i} \X (1 .. n)) = n
<1>1. IsFiniteSet(1 .. n) /\ Cardinality(1 .. n) = n
  BY FS_Interval
<1>2. IsFiniteSet({i}) /\ Cardinality({i}) = 1
  BY FS_Singleton
<1> QED
  BY <1>1, <1>2, FS_Product

\* One value apart, the sum of the others.
LEMMA SumSplit ==
  ASSUME NEW S, IsFiniteSet(S), NEW B \in Nat, NEW f \in [S -> 0 .. B], NEW i \in S
  PROVE  /\ SumOf(f) = Cardinality(Parts(f, S \ {i})) + f[i]
         /\ Cardinality(Parts(f, S \ {i})) \in Nat
<1> DEFINE R == Parts(f, S \ {i})
           P == {i} \X (1 .. f[i])
<1>1. IsFiniteSet(R) /\ Cardinality(R) \in Nat
  BY PartsFinite
<1>2. f[i] \in Nat
  OBVIOUS
<1>3. IsFiniteSet(P) /\ Cardinality(P) = f[i]
  BY <1>2, OnePart
<1>4. Parts(f, S) = R \cup P
  <2>1. ASSUME NEW p \in Parts(f, S) PROVE p \in R \cup P
    <3>1. PICK j \in S : \E k \in 1 .. f[j] : p = <<j, k>>
      BY PartsOf
    <3> QED
      BY <3>1, PartsOf
  <2>2. ASSUME NEW p \in R PROVE p \in Parts(f, S)
    <3>1. PICK j \in S \ {i} : \E k \in 1 .. f[j] : p = <<j, k>>
      BY PartsOf
    <3> QED
      BY <3>1, PartsOf
  <2>3. ASSUME NEW p \in P PROVE p \in Parts(f, S)
    <3>1. PICK k \in 1 .. f[i] : p = <<i, k>>
      OBVIOUS
    <3> QED
      BY <3>1, PartsOf
  <2> QED
    BY <2>1, <2>2, <2>3
<1>5. R \cap P = {}
  <2> SUFFICES ASSUME NEW p \in R, p \in P PROVE FALSE
    OBVIOUS
  <2>1. PICK j \in S \ {i} : \E k \in 1 .. f[j] : p = <<j, k>>
    BY PartsOf
  <2> QED
    BY <2>1
<1>6. SumOf(f) = Cardinality(R \cup P)
  <2>1. DOMAIN f = S
    OBVIOUS
  <2> QED
    BY <1>4, <2>1 DEF SumOf, Parts
<1> HIDE DEF R, P
<1>7. Cardinality(R \cup P) = Cardinality(R) + Cardinality(P) - Cardinality(R \cap P)
  BY <1>1, <1>3, FS_Union
<1>8. Cardinality(R \cap P) = 0
  BY <1>5, FS_EmptySet
<1> QED
  BY <1>1, <1>2, <1>3, <1>6, <1>7, <1>8 DEF R

\* A sum moves as much as the one value that changes.
LEMMA SumMoves ==
  ASSUME NEW S, IsFiniteSet(S), NEW B \in Nat,
         NEW f \in [S -> 0 .. B], NEW g \in [S -> 0 .. B],
         NEW i \in S, \A j \in S \ {i} : g[j] = f[j]
  PROVE  SumOf(f) \in Nat /\ SumOf(g) = SumOf(f) - f[i] + g[i]
<1>1. Parts(f, S \ {i}) = Parts(g, S \ {i})
  BY DEF Parts
<1>2. f[i] \in Nat /\ g[i] \in Nat
  OBVIOUS
<1>3. /\ SumOf(f) = Cardinality(Parts(f, S \ {i})) + f[i]
      /\ SumOf(g) = Cardinality(Parts(g, S \ {i})) + g[i]
      /\ Cardinality(Parts(f, S \ {i})) \in Nat
  BY SumSplit
<1> QED
  BY <1>1, <1>2, <1>3

\* A sum is at least each of its values, and is the value where there is one.
LEMMA SumBounds ==
  ASSUME NEW S, IsFiniteSet(S), NEW B \in Nat, NEW f \in [S -> 0 .. B], NEW i \in S
  PROVE  SumOf(f) >= f[i] /\ (S = {i} => SumOf(f) = f[i])
<1>1. f[i] \in Nat
  OBVIOUS
<1>2. S = {i} => Parts(f, S \ {i}) = {}
  BY DEF Parts
<1>3. S = {i} => Cardinality(Parts(f, S \ {i})) = 0
  BY <1>2, FS_EmptySet
<1> QED
  BY <1>1, <1>3, SumSplit

-----------------------------------------------------------------------------
(***************************************************************************)
(* The least member of a set, and its members in order.                    *)
(***************************************************************************)
LEMMA LowestIs ==
  ASSUME NEW S \in SUBSET Nat, S # {}
  PROVE  Lowest(S) \in S
<1>1. PICK m \in S : \A y \in S : ~ (<<y, m>> \in OpToRel(<, Nat))
  BY NatLessThanWellFounded, WFMin, Zenon
<1>2. ASSUME NEW y \in S, y < m PROVE FALSE
  <2>1. <<y, m>> \in {p \in Nat \X Nat : p[1] < p[2]}
    BY <1>2
  <2>2. <<y, m>> \in OpToRel(<, Nat)
    BY <2>1, Zenon DEF OpToRel
  <2> QED
    BY <1>1, <2>2
<1>3. \A y \in S : m <= y
  BY <1>2
<1> QED
  BY <1>3 DEF Lowest

\* The members of S in order are members of S, each there once.
LEMMA AscendingIs ==
  ASSUME NEW S \in SUBSET Nat, IsFiniteSet(S)
  PROVE  /\ Ascending(S) \in Seq(S) /\ Len(Ascending(S)) = Cardinality(S)
         /\ Cardinality(S) \in Nat
         /\ \A i, j \in 1 .. Cardinality(S) : Ascending(S)[i] = Ascending(S)[j] => i = j
<1> DEFINE n == Cardinality(S)
           Below(x) == {y \in S : y <= x}
           rank == [x \in S |-> Cardinality(Below(x))]
           d == Ascending(S)
<1>1. n \in Nat
  BY FS_CardinalityType
<1>2. \A x \in S : IsFiniteSet(Below(x)) /\ Cardinality(Below(x)) \in 1 .. n
  <2> TAKE x \in S
  <2>1. Below(x) \in SUBSET S /\ x \in Below(x)
    OBVIOUS
  <2> HIDE DEF Below
  <2>2. IsFiniteSet(Below(x)) /\ Cardinality(Below(x)) <= n
    BY <2>1, FS_Subset
  <2>3. Cardinality(Below(x)) \in Nat /\ Cardinality(Below(x)) # 0
    BY <2>1, <2>2, FS_CardinalityType, FS_EmptySet
  <2> QED
    BY <1>1, <2>2, <2>3
<1>3. rank \in [S -> 1 .. n]
  BY <1>2
<1>4. \A x, z \in S : x < z => rank[x] # rank[z]
  <2> SUFFICES ASSUME NEW x \in S, NEW z \in S, x < z PROVE rank[x] # rank[z]
    OBVIOUS
  <2>0. x \in Nat /\ z \in Nat /\ \A y \in S : y \in Nat
    OBVIOUS
  <2>1. Below(x) \in SUBSET Below(z) /\ z \in Below(z) /\ z \notin Below(x)
    <3>1. \A y \in S : y <= x => y <= z
      BY <2>0
    <3>2. Below(x) \in SUBSET Below(z)
      BY <3>1
    <3>3. z <= z /\ ~ (z <= x)
      BY <2>0
    <3> QED
      BY <3>2, <3>3
  <2>2. IsFiniteSet(Below(z))
    BY <1>2
  <2> HIDE DEF Below
  <2> QED
    BY <2>1, <2>2, FS_Subset
<1>5. \A x, z \in S : rank[x] = rank[z] => x = z
  <2> HIDE DEF rank
  <2> QED
    BY <1>4
<1>6. \A i \in 1 .. n : \E x \in S : rank[x] = i
  <2>1. IsFiniteSet(1 .. n) /\ Cardinality(1 .. n) = n
    BY <1>1, FS_Interval
  <2> HIDE DEF rank
  <2>2. rank \in Injection(S, 1 .. n)
    BY <1>3, <1>5 DEF Injection, IsInjective
  <2>3. rank \in Surjection(S, 1 .. n)
    BY <2>1, <2>2, FS_Injection
  <2> QED
    BY <2>3 DEF Surjection
<1>7. d = [i \in 1 .. n |-> CHOOSE x \in S : Cardinality({y \in S : y <= x}) = i]
  BY DEF Ascending
<1>8. \A i \in 1 .. n : d[i] \in S /\ rank[d[i]] = i
  <2> TAKE i \in 1 .. n
  <2>1. \E x \in S : Cardinality({y \in S : y <= x}) = i
    BY <1>6
  <2>2. d[i] = CHOOSE x \in S : Cardinality({y \in S : y <= x}) = i
    BY <1>7
  <2> HIDE DEF d
  <2>3. d[i] \in S /\ Cardinality({y \in S : y <= d[i]}) = i
    BY <2>1, <2>2
  <2> QED
    BY <2>3
<1> HIDE DEF rank, d, n
<1>9. d \in Seq(S) /\ Len(d) = n
  <2>1. d \in [1 .. n -> S]
    BY <1>7, <1>8
  <2> QED
    BY <1>1, <2>1
<1> QED
  BY <1>1, <1>8, <1>9 DEF d, n

\* What the scan collects: free inodes, each once, as many as there is room for.
LEMMA CollectedIs ==
  ASSUME dinode \in [Ino -> State], sInode \in Seq(Ino)
  PROVE  /\ Collected \in Seq(FreeOnDisk)
         /\ \A i, j \in DOMAIN Collected : Collected[i] = Collected[j] => i = j
         /\ Len(sInode) < NLISTED => Len(Collected) <= NLISTED - Len(sInode)
<1> DEFINE all == Ascending(FreeOnDisk)
           room == IF Len(sInode) < NLISTED THEN NLISTED - Len(sInode) ELSE 1
           k == IF Len(all) < room THEN Len(all) ELSE room
<1>1. FreeOnDisk \in SUBSET Ino /\ FreeOnDisk \in SUBSET Nat
  BY InodeAssumption DEF FreeOnDisk
<1>2. IsFiniteSet(FreeOnDisk)
  BY <1>1, InodeAssumption, FS_Subset
<1>3. /\ all \in Seq(FreeOnDisk) /\ Len(all) \in Nat
      /\ \A i, j \in 1 .. Len(all) : all[i] = all[j] => i = j
  BY <1>1, <1>2, AscendingIs
<1>4. room \in Nat
  BY InodeAssumption
<1>5. k \in Nat /\ k <= Len(all) /\ k <= room
  BY <1>3, <1>4
<1>6. Collected = SubSeq(all, 1, k)
  BY DEF Collected
<1> HIDE DEF all, room, k
<1>7. Len(SubSeq(all, 1, k)) = k /\ \A i \in 1 .. k : SubSeq(all, 1, k)[i] = all[i]
  BY <1>3, <1>5
<1>8. SubSeq(all, 1, k) \in Seq(FreeOnDisk)
  BY <1>3, <1>5
<1>9. DOMAIN Collected = 1 .. k
  BY <1>6, <1>7, <1>8
<1>10. \A i, j \in DOMAIN Collected : Collected[i] = Collected[j] => i = j
  BY <1>3, <1>5, <1>6, <1>7, <1>9
<1>11. Len(sInode) < NLISTED => room = NLISTED - Len(sInode)
  BY DEF room
<1> QED
  BY <1>5, <1>6, <1>7, <1>8, <1>10, <1>11

-----------------------------------------------------------------------------
(***************************************************************************)
(* What holds of a call, by where it is.                                   *)
(***************************************************************************)
\* Where ent is an entry; UpdateInodeTable runs past the last.
OnEntry == {"wait", "name", "fill", "held", "writedir", "chdir", "iolock", "io", "sync"} \cup InPut

\* Where IGet is called, waits, or has returned.
InGet == {"get", "wait", "find", "name", "fill", "held"}

\* A call has an entry set aside exactly where it gives it back later.
Call(t) ==
  /\ pc[t] \in OnEntry => ent[t] \in Entry
  /\ pc[t] \in InPut => (kept[t] # NoOne <=> then[t] \in {"file", "put", "chdir", "pop"})
  /\ pc[t] \in InPut /\ then[t] = "get" => goal[t] \in {"search", "file"}
  /\ pc[t] \in InGet => (kept[t] # NoOne <=> goal[t] \in {"alloc", "victim"})
  /\ pc[t] \in {"pop", "scan", "writedir"} => kept[t] # NoOne
  /\ pc[t] \in {"idle", "chdir", "iolock", "io", "update", "sync"} => kept[t] = NoOne
  /\ pc[t] \notin InPut => then[t] # "chdir"

\* NameI's first IGet is for a directory that is in the table, so it returns the
\* entry that NameI goes on with.
Starting(t) ==
  goal[t] \in Begins =>
    /\ pc[t] \in {"get", "wait"} /\ want[t] = number[Begin(t)]
    /\ pc[t] = "wait" => ent[t] = Begin(t)

TableOK == TableInv /\ \A t \in Thread : Call(t)

LEMMA Consts ==
  /\ Lowest(Slot) \in Slot
  /\ NoOne \notin Entry /\ NoOne \notin Thread
  /\ 0 \in Entry /\ Entry \subseteq Nat /\ Entry \subseteq 0 .. NINODE
  /\ \A x \in Entry : x + 1 \in 0 .. NINODE
  /\ Dir \subseteq Ino /\ Ino \subseteq Nat /\ 0 \in Dir
  /\ MaxOpen \in Nat /\ NINODE \in Nat
BY InodeAssumption, LowestIs DEF Entry

\* What thread t is at, and what refers to an entry on its behalf.
OthersStay(t) ==
  \A u \in Thread \ {t} :
    /\ pc'[u] = pc[u] /\ goal'[u] = goal[u] /\ then'[u] = then[u]
    /\ ent'[u] = ent[u] /\ kept'[u] = kept[u]
    /\ open'[u] = open[u] /\ cdir'[u] = cdir[u]

\* Every variable but i_count keeps its type without more ado.
TypeButCount ==
  /\ number \in [Entry -> Ino \cup {-1}]
  /\ node \in [Entry -> State]
  /\ upd \in [Entry -> BOOLEAN] /\ ilock \in [Entry -> BOOLEAN]
  /\ mutex \in [Entry -> Thread \cup {NoOne}]
  /\ dinode \in [Ino -> State]
  /\ sInode \in Seq(Ino)
  /\ dir \in [Dir -> [Slot -> Ino]] /\ nameless \subseteq Ino
  /\ pc \in [Thread -> Pc]
  /\ goal \in [Thread -> Begins \cup {"search", "file", "alloc", "victim"}]
  /\ then \in [Thread -> {"idle", "get", "pop", "file", "put", "chdir"}]
  /\ want \in [Thread -> Ino]
  /\ ent \in [Thread -> 0 .. NINODE]
  /\ kept \in [Thread -> Entry \cup {NoOne}]
  /\ slot \in [Thread -> Slot]
  /\ open \in [Thread -> [Entry -> 0 .. MaxOpen]]
  /\ cdir \in [Thread -> Entry]
  /\ left \in [Entry -> Nat]
  /\ wrecked \in BOOLEAN

LEMMA OpenFits ==
  ASSUME NEW f \in [Entry -> 0 .. MaxOpen], SumOf(f) < MaxOpen, NEW x \in Entry
  PROVE  [f EXCEPT ![x] = @ + 1] \in [Entry -> 0 .. MaxOpen]
<1>1. IsFiniteSet(Entry)
  BY Consts, FS_Interval DEF Entry
<1>2. SumOf(f) >= f[x] /\ SumOf(f) \in Nat
  BY <1>1, Consts, SumBounds, SumMoves
<1>3. f[x] + 1 \in 0 .. MaxOpen
  BY <1>2, Consts
<1> QED
  BY <1>3

LEMMA SeqWider ==
  ASSUME NEW S, NEW T, S \subseteq T, NEW q \in Seq(S)
  PROVE  q \in Seq(T)
OBVIOUS

LEMMA DirEntry ==
  ASSUME TypeOK, NEW d \in Dir, NEW r \in Slot
  PROVE  dir[d][r] \in Ino
BY DEF TypeOK

LEMMA OneMore ==
  ASSUME NEW f \in [Entry -> Nat], NEW x \in Entry
  PROVE  [f EXCEPT ![x] = @ + 1] \in [Entry -> Nat]
OBVIOUS

LEMMA IGetTypes ==
  ASSUME TypeOK, NEW t \in Thread, Call(t), IGetStep(t)
  PROVE  TypeButCount' /\ OthersStay(t)
<1> USE Consts DEF Begins, Return, Begin, IPut, TypeOK, Call, OnEntry, InPut, InGet, Goto, Go, Done, Lock, tableVars, diskVars, ctlVars,
                   userVars, TypeButCount, OthersStay, Pc
<1>1. CASE GetLoaded(t)
  <2>1. Loaded(want[t]) \in SUBSET Nat
    BY DEF Loaded
  <2>2. Lowest(Loaded(want[t])) \in Entry
    BY <1>1, <2>1, LowestIs DEF GetLoaded, Loaded
  <2> QED
    BY <1>1, <2>2 DEF GetLoaded
<1>2. CASE GetLock(t)
  BY <1>2 DEF GetLock
<1>3. CASE GetName(t)
  BY <1>3 DEF GetName
<1>4. CASE GetFill(t)
  BY <1>4 DEF GetFill
<1>5. CASE GetNone(t)
  <2>1. CASE goal[t] \in Begins
    <3>1. Begin(t) \in Entry /\ Begin(t) \in 0 .. NINODE
      OBVIOUS
    <3>2. IPut(t, Begin(t), "idle") /\ UNCHANGED <<goal, want, kept, slot, left>>
      BY <1>5, <2>1 DEF GetNone
    <3> HIDE DEF Begin
    <3> QED
      BY <1>5, <3>1, <3>2 DEF GetNone, TableFull
  <2>2. CASE goal[t] \notin Begins
    <3>1. Done(t) /\ IF goal[t] = "alloc" THEN LeaveDirectory(t) ELSE UNCHANGED left
      BY <1>5, <2>2 DEF GetNone
    <3>2. left' \in [Entry -> Nat]
      <4>1. CASE goal[t] = "alloc"
        <5>1. kept[t] \in Entry /\ left \in [Entry -> Nat]
          BY <1>5, <4>1 DEF GetNone, TableFull
        <5> QED
          BY <3>1, <4>1, <5>1, OneMore DEF LeaveDirectory
      <4> QED
        BY <3>1, <4>1
    <3> QED
      BY <1>5, <3>1, <3>2 DEF GetNone, TableFull
  <2> QED
    BY <2>1, <2>2
<1>6. CASE GetNoVictim(t)
  BY <1>6 DEF GetNoVictim
<1>7. CASE GetUnloaded(t)
  BY <1>7 DEF GetUnloaded
<1>8. CASE GetFree(t)
  <2>1. FreeEntries \in SUBSET Nat
    BY DEF FreeEntries
  <2>2. Lowest(FreeEntries) \in Entry
    BY <1>8, <2>1, LowestIs DEF GetFree, FreeEntries
  <2> QED
    BY <1>8, <2>2 DEF GetFree
<1> QED
  BY <1>1, <1>2, <1>3, <1>4, <1>5, <1>6, <1>7, <1>8 DEF IGetStep

LEMMA IPutTypes ==
  ASSUME TypeOK, NEW t \in Thread, Call(t), IPutStep(t)
  PROVE  TypeButCount' /\ OthersStay(t)
<1> USE Consts DEF TypeOK, Call, OnEntry, InPut, InGet, Goto, Go, Done, Take, IPut, Lock, NFrele,
                   tableVars, diskVars, ctlVars, userVars, TypeButCount, OthersStay, Pc
<1>1. CASE PutLast(t)
  <2>1. /\ node' \in [Entry -> State] /\ upd' \in [Entry -> BOOLEAN]
        /\ sInode' \in Seq(Ino)
    <3>1. number[ent[t]] \in Ino => Append(sInode, number[ent[t]]) \in Seq(Ino)
      OBVIOUS
    <3>2. sInode' \in Seq(Ino)
      BY <1>1, <3>1 DEF PutLast, Listed
    <3>3. node' \in [Entry -> State] /\ upd' \in [Entry -> BOOLEAN]
      BY <1>1 DEF PutLast, Freed, State
    <3> QED
      BY <3>2, <3>3
  <2> QED
    BY <1>1, <2>1 DEF PutLast
<1>2. CASE PutWrite(t)
  <2>1. dinode' \in [Ino -> State]
    BY <1>2 DEF PutWrite, IUpdate
  <2> QED
    BY <1>2, <2>1 DEF PutWrite
<1>3. CASE PutRelease(t)
  BY <1>3 DEF PutRelease
<1>4. CASE PutClear(t)
  BY <1>4 DEF PutClear
<1>5. CASE PutShared(t)
  BY <1>5 DEF PutShared
<1>6. CASE PutDec(t)
  <2>1. /\ UNCHANGED <<number, node, upd, diskVars, userVars, wrecked>>
        /\ pc[t] = "dec" /\ ent[t] \in Entry /\ NFrele(ent[t])
    BY <1>6 DEF PutDec
  <2>2. CASE then[t] = "idle"
    <3>1. Done(t)
      BY <1>6, <2>2 DEF PutDec
    <3> QED
      BY <2>1, <3>1
  <2>3. CASE then[t] \in {"get", "pop"}
    <3>1. Go(t, then[t]) /\ UNCHANGED <<goal, then, want, ent, kept, slot>>
      BY <1>6, <2>3 DEF PutDec
    <3> QED
      BY <2>1, <2>3, <3>1
  <2>4. CASE then[t] \in {"file", "put", "chdir"}
    <3>1. kept[t] \in Entry
      BY <2>1, <2>4
    <3>2. /\ then' = [then EXCEPT ![t] = "idle"]
          /\ ent' = [ent EXCEPT ![t] = kept[t]] /\ kept' = [kept EXCEPT ![t] = NoOne]
          /\ want' = want /\ slot' = slot
          /\ \E p \in {"held", "put", "chdir"} : Go(t, p)
          /\ \E g \in {"file", goal[t]} : goal' = [goal EXCEPT ![t] = g]
      BY <1>6, <2>4 DEF PutDec
    <3>3. /\ pc' \in [Thread -> Pc] /\ goal' \in [Thread -> Begins \cup {"search", "file", "alloc", "victim"}]
          /\ \A u \in Thread \ {t} : pc'[u] = pc[u] /\ goal'[u] = goal[u]
      BY <3>2
    <3> QED
      BY <2>1, <3>1, <3>2, <3>3
  <2> QED
    BY <2>2, <2>3, <2>4
<1> QED
  BY <1>1, <1>2, <1>3, <1>4, <1>5, <1>6 DEF IPutStep

LEMMA IAllocTypes ==
  ASSUME TypeOK, NEW t \in Thread, Call(t), IAllocStep(t)
  PROVE  TypeButCount' /\ OthersStay(t)
<1> USE Consts DEF TypeOK, Call, OnEntry, InPut, InGet, Goto, Go, Done, Take, IPut, Lock, NFrele,
                   tableVars, diskVars, ctlVars, userVars, TypeButCount, OthersStay, Pc
<1>1. CASE IAllocScan(t)
  <2>1. Collected \in Seq(FreeOnDisk) /\ FreeOnDisk \subseteq Ino
    BY CollectedIs DEF FreeOnDisk
  <2>2. Collected \in Seq(Ino)
    BY <2>1, SeqWider
  <2>3. sInode \o Collected \in Seq(Ino)
    BY <2>2
  <2>4. sInode' \in Seq(Ino)
    BY <1>1, <2>3 DEF IAllocScan
  <2> QED
    BY <1>1, <2>4 DEF IAllocScan
<1>2. CASE IAllocNone(t)
  <2>1. kept[t] \in Entry /\ left \in [Entry -> Nat]
    BY <1>2 DEF IAllocNone
  <2>2. left' = [left EXCEPT ![kept[t]] = @ + 1]
    BY <1>2 DEF IAllocNone, LeaveDirectory
  <2>3. left' \in [Entry -> Nat]
    BY <2>1, <2>2, OneMore
  <2> QED
    BY <1>2, <2>3 DEF IAllocNone
<1>3. CASE IAllocPop(t)
  <2>1. Last(sInode) \in Ino /\ Front(sInode) \in Seq(Ino)
    BY <1>3 DEF IAllocPop, Last, Front
  <2> QED
    BY <1>3, <2>1 DEF IAllocPop
<1>4. CASE IAllocBelow(t)
  BY <1>4 DEF IAllocBelow
<1>5. CASE IAllocTaken(t)
  BY <1>5 DEF IAllocTaken
<1>6. CASE MakNode(t)
  <2>1. dinode' \in [Ino -> State] /\ node' \in [Entry -> State]
    BY <1>6 DEF MakNode, State
  <2> QED
    BY <1>6, <2>1 DEF MakNode
<1>7. CASE WriteDir(t)
  <2>1. kept[t] \in Entry /\ ent[t] \in Entry
    BY <1>7 DEF WriteDir
  <2>2. dir' \in [Dir -> [Slot -> Ino]]
    BY <1>7, <2>1 DEF WriteDir
  <2> QED
    BY <1>7, <2>1, <2>2 DEF WriteDir
<1>8. CASE WriteDirFull(t)
  BY <1>8 DEF WriteDirFull
<1> QED
  BY <1>1, <1>2, <1>3, <1>4, <1>5, <1>6, <1>7, <1>8 DEF IAllocStep

LEMMA SessionTypes ==
  ASSUME TypeOK, NEW t \in Thread, Call(t), SessionStep(t)
  PROVE  TypeButCount' /\ OthersStay(t)
<1> USE Consts DEF TypeOK, Call, OnEntry, InPut, InGet, Goto, Go, Done, Take, IPut, Lock, NFrele,
                   tableVars, diskVars, ctlVars, userVars, TypeButCount, OthersStay, Pc
<1>1. CASE NameI(t)
  <2>0. PICK n : \E g \in Begins : Take(t, n, g)
    <3> HIDE DEF Take
    <3>1. Take(t, number[0], "root") \/ Take(t, number[cdir[t]], "cwd")
      BY <1>1 DEF NameI
    <3> QED
      BY <3>1 DEF Begins
  <2>1. PICK g \in Begins : Take(t, n, g)
    BY <2>0
  <2>2. n \in Ino
    BY <1>1, <2>1 DEF NameI
  <2>3. want' \in [Thread -> Ino] /\ goal' \in [Thread -> Begins \cup {"search", "file", "alloc", "victim"}]
        /\ \A u \in Thread \ {t} : goal'[u] = goal[u]
    BY <2>1, <2>2
  <2> HIDE DEF Take
  <2> QED
    BY <1>1, <2>3 DEF NameI
<1>2. CASE Walk(t)
  <2>1. pc[t] = "held" /\ ent[t] \in Entry /\ number[ent[t]] \in Dir
    BY <1>2 DEF Walk, Searching
  <2>2. PICK r \in Slot : Take(t, EntryOf(t, r), "file") \/ Take(t, EntryOf(t, r), "search")
    BY <1>2 DEF Walk
  <2>3. EntryOf(t, r) \in Ino
    BY <2>1, DirEntry DEF EntryOf
  <2>4. PICK n \in Ino, g \in {"search", "file"} : Take(t, n, g)
    BY <2>2, <2>3
  <2>5. /\ want' \in [Thread -> Ino] /\ goal' \in [Thread -> Begins \cup {"search", "file", "alloc", "victim"}]
        /\ \A u \in Thread \ {t} : goal'[u] = goal[u]
    BY <2>4
  <2>6. IPut(t, ent[t], "get") /\ UNCHANGED <<tableVars, diskVars, kept, slot, userVars, wrecked>>
    BY <1>2 DEF Walk
  <2> QED
    BY <2>1, <2>5, <2>6
<1>3. CASE NewName(t)
  <2> DEFINE room == {s \in Slot : EntryOf(t, s) = 0}
  <2>1. room \in SUBSET Nat /\ room # {} /\ pc[t] = "held"
    BY <1>3, InodeAssumption DEF NewName, Searching
  <2>2. Lowest(room) \in Slot
    BY <2>1, LowestIs
  <2>3. slot' = [slot EXCEPT ![t] = Lowest(room)]
    BY <1>3 DEF NewName
  <2> HIDE DEF room
  <2>4. slot' \in [Thread -> Slot]
    BY <2>2, <2>3
  <2>5. pc' \in [Thread -> Pc] /\ \A u \in Thread \ {t} : pc'[u] = pc[u]
    BY <1>3 DEF NewName
  <2>6. upd' \in [Entry -> BOOLEAN] /\ kept' \in [Thread -> Entry \cup {NoOne}]
    BY <1>3, <2>1 DEF NewName
  <2> QED
    BY <1>3, <2>4, <2>5, <2>6 DEF NewName
<1>4. CASE Victim(t)
  <2>1. pc[t] = "held" /\ ent[t] \in Entry /\ number[ent[t]] \in Dir
    BY <1>4 DEF Victim, Searching
  <2>2. PICK r \in Slot : slot' = [slot EXCEPT ![t] = r] /\ Take(t, EntryOf(t, r), "victim")
    BY <1>4 DEF Victim
  <2>3. EntryOf(t, r) \in Ino
    BY <2>1, DirEntry DEF EntryOf
  <2>4. /\ want' \in [Thread -> Ino] /\ goal' \in [Thread -> Begins \cup {"search", "file", "alloc", "victim"}]
        /\ slot' \in [Thread -> Slot] /\ \A u \in Thread \ {t} : goal'[u] = goal[u]
    BY <2>2, <2>3
  <2> QED
    BY <1>4, <2>1, <2>4 DEF Victim
<1>5. CASE UnLink(t)
  <2>1. kept[t] \in Entry /\ ent[t] \in Entry
    BY <1>5 DEF UnLink
  <2>2. dir' \in [Dir -> [Slot -> Ino]]
    BY <1>5, <2>1 DEF UnLink
  <2>3. node' \in [Entry -> State] /\ upd' \in [Entry -> BOOLEAN]
    BY <1>5, <2>1 DEF UnLink, State
  <2> QED
    BY <1>5, <2>1, <2>2, <2>3 DEF UnLink
<1>6. CASE Open1(t)
  <2>1. pc[t] = "held" /\ ent[t] \in Entry
    BY <1>6 DEF Open1, Found
  <2>2. node' \in [Entry -> State] /\ upd' \in [Entry -> BOOLEAN]
    <3>1. UNCHANGED <<node, upd>> \/ Truncated(t)
      BY <1>6 DEF Open1
    <3>2. CASE UNCHANGED <<node, upd>>
      BY <3>2
    <3>3. CASE Truncated(t)
      BY <2>1, <3>3 DEF Truncated, State
    <3> QED
      BY <3>1, <3>2, <3>3
  <2>3. [open[t] EXCEPT ![ent[t]] = @ + 1] \in [Entry -> 0 .. MaxOpen]
    BY <1>6, <2>1, OpenFits DEF Open1
  <2>4. open' = [open EXCEPT ![t] = [open[t] EXCEPT ![ent[t]] = @ + 1]]
    BY <1>6, <2>1 DEF Open1
  <2>5. open' \in [Thread -> [Entry -> 0 .. MaxOpen]] /\ \A u \in Thread \ {t} : open'[u] = open[u]
    BY <2>3, <2>4
  <2> QED
    BY <1>6, <2>2, <2>5 DEF Open1
<1>7. CASE Open1Fails(t)
  <2>1. pc[t] = "held" /\ ent[t] \in Entry
    BY <1>7 DEF Open1Fails, Found
  <2>2. node' \in [Entry -> State] /\ upd' \in [Entry -> BOOLEAN]
    <3>1. UNCHANGED <<node, upd>> \/ Truncated(t)
      BY <1>7 DEF Open1Fails
    <3>2. CASE UNCHANGED <<node, upd>>
      BY <3>2
    <3>3. CASE Truncated(t)
      BY <2>1, <3>3 DEF Truncated, State
    <3> QED
      BY <3>1, <3>2, <3>3
  <2> QED
    BY <1>7, <2>1, <2>2 DEF Open1Fails
<1>8. CASE GiveUp(t)
  BY <1>8 DEF GiveUp, Found
<1>9. CASE ChDir(t)
  BY <1>9 DEF ChDir, Found
<1>10. CASE ChDirEnd(t)
  BY <1>10 DEF ChDirEnd
<1>11. CASE Close(t)
  <2>1. PICK x \in Entry : /\ open[t][x] > 0 /\ IPut(t, x, "idle")
                           /\ open' = [open EXCEPT ![t][x] = @ - 1]
    BY <1>11 DEF Close
  <2>2. open' = [open EXCEPT ![t] = [open[t] EXCEPT ![x] = @ - 1]]
    BY <2>1
  <2>3. open[t][x] - 1 \in 0 .. MaxOpen
    BY <2>1
  <2>4. open' \in [Thread -> [Entry -> 0 .. MaxOpen]] /\ \A u \in Thread \ {t} : open'[u] = open[u]
    BY <2>2, <2>3
  <2> QED
    BY <1>11, <2>1, <2>4 DEF Close
<1>12. CASE Rdwr(t)
  BY <1>12 DEF Rdwr
<1>13. CASE RdwrLock(t)
  BY <1>13 DEF RdwrLock
<1>14. CASE RdwrEnd(t)
  BY <1>14 DEF RdwrEnd
<1> QED
  BY <1>1, <1>2, <1>3, <1>4, <1>5, <1>6, <1>7, <1>8, <1>9, <1>10, <1>11, <1>12, <1>13, <1>14 DEF SessionStep

LEMMA UpdateTypes ==
  ASSUME TypeOK, NEW t \in Thread, Call(t), UpdateStep(t)
  PROVE  TypeButCount' /\ OthersStay(t)
<1> USE Consts DEF TypeOK, Call, OnEntry, InPut, InGet, Goto, Go, Done, Take, IPut, Lock, NFrele,
                   tableVars, diskVars, ctlVars, userVars, TypeButCount, OthersStay, Pc
<1>1. CASE Update(t)
  BY <1>1 DEF Update
<1>2. CASE UpdateSkip(t)
  <2>1. ent' \in [Thread -> 0 .. NINODE] /\ \A u \in Thread \ {t} : ent'[u] = ent[u]
    BY <1>2 DEF UpdateSkip
  <2> QED
    BY <1>2, <2>1 DEF UpdateSkip
<1>3. CASE UpdateTake(t)
  BY <1>3 DEF UpdateTake
<1>4. CASE UpdateSync(t)
  <2>1. dinode' \in [Ino -> State]
    BY <1>4 DEF UpdateSync, IUpdate
  <2> QED
    BY <1>4, <2>1 DEF UpdateSync
<1>5. CASE UpdateEnd(t)
  BY <1>5 DEF UpdateEnd
<1> QED
  BY <1>1, <1>2, <1>3, <1>4, <1>5 DEF UpdateStep

\* A step moves i_count and what the thread refers to, or nobody will give back, alike.
Moves(t) ==
  \A x \in Entry :
    count'[x] - left'[x] - References(t, x)' = count[x] - left[x] - References(t, x)

LEMMA ReferencesAre ==
  ASSUME TypeButCount, NEW t \in Thread, NEW x \in Entry
  PROVE  References(t, x) \in 0 .. MaxOpen + 3
<1>1. open[t][x] \in 0 .. MaxOpen
  BY DEF TypeButCount
<1>2. \A P \in BOOLEAN : One(P) \in 0 .. 1
  BY DEF One
<1>3. ASSUME NEW a \in 0 .. MaxOpen, NEW b \in 0 .. 1, NEW c \in 0 .. 1, NEW d \in 0 .. 1
      PROVE  a + b + c + d \in 0 .. MaxOpen + 3
  BY Consts
<1>4. /\ One(cdir[t] = x) \in 0 .. 1
      /\ One(ent[t] = x /\ pc[t] \in {"held", "writedir"} \cup InPut) \in 0 .. 1
      /\ One(kept[t] = x /\ then[t] # "chdir") \in 0 .. 1
  BY DEF One
<1> QED
  BY <1>1, <1>3, <1>4 DEF References

\* The three ways to move: a reference taken, given back, or left for good.
LEMMA Taken ==
  ASSUME TypeOK, TypeButCount', NEW t \in Thread, NEW e \in Entry, left' = left,
         count' = [count EXCEPT ![e] = @ + 1],
         \A x \in Entry : References(t, x)' = References(t, x) + One(x = e)
  PROVE  Moves(t)
<1> SUFFICES ASSUME NEW x \in Entry
             PROVE  count'[x] - left'[x] - References(t, x)' = count[x] - left[x] - References(t, x)
  BY DEF Moves
<1>0. TypeButCount
  BY DEF TypeOK, TypeButCount
<1>1. References(t, x) \in Nat /\ count[x] \in Nat /\ left[x] \in Nat
  BY <1>0, Consts, ReferencesAre DEF TypeOK
<1>2. count'[x] = count[x] + One(x = e)
  BY DEF TypeOK, One
<1>3. One(x = e) \in Nat
  BY DEF One
<1> QED
  BY <1>1, <1>2, <1>3

LEMMA Returned ==
  ASSUME TypeOK, TypeButCount', NEW t \in Thread, NEW e \in Entry, left' = left,
         count' = [count EXCEPT ![e] = @ - 1],
         \A x \in Entry : References(t, x)' = References(t, x) - One(x = e)
  PROVE  Moves(t)
<1> SUFFICES ASSUME NEW x \in Entry
             PROVE  count'[x] - left'[x] - References(t, x)' = count[x] - left[x] - References(t, x)
  BY DEF Moves
<1>0. TypeButCount
  BY DEF TypeOK, TypeButCount
<1>1. References(t, x) \in Nat /\ count[x] \in Nat /\ left[x] \in Nat
  BY <1>0, Consts, ReferencesAre DEF TypeOK
<1>2. count'[x] = count[x] - One(x = e)
  BY DEF TypeOK, One
<1>3. One(x = e) \in Nat
  BY DEF One
<1> QED
  BY <1>1, <1>2, <1>3

LEMMA LeftBehind ==
  ASSUME TypeOK, TypeButCount', NEW t \in Thread, NEW e \in Entry, count' = count,
         left' = [left EXCEPT ![e] = @ + 1],
         \A x \in Entry : References(t, x)' = References(t, x) - One(x = e)
  PROVE  Moves(t)
<1> SUFFICES ASSUME NEW x \in Entry
             PROVE  count'[x] - left'[x] - References(t, x)' = count[x] - left[x] - References(t, x)
  BY DEF Moves
<1>0. TypeButCount
  BY DEF TypeOK, TypeButCount
<1>1. References(t, x) \in Nat /\ count[x] \in Nat /\ left[x] \in Nat
  BY <1>0, Consts, ReferencesAre DEF TypeOK
<1>2. left'[x] = left[x] + One(x = e)
  BY DEF TypeOK, One
<1>3. One(x = e) \in Nat
  BY DEF One
<1> QED
  BY <1>1, <1>2, <1>3

\* The reference of the call itself is to ent, where it has one.
CallRefers(t, x) == One(ent[t] = x /\ pc[t] \in {"held", "writedir"} \cup InPut)

AsideRefers(t, x) == One(kept[t] = x /\ then[t] # "chdir")

LEMMA RefersIn ==
  ASSUME TypeOK, NEW t \in Thread, NEW x \in Entry
  PROVE  /\ References(t, x) =
              open[t][x] + One(cdir[t] = x) + CallRefers(t, x) + AsideRefers(t, x)
         /\ References(t, x)' =
              open'[t][x] + One(cdir'[t] = x) + CallRefers(t, x)' + AsideRefers(t, x)'
         /\ open[t][x] \in Nat /\ One(cdir[t] = x) \in Nat
         /\ CallRefers(t, x) \in 0 .. 1 /\ AsideRefers(t, x) \in 0 .. 1
         /\ CallRefers(t, x)' \in 0 .. 1 /\ AsideRefers(t, x)' \in 0 .. 1
<1>1. open[t][x] \in Nat
  BY Consts DEF TypeOK
<1>2. \A P \in BOOLEAN : One(P) \in 0 .. 1
  BY DEF One
<1>3. One(cdir[t] = x) \in Nat
  BY DEF One
<1>4. CallRefers(t, x) \in 0 .. 1 /\ AsideRefers(t, x) \in 0 .. 1
  BY DEF CallRefers, AsideRefers, One
<1>5. CallRefers(t, x)' \in 0 .. 1 /\ AsideRefers(t, x)' \in 0 .. 1
  BY DEF CallRefers, AsideRefers, One
<1> QED
  BY <1>1, <1>3, <1>4, <1>5 DEF References, CallRefers, AsideRefers

LEMMA IGetCalls ==
  ASSUME TypeOK, NEW t \in Thread, Call(t), IGetStep(t)
  PROVE  Call(t)'
<1> USE Consts DEF Begins, Return, Begin, TypeOK, Call, OnEntry, InPut, InGet, Goto, Go, Done, Take, IPut, Lock, NFrele,
                   tableVars, diskVars, ctlVars, userVars, TableFull, LeaveDirectory
<1>1. CASE GetLoaded(t)
  <2>1. Loaded(want[t]) \in SUBSET Nat
    BY DEF Loaded
  <2>2. Lowest(Loaded(want[t])) \in Entry
    BY <1>1, <2>1, LowestIs DEF GetLoaded, Loaded
  <2> QED
    BY <1>1, <2>2 DEF GetLoaded
<1>2. CASE GetLock(t)
  BY <1>2 DEF GetLock
<1>3. CASE GetName(t)
  BY <1>3 DEF GetName
<1>4. CASE GetFill(t)
  BY <1>4 DEF GetFill
<1>5. CASE GetNone(t)
  BY <1>5 DEF GetNone
<1>6. CASE GetNoVictim(t)
  BY <1>6 DEF GetNoVictim
<1>7. CASE GetUnloaded(t)
  BY <1>7 DEF GetUnloaded
<1>8. CASE GetFree(t)
  <2>1. FreeEntries \in SUBSET Nat
    BY DEF FreeEntries
  <2>2. Lowest(FreeEntries) \in Entry
    BY <1>8, <2>1, LowestIs DEF GetFree, FreeEntries
  <2> QED
    BY <1>8, <2>2 DEF GetFree
<1> QED
  BY <1>1, <1>2, <1>3, <1>4, <1>5, <1>6, <1>7, <1>8 DEF IGetStep

LEMMA ReturnKeeps ==
  ASSUME TypeOK, NEW t \in Thread, Starting(t), Return(t), pc[t] \in {"wait", "fill"}
  PROVE  /\ ent' = ent /\ goal'[t] \notin Begins
         /\ goal[t] \notin Begins => goal' = goal
         /\ goal[t] \in Begins => goal'[t] = "search"
BY DEF TypeOK, Starting, Return, Begins

LEMMA IGetMoves ==
  ASSUME TypeOK, TypeButCount', NEW t \in Thread, Call(t), Starting(t), IGetStep(t)
  PROVE  Moves(t)
<1> USE Consts DEF TypeOK, TypeButCount, Call, OnEntry, InPut, InGet, Goto, Go, Done, Take, IPut, Lock, NFrele,
                   tableVars, diskVars, ctlVars, userVars, Moves, References, One, TableFull, LeaveDirectory
<1>1. CASE GetLoaded(t)
  BY <1>1 DEF GetLoaded
<1>2. CASE GetLock(t)
  <2>1. /\ ent[t] \in Entry /\ left' = left /\ count' = [count EXCEPT ![ent[t]] = @ + 1]
    BY <1>2 DEF GetLock
  <2>2. /\ pc[t] \in {"wait", "fill"} /\ pc'[t] = "held"
        /\ UNCHANGED <<then, ent, kept, open, cdir>>
    BY <1>2, ReturnKeeps DEF GetLock
  <2>3. ASSUME NEW x \in Entry PROVE References(t, x)' = References(t, x) + One(x = ent[t])
    <3>1. CallRefers(t, x) = 0 /\ CallRefers(t, x)' = One(x = ent[t])
      BY <2>2 DEF CallRefers
    <3>2. AsideRefers(t, x)' = AsideRefers(t, x)
      BY <2>2 DEF AsideRefers
    <3>3. open'[t][x] = open[t][x] /\ One(cdir'[t] = x) = One(cdir[t] = x) /\ One(x = ent[t]) \in Nat
      BY <2>2
    <3> HIDE DEF References, One, TypeOK, TypeButCount, Call
    <3> QED
      BY <3>1, <3>2, <3>3, RefersIn
  <2> HIDE DEF Moves, References, One
  <2> QED
    BY <2>1, <2>3, Taken
<1>3. CASE GetName(t)
  BY <1>3 DEF GetName
<1>4. CASE GetFill(t)
  <2>1. /\ ent[t] \in Entry /\ left' = left /\ count' = [count EXCEPT ![ent[t]] = @ + 1]
    BY <1>4 DEF GetFill
  <2>2. /\ pc[t] \in {"wait", "fill"} /\ pc'[t] = "held"
        /\ UNCHANGED <<then, ent, kept, open, cdir>>
    BY <1>4, ReturnKeeps DEF GetFill
  <2>3. ASSUME NEW x \in Entry PROVE References(t, x)' = References(t, x) + One(x = ent[t])
    <3>1. CallRefers(t, x) = 0 /\ CallRefers(t, x)' = One(x = ent[t])
      BY <2>2 DEF CallRefers
    <3>2. AsideRefers(t, x)' = AsideRefers(t, x)
      BY <2>2 DEF AsideRefers
    <3>3. open'[t][x] = open[t][x] /\ One(cdir'[t] = x) = One(cdir[t] = x) /\ One(x = ent[t]) \in Nat
      BY <2>2
    <3> HIDE DEF References, One, TypeOK, TypeButCount, Call
    <3> QED
      BY <3>1, <3>2, <3>3, RefersIn
  <2> HIDE DEF Moves, References, One
  <2> QED
    BY <2>1, <2>3, Taken
<1>5. CASE GetNone(t)
  <2>0. pc[t] = "find" /\ goal[t] \notin Begins
    BY <1>5 DEF GetNone, Starting
  <2>1. /\ pc[t] = "find" /\ pc'[t] = "idle" /\ kept'[t] = NoOne /\ then[t] # "chdir"
        /\ UNCHANGED <<count, open, cdir>>
    BY <1>5, <2>0 DEF GetNone
  <2>2. CASE goal[t] = "alloc"
    <3>1. kept[t] \in Entry /\ left' = [left EXCEPT ![kept[t]] = @ + 1]
      BY <1>5, <2>0, <2>2 DEF GetNone
    <3>2. \A x \in Entry : References(t, x)' = References(t, x) - One(x = kept[t])
      BY <2>1
    <3> HIDE DEF Moves, References, One
    <3> QED
      BY <2>1, <3>1, <3>2, LeftBehind
  <2>3. CASE goal[t] # "alloc"
    <3>1. kept[t] = NoOne /\ left' = left
      BY <1>5, <2>0, <2>3 DEF GetNone
    <3> QED
      BY <2>1, <3>1
  <2> QED
    BY <2>2, <2>3
<1>6. CASE GetNoVictim(t)
  BY <1>6 DEF GetNoVictim
<1>7. CASE GetUnloaded(t)
  BY <1>7 DEF GetUnloaded
<1>8. CASE GetFree(t)
  BY <1>8 DEF GetFree
<1> QED
  BY <1>1, <1>2, <1>3, <1>4, <1>5, <1>6, <1>7, <1>8 DEF IGetStep

LEMMA IPutCalls ==
  ASSUME TypeOK, NEW t \in Thread, Call(t), IPutStep(t)
  PROVE  Call(t)'
<1> USE Consts DEF TypeOK, Call, OnEntry, InPut, InGet, Goto, Go, Done, Take, IPut, Lock, NFrele,
                   tableVars, diskVars, ctlVars, userVars
<1>1. CASE PutLast(t)
  BY <1>1 DEF PutLast
<1>2. CASE PutWrite(t)
  BY <1>2 DEF PutWrite
<1>3. CASE PutRelease(t)
  BY <1>3 DEF PutRelease
<1>4. CASE PutClear(t)
  BY <1>4 DEF PutClear
<1>5. CASE PutShared(t)
  BY <1>5 DEF PutShared
<1>6. CASE PutDec(t)
  BY <1>6 DEF PutDec
<1> QED
  BY <1>1, <1>2, <1>3, <1>4, <1>5, <1>6 DEF IPutStep

LEMMA IPutMoves ==
  ASSUME TypeOK, TypeButCount', NEW t \in Thread, Call(t), IPutStep(t)
  PROVE  Moves(t)
<1> USE Consts DEF TypeOK, TypeButCount, Call, OnEntry, InPut, InGet, Goto, Go, Done, Take, IPut, Lock, NFrele,
                   tableVars, diskVars, ctlVars, userVars, Moves, References, One
<1>1. CASE PutLast(t)
  BY <1>1 DEF PutLast
<1>2. CASE PutWrite(t)
  BY <1>2 DEF PutWrite
<1>3. CASE PutRelease(t)
  BY <1>3 DEF PutRelease
<1>4. CASE PutClear(t)
  BY <1>4 DEF PutClear
<1>5. CASE PutShared(t)
  BY <1>5 DEF PutShared
<1>6. CASE PutDec(t)
  <2>1. /\ pc[t] = "dec" /\ ent[t] \in Entry /\ count' = [count EXCEPT ![ent[t]] = @ - 1]
        /\ UNCHANGED <<open, cdir, left>>
    BY <1>6 DEF PutDec
  <2>2. ASSUME NEW x \in Entry
        PROVE  References(t, x)' = References(t, x) - One(x = ent[t])
    <3>1. CASE then[t] = "idle"
      <4>1. pc'[t] = "idle" /\ kept'[t] = NoOne /\ kept[t] = NoOne
        BY <1>6, <3>1 DEF PutDec
      <4> QED
        BY <2>1, <4>1
    <3>2. CASE then[t] \in {"get", "pop"}
      <4>1. pc'[t] \in {"get", "pop"} /\ kept'[t] = kept[t] /\ then'[t] = then[t]
        BY <1>6, <3>2 DEF PutDec
      <4>2. CallRefers(t, x) = One(x = ent[t]) /\ CallRefers(t, x)' = 0
        BY <2>1, <4>1 DEF CallRefers
      <4>3. AsideRefers(t, x)' = AsideRefers(t, x)
        BY <4>1 DEF AsideRefers
      <4>4. /\ open'[t][x] = open[t][x] /\ One(cdir'[t] = x) = One(cdir[t] = x)
            /\ One(x = ent[t]) \in Nat
        BY <2>1
      <4> HIDE DEF References, One, TypeOK, TypeButCount, Call
      <4>5. References(t, x) =
              open[t][x] + One(cdir[t] = x) + CallRefers(t, x) + AsideRefers(t, x)
        BY RefersIn
      <4>6. References(t, x)' =
              open'[t][x] + One(cdir'[t] = x) + CallRefers(t, x)' + AsideRefers(t, x)'
        BY RefersIn
      <4>7. open[t][x] \in Nat /\ One(cdir[t] = x) \in Nat
        BY RefersIn
      <4>8. AsideRefers(t, x) \in 0 .. 1
        BY RefersIn
      <4> QED
        BY <4>2, <4>3, <4>4, <4>5, <4>6, <4>7, <4>8
    <3>3. CASE then[t] \in {"file", "put"}
      <4>1. /\ pc'[t] \in {"held", "put"} /\ kept'[t] = NoOne /\ ent'[t] = kept[t]
            /\ kept[t] \in Entry
        BY <1>6, <3>3 DEF PutDec
      <4>2. CallRefers(t, x) = One(x = ent[t]) /\ CallRefers(t, x)' = One(x = kept[t])
        BY <2>1, <4>1 DEF CallRefers
      <4>3. AsideRefers(t, x) = One(x = kept[t]) /\ AsideRefers(t, x)' = 0
        BY <3>3, <4>1 DEF AsideRefers
      <4>4. /\ open'[t][x] = open[t][x] /\ One(cdir'[t] = x) = One(cdir[t] = x)
            /\ One(x = ent[t]) \in Nat /\ One(x = kept[t]) \in Nat
        BY <2>1
      <4> HIDE DEF References, One, TypeOK, TypeButCount, Call
      <4>5. References(t, x) =
              open[t][x] + One(cdir[t] = x) + CallRefers(t, x) + AsideRefers(t, x)
        BY RefersIn
      <4>6. References(t, x)' =
              open'[t][x] + One(cdir'[t] = x) + CallRefers(t, x)' + AsideRefers(t, x)'
        BY RefersIn
      <4>7. open[t][x] \in Nat /\ One(cdir[t] = x) \in Nat
        BY RefersIn
      <4> QED
        BY <4>2, <4>3, <4>4, <4>5, <4>6, <4>7
    <3>4. CASE then[t] = "chdir"
      <4>1. pc'[t] = "chdir" /\ kept'[t] = NoOne
        BY <1>6, <3>4 DEF PutDec
      <4> QED
        BY <2>1, <3>4, <4>1
    <3> QED
      BY <3>1, <3>2, <3>3, <3>4
  <2> HIDE DEF Moves, References, One
  <2> QED
    BY <2>1, <2>2, Returned
<1> QED
  BY <1>1, <1>2, <1>3, <1>4, <1>5, <1>6 DEF IPutStep

LEMMA IAllocCalls ==
  ASSUME TypeOK, NEW t \in Thread, Call(t), IAllocStep(t)
  PROVE  Call(t)'
<1> USE Consts DEF TypeOK, Call, OnEntry, InPut, InGet, Goto, Go, Done, Take, IPut, Lock, NFrele,
                   tableVars, diskVars, ctlVars, userVars, LeaveDirectory
<1>1. CASE IAllocScan(t)
  BY <1>1 DEF IAllocScan
<1>2. CASE IAllocNone(t)
  BY <1>2 DEF IAllocNone
<1>3. CASE IAllocPop(t)
  BY <1>3 DEF IAllocPop
<1>4. CASE IAllocBelow(t)
  BY <1>4 DEF IAllocBelow
<1>5. CASE IAllocTaken(t)
  BY <1>5 DEF IAllocTaken
<1>6. CASE MakNode(t)
  BY <1>6 DEF MakNode
<1>7. CASE WriteDir(t)
  BY <1>7 DEF WriteDir
<1>8. CASE WriteDirFull(t)
  BY <1>8 DEF WriteDirFull
<1> QED
  BY <1>1, <1>2, <1>3, <1>4, <1>5, <1>6, <1>7, <1>8 DEF IAllocStep

LEMMA IAllocMoves ==
  ASSUME TypeOK, TypeButCount', NEW t \in Thread, Call(t), IAllocStep(t)
  PROVE  Moves(t)
<1> USE Consts DEF TypeOK, TypeButCount, Call, OnEntry, InPut, InGet, Goto, Go, Done, Take, IPut, Lock, NFrele,
                   tableVars, diskVars, ctlVars, userVars, Moves, References, One, LeaveDirectory
<1>1. CASE IAllocScan(t)
  BY <1>1 DEF IAllocScan
<1>2. CASE IAllocNone(t)
  <2>1. /\ count' = count /\ kept[t] \in Entry /\ left' = [left EXCEPT ![kept[t]] = @ + 1]
    BY <1>2 DEF IAllocNone
  <2>2. /\ pc[t] = "scan" /\ pc'[t] = "idle" /\ kept'[t] = NoOne /\ then[t] # "chdir"
        /\ UNCHANGED <<open, cdir>>
    BY <1>2 DEF IAllocNone
  <2>3. \A x \in Entry : References(t, x)' = References(t, x) - One(x = kept[t])
    BY <2>2
  <2> HIDE DEF Moves, References, One
  <2> QED
    BY <2>1, <2>3, LeftBehind
<1>3. CASE IAllocPop(t)
  BY <1>3 DEF IAllocPop
<1>4. CASE IAllocBelow(t)
  BY <1>4 DEF IAllocBelow
<1>5. CASE IAllocTaken(t)
  BY <1>5 DEF IAllocTaken
<1>6. CASE MakNode(t)
  BY <1>6 DEF MakNode
<1>7. CASE WriteDir(t)
  BY <1>7 DEF WriteDir
<1>8. CASE WriteDirFull(t)
  BY <1>8 DEF WriteDirFull
<1> QED
  BY <1>1, <1>2, <1>3, <1>4, <1>5, <1>6, <1>7, <1>8 DEF IAllocStep

LEMMA SessionCalls ==
  ASSUME TypeOK, NEW t \in Thread, Call(t), SessionStep(t)
  PROVE  Call(t)'
<1> USE Consts DEF TypeOK, Call, OnEntry, InPut, InGet, Goto, Go, Done, Take, IPut, Lock, NFrele,
                   tableVars, diskVars, ctlVars, userVars, Searching, Found, EntryOf, Truncated
<1>1. CASE NameI(t)
  BY <1>1 DEF NameI
<1>2. CASE Walk(t)
  BY <1>2 DEF Walk
<1>3. CASE NewName(t)
  BY <1>3 DEF NewName
<1>4. CASE Victim(t)
  BY <1>4 DEF Victim
<1>5. CASE UnLink(t)
  BY <1>5 DEF UnLink
<1>6. CASE Open1(t)
  BY <1>6 DEF Open1
<1>7. CASE Open1Fails(t)
  BY <1>7 DEF Open1Fails
<1>8. CASE GiveUp(t)
  BY <1>8 DEF GiveUp
<1>9. CASE ChDir(t)
  BY <1>9 DEF ChDir
<1>10. CASE ChDirEnd(t)
  BY <1>10 DEF ChDirEnd
<1>11. CASE Close(t)
  BY <1>11 DEF Close
<1>12. CASE Rdwr(t)
  BY <1>12 DEF Rdwr
<1>13. CASE RdwrLock(t)
  BY <1>13 DEF RdwrLock
<1>14. CASE RdwrEnd(t)
  BY <1>14 DEF RdwrEnd
<1> QED
  BY <1>1, <1>2, <1>3, <1>4, <1>5, <1>6, <1>7, <1>8, <1>9, <1>10, <1>11, <1>12, <1>13, <1>14 DEF SessionStep

LEMMA SessionMoves ==
  ASSUME TypeOK, TypeButCount', NEW t \in Thread, Call(t), SessionStep(t)
  PROVE  Moves(t)
<1> USE Consts DEF TypeOK, TypeButCount, Call, OnEntry, InPut, InGet, Goto, Go, Done, Take, IPut, Lock, NFrele,
                   tableVars, diskVars, ctlVars, userVars, Moves, References, One, Searching, Found, EntryOf, Truncated
<1>1. CASE NameI(t)
  BY <1>1 DEF NameI
<1>2. CASE Walk(t)
  BY <1>2 DEF Walk
<1>3. CASE NewName(t)
  BY <1>3 DEF NewName
<1>4. CASE Victim(t)
  BY <1>4 DEF Victim
<1>5. CASE UnLink(t)
  BY <1>5 DEF UnLink
<1>6. CASE Open1(t)
  BY <1>6 DEF Open1
<1>7. CASE Open1Fails(t)
  BY <1>7 DEF Open1Fails
<1>8. CASE GiveUp(t)
  BY <1>8 DEF GiveUp
<1>9. CASE ChDir(t)
  <2>1. /\ pc[t] = "held" /\ pc'[t] = "put" /\ ent[t] \in Entry /\ cdir[t] \in Entry
        /\ kept[t] = NoOne /\ kept'[t] = ent[t] /\ then'[t] = "chdir"
        /\ cdir'[t] = ent[t] /\ ent'[t] = cdir[t]
        /\ UNCHANGED <<count, open, left>>
    BY <1>9 DEF ChDir
  <2>2. ASSUME NEW x \in Entry PROVE References(t, x)' = References(t, x)
    BY <2>1
  <2> QED
    BY <2>1, <2>2
<1>10. CASE ChDirEnd(t)
  BY <1>10 DEF ChDirEnd
<1>11. CASE Close(t)
  BY <1>11 DEF Close
<1>12. CASE Rdwr(t)
  BY <1>12 DEF Rdwr
<1>13. CASE RdwrLock(t)
  BY <1>13 DEF RdwrLock
<1>14. CASE RdwrEnd(t)
  BY <1>14 DEF RdwrEnd
<1> QED
  BY <1>1, <1>2, <1>3, <1>4, <1>5, <1>6, <1>7, <1>8, <1>9, <1>10, <1>11, <1>12, <1>13, <1>14 DEF SessionStep

LEMMA UpdateCalls ==
  ASSUME TypeOK, NEW t \in Thread, Call(t), UpdateStep(t)
  PROVE  Call(t)'
<1> USE Consts DEF TypeOK, Call, OnEntry, InPut, InGet, Goto, Go, Done, Take, IPut, Lock, NFrele,
                   tableVars, diskVars, ctlVars, userVars
<1>1. CASE Update(t)
  BY <1>1 DEF Update
<1>2. CASE UpdateSkip(t)
  BY <1>2 DEF UpdateSkip
<1>3. CASE UpdateTake(t)
  <2>1. ent[t] \in Entry
    BY <1>3 DEF UpdateTake, Entry
  <2> QED
    BY <1>3, <2>1 DEF UpdateTake
<1>4. CASE UpdateSync(t)
  BY <1>4 DEF UpdateSync
<1>5. CASE UpdateEnd(t)
  BY <1>5 DEF UpdateEnd
<1> QED
  BY <1>1, <1>2, <1>3, <1>4, <1>5 DEF UpdateStep

LEMMA UpdateMoves ==
  ASSUME TypeOK, TypeButCount', NEW t \in Thread, Call(t), UpdateStep(t)
  PROVE  Moves(t)
<1> USE Consts DEF TypeOK, TypeButCount, Call, OnEntry, InPut, InGet, Goto, Go, Done, Take, IPut, Lock, NFrele,
                   tableVars, diskVars, ctlVars, userVars, Moves, References, One
<1>1. CASE Update(t)
  BY <1>1 DEF Update
<1>2. CASE UpdateSkip(t)
  BY <1>2 DEF UpdateSkip
<1>3. CASE UpdateTake(t)
  BY <1>3 DEF UpdateTake
<1>4. CASE UpdateSync(t)
  BY <1>4 DEF UpdateSync
<1>5. CASE UpdateEnd(t)
  BY <1>5 DEF UpdateEnd
<1> QED
  BY <1>1, <1>2, <1>3, <1>4, <1>5 DEF UpdateStep

Steps(t) ==
  IGetStep(t) \/ IPutStep(t) \/ IAllocStep(t) \/ SessionStep(t) \/ UpdateStep(t)

LEMMA CountIsFunction ==
  ASSUME TypeOK, NEW t \in Thread, Call(t), Steps(t)
  PROVE  count' \in [Entry -> Int]
<1>0. /\ count \in [Entry -> Int] /\ (pc[t] \in {"wait", "fill", "dec"} => ent[t] \in Entry)
  BY Consts DEF TypeOK, Call, OnEntry, InPut
<1>1. CASE IGetStep(t)
  BY <1>0, <1>1 DEF IGetStep, GetLoaded, GetLock, GetUnloaded, GetFree, GetName,
                    GetFill, GetNone, GetNoVictim, Goto, tableVars
<1>2. CASE IPutStep(t)
  BY <1>0, <1>2 DEF IPutStep, PutLast, PutWrite, PutRelease, PutClear, PutShared, PutDec, tableVars
<1>3. CASE IAllocStep(t)
  BY <1>0, <1>3 DEF IAllocStep, IAllocScan, IAllocNone, IAllocPop, IAllocBelow, IAllocTaken,
                    MakNode, WriteDir, WriteDirFull, tableVars
<1>4. CASE SessionStep(t)
  BY <1>0, <1>4 DEF SessionStep, NameI, Walk, NewName, Victim, UnLink, Open1, Open1Fails, GiveUp,
                    ChDir, ChDirEnd, Close, Rdwr, RdwrLock, RdwrEnd, tableVars
<1>5. CASE UpdateStep(t)
  BY <1>0, <1>5 DEF UpdateStep, Update, UpdateSkip, UpdateTake, UpdateSync, UpdateEnd, tableVars
<1> QED
  BY <1>1, <1>2, <1>3, <1>4, <1>5 DEF Steps

LEMMA StepFacts ==
  ASSUME TypeOK, NEW t \in Thread, Call(t), Starting(t), Steps(t)
  PROVE  TypeButCount' /\ OthersStay(t) /\ Call(t)' /\ Moves(t)
<1>1. TypeButCount' /\ OthersStay(t)
  BY IGetTypes, IPutTypes, IAllocTypes, SessionTypes, UpdateTypes DEF Steps
<1>2. Call(t)'
  BY IGetCalls, IPutCalls, IAllocCalls, SessionCalls, UpdateCalls DEF Steps
<1>3. Moves(t)
  BY <1>1, IGetMoves, IPutMoves, IAllocMoves, SessionMoves, UpdateMoves DEF Steps
<1> QED
  BY <1>1, <1>2, <1>3

RefersTo(x) == [t \in Thread |-> References(t, x)]

\* Exact counts stay exact, and so never fall below zero.
LEMMA MovesKeepCounts ==
  ASSUME TableOK, NEW t \in Thread, TypeButCount', OthersStay(t), Moves(t), count' \in [Entry -> Int]
  PROVE  TypeOK' /\ CountsExact'
<1>0. TypeOK /\ CountsExact /\ TypeButCount
  BY DEF TableOK, TableInv, TypeOK, TypeButCount
<1>1. ASSUME NEW x \in Entry
      PROVE  count'[x] \in Nat /\ count'[x] = SumOf(RefersTo(x)') + One(x = 0) + left'[x]
  <2>1. RefersTo(x) \in [Thread -> 0 .. MaxOpen + 3]
    BY <1>0, ReferencesAre DEF RefersTo
  <2>2. \A u \in Thread : References(u, x)' \in 0 .. MaxOpen + 3
    <3> TAKE u \in Thread
    <3>1. open'[u][x] \in 0 .. MaxOpen
      BY DEF TypeButCount
    <3>2. References(u, x)' = open'[u][x] + One(cdir'[u] = x)
            + One(ent'[u] = x /\ pc'[u] \in {"held", "writedir"} \cup InPut)
            + One(kept'[u] = x /\ then'[u] # "chdir")
      BY DEF References, One
    <3>3. \A P \in BOOLEAN : One(P) \in {0, 1}
      BY DEF One
    <3> QED
      BY <3>1, <3>2, <3>3, Consts DEF One
  <2>3. RefersTo(x)' = [u \in Thread |-> References(u, x)']
    BY DEF RefersTo
  <2>4. RefersTo(x)' \in [Thread -> 0 .. MaxOpen + 3]
    BY <2>2, <2>3
  <2>5. \A u \in Thread \ {t} : RefersTo(x)'[u] = RefersTo(x)[u]
    BY <2>3 DEF RefersTo, References, OthersStay
  <2>6. /\ SumOf(RefersTo(x)) \in Nat /\ MaxOpen + 3 \in Nat
        /\ SumOf(RefersTo(x)') = SumOf(RefersTo(x)) - RefersTo(x)[t] + RefersTo(x)'[t]
    <3>1. MaxOpen + 3 \in Nat /\ IsFiniteSet(Thread)
      BY Consts, InodeAssumption
    <3> HIDE DEF RefersTo
    <3> QED
      BY <3>1, <2>1, <2>4, <2>5, SumMoves
  <2>7. SumOf(RefersTo(x)') \in Nat
    BY <2>4, <2>6, SumMoves, InodeAssumption
  <2>8. RefersTo(x)[t] = References(t, x) /\ RefersTo(x)'[t] = References(t, x)'
    BY <2>3 DEF RefersTo
  <2>9. count[x] = SumOf(RefersTo(x)) + One(x = 0) + left[x]
    BY <1>0 DEF CountsExact, RefersTo
  <2>10. count'[x] - left'[x] - References(t, x)' = count[x] - left[x] - References(t, x)
    BY DEF Moves
  <2>11. /\ References(t, x) \in Nat /\ References(t, x)' \in Nat
         /\ left[x] \in Nat /\ left'[x] \in Nat /\ count[x] \in Nat /\ count'[x] \in Int
         /\ One(x = 0) \in Nat
    BY <1>0, <2>1, <2>2, <2>8 DEF TypeOK, TypeButCount, One
  <2> HIDE DEF References, RefersTo, SumOf, One
  <2>12. count'[x] = SumOf(RefersTo(x)') + One(x = 0) + left'[x]
    BY <2>6, <2>8, <2>9, <2>10, <2>11
  <2> QED
    BY <2>7, <2>11, <2>12
<1>2. count' \in [Entry -> Nat]
  BY <1>1
<1>3. TypeOK'
  BY <1>2 DEF TypeOK, TypeButCount
<1>4. CountsExact'
  BY <1>1 DEF CountsExact, RefersTo
<1> QED
  BY <1>3, <1>4

LEMMA TableInit == Init => TableOK
<1> SUFFICES ASSUME Init PROVE TableOK
  OBVIOUS
<1>1. TypeOK
  <2>1. 1 + Cardinality(Thread) \in Nat
    BY InodeAssumption, FS_CardinalityType
  <2>2. count \in [Entry -> Nat]
    BY <2>1 DEF Init
  <2>3. sInode \in Seq(Ino) /\ dir \in [Dir -> [Slot -> Ino]]
    BY InodeAssumption DEF Init
  <2>4. /\ number \in [Entry -> Ino \cup {-1}] /\ node \in [Entry -> State]
        /\ dinode \in [Ino -> State] /\ mutex \in [Entry -> Thread \cup {NoOne}]
        /\ upd \in [Entry -> BOOLEAN] /\ ilock \in [Entry -> BOOLEAN]
    BY Consts DEF Init, State
  <2>5. /\ pc \in [Thread -> Pc]
        /\ goal \in [Thread -> Begins \cup {"search", "file", "alloc", "victim"}]
        /\ then \in [Thread -> {"idle", "get", "pop", "file", "put", "chdir"}]
        /\ want \in [Thread -> Ino] /\ ent \in [Thread -> 0 .. NINODE]
        /\ kept \in [Thread -> Entry \cup {NoOne}]
        /\ slot \in [Thread -> Slot] /\ cdir \in [Thread -> Entry]
        /\ wrecked \in BOOLEAN /\ nameless \subseteq Ino
    BY Consts DEF Init, Pc
  <2>6. /\ open \in [Thread -> [Entry -> 0 .. MaxOpen]]
        /\ left \in [Entry -> Nat]
    BY Consts DEF Init
  <2> QED
    BY <2>2, <2>3, <2>4, <2>5, <2>6 DEF TypeOK
<1>2. \A t \in Thread : Call(t)
  BY Consts DEF Init, Call, OnEntry, InPut, InGet
<1>3. ASSUME NEW x \in Entry
      PROVE  count[x] = SumOf(RefersTo(x)) + One(x = 0) + left[x]
  <2>1. RefersTo(x) = [t \in Thread |-> IF x = 0 THEN 1 ELSE 0]
    <3>1. ASSUME NEW t \in Thread PROVE References(t, x) = IF x = 0 THEN 1 ELSE 0
      BY Consts DEF Init, References, One, InPut
    <3> QED
      BY <3>1 DEF RefersTo
  <2>2. SumOf(RefersTo(x)) = IF x = 0 THEN Cardinality(Thread) ELSE 0
    <3>1. CASE x = 0
      <4>1. UNION {{t} \X (1 .. RefersTo(x)[t]) : t \in DOMAIN RefersTo(x)} = Thread \X {1}
        <5>1. RefersTo(x) = [t \in Thread |-> 1]
          BY <2>1, <3>1
        <5>2. 1 .. 1 = {1}
          OBVIOUS
        <5> QED
          BY <5>1, <5>2
      <4>2. IsFiniteSet({1}) /\ Cardinality({1}) = 1
        BY FS_Singleton
      <4>3. IsFiniteSet(Thread) /\ Cardinality(Thread) \in Nat
        BY InodeAssumption, FS_CardinalityType
      <4>4. Cardinality(Thread \X {1}) = Cardinality(Thread) * Cardinality({1})
        BY <4>2, <4>3, FS_Product
      <4>5. Cardinality(Thread \X {1}) = Cardinality(Thread)
        BY <4>2, <4>3, <4>4
      <4> QED
        BY <3>1, <4>1, <4>5 DEF SumOf
    <3>2. CASE x # 0
      <4>1. RefersTo(x) = [t \in Thread |-> 0] /\ 1 .. 0 = {}
        BY <2>1, <3>2
      <4>2. UNION {{t} \X (1 .. RefersTo(x)[t]) : t \in DOMAIN RefersTo(x)} = {}
        BY <4>1
      <4> QED
        BY <3>2, <4>2, FS_EmptySet DEF SumOf
    <3> QED
      BY <3>1, <3>2
  <2>3. Cardinality(Thread) \in Nat
    BY InodeAssumption, FS_CardinalityType
  <2> HIDE DEF SumOf
  <2> QED
    BY <2>2, <2>3, Consts DEF Init, One
<1> QED
  BY <1>1, <1>2, <1>3 DEF TableOK, TableInv, CountsExact, RefersTo

LEMMA TableNext ==
  ASSUME NEW s, Thread = {s}, TableOK, Starting(s), [Next]_vars
  PROVE  TableOK'
<1>0. TypeOK /\ CountsExact /\ s \in Thread /\ Call(s)
  BY DEF TableOK, TableInv
<1>1. ASSUME Steps(s) PROVE TableOK'
  <2>1. TypeButCount' /\ OthersStay(s) /\ Call(s)' /\ Moves(s)
    BY <1>0, <1>1, StepFacts
  <2>2. TypeOK' /\ CountsExact'
    BY <1>0, <1>1, <2>1, CountIsFunction, MovesKeepCounts
  <2> QED
    BY <2>1, <2>2 DEF TableOK, TableInv
<1>2. CASE UNCHANGED vars
  <2>1. Call(s)'
    BY <1>0, <1>2 DEF vars, tableVars, ctlVars, Call
  <2>2. TypeOK' /\ CountsExact'
    BY <1>0, <1>2 DEF vars, tableVars, diskVars, ctlVars, userVars, TypeOK, CountsExact, References
  <2> QED
    BY <2>1, <2>2 DEF TableOK, TableInv
<1> QED
  BY <1>1, <1>2 DEF Next, Steps

-----------------------------------------------------------------------------
(***************************************************************************)
(* A session alone.  What it refers to is in use, and what only IPut's     *)
(* caller refers to has no other reference.                                *)
(***************************************************************************)
Alone(s) == Thread = {s}

\* Where the call has a reference of its own
Refers == {"held", "writedir"} \cup InPut

Uses(s) ==
  /\ \A x \in Entry : count[x] = 0 =>
       /\ x # 0 /\ left[x] = 0 /\ open[s][x] = 0 /\ cdir[s] # x
       /\ ~(ent[s] = x /\ pc[s] \in Refers)
       /\ ~(kept[s] = x /\ then[s] # "chdir")
  /\ pc[s] \in Refers /\ count[ent[s]] = 1 =>
       /\ ent[s] # 0 /\ left[ent[s]] = 0 /\ open[s][ent[s]] = 0 /\ cdir[s] # ent[s]
       /\ ~(kept[s] = ent[s] /\ then[s] # "chdir")

LEMMA UsesHold == ASSUME NEW s, Alone(s), TableOK PROVE Uses(s)
<1>0. TypeOK /\ CountsExact /\ TypeButCount /\ Call(s) /\ s \in Thread
  BY DEF TableOK, TableInv, TypeOK, TypeButCount, Alone
<1>1. ASSUME NEW x \in Entry
      PROVE  /\ count[x] = References(s, x) + One(x = 0) + left[x]
             /\ References(s, x) = open[s][x] + One(cdir[s] = x) + CallRefers(s, x) + AsideRefers(s, x)
             /\ open[s][x] \in Nat /\ left[x] \in Nat /\ count[x] \in Nat
  <2>1. RefersTo(x) \in [Thread -> 0 .. MaxOpen + 3]
    BY <1>0, ReferencesAre DEF RefersTo
  <2>2. MaxOpen + 3 \in Nat /\ IsFiniteSet(Thread) /\ Thread = {s}
    BY Consts, InodeAssumption DEF Alone
  <2>3. RefersTo(x)[s] = References(s, x)
    BY <1>0 DEF RefersTo
  <2>4. SumOf(RefersTo(x)) = References(s, x)
    <3> HIDE DEF RefersTo
    <3> QED
      BY <2>1, <2>2, <2>3, SumBounds, <1>0
  <2>5. count[x] = SumOf(RefersTo(x)) + One(x = 0) + left[x]
    BY <1>0 DEF CountsExact, RefersTo
  <2>6. References(s, x) = open[s][x] + One(cdir[s] = x) + CallRefers(s, x) + AsideRefers(s, x)
    BY <1>0, RefersIn
  <2>7. open[s][x] \in Nat /\ left[x] \in Nat /\ count[x] \in Nat
    BY <1>0, Consts DEF TypeOK
  <2> QED
    BY <2>4, <2>5, <2>6, <2>7
<1>2. \A x \in Entry :
        /\ CallRefers(s, x) = IF ent[s] = x /\ pc[s] \in Refers THEN 1 ELSE 0
        /\ AsideRefers(s, x) = IF kept[s] = x /\ then[s] # "chdir" THEN 1 ELSE 0
        /\ One(cdir[s] = x) = (IF cdir[s] = x THEN 1 ELSE 0)
        /\ One(x = 0) = (IF x = 0 THEN 1 ELSE 0)
  BY DEF CallRefers, AsideRefers, One, Refers
<1>3. pc[s] \in Refers => ent[s] \in Entry
  BY <1>0 DEF Call, Refers, OnEntry
<1> HIDE DEF References, CallRefers, AsideRefers, One, TypeOK, Call, Refers
<1>4. ASSUME NEW x \in Entry
      PROVE  /\ count[x] = 0 =>
                  /\ x # 0 /\ left[x] = 0 /\ open[s][x] = 0 /\ cdir[s] # x
                  /\ ~(ent[s] = x /\ pc[s] \in Refers)
                  /\ ~(kept[s] = x /\ then[s] # "chdir")
             /\ pc[s] \in Refers /\ ent[s] = x /\ count[x] = 1 =>
                  /\ x # 0 /\ left[x] = 0 /\ open[s][x] = 0 /\ cdir[s] # x
                  /\ ~(kept[s] = x /\ then[s] # "chdir")
  BY <1>1, <1>2
<1> QED
  BY <1>3, <1>4 DEF Uses

-----------------------------------------------------------------------------
(***************************************************************************)
(* The copies in the table.                                                *)
(***************************************************************************)
\* IPut has forgotten the inode of x, and is about to give the entry back.
Cleared(s, x) == pc[s] = "dec" /\ ent[s] = x /\ count[x] = 1

\* An entry that is in use has an inode, its own, unless IPut is done with it; one
\* that is not has none, unless IGet is filling it.
Copies(s) ==
  /\ number[0] = 0
  /\ \A x \in Entry : count[x] # 0 => number[x] \in Ino \/ Cleared(s, x)
  /\ \A x \in Entry : Cleared(s, x) => number[x] = -1
  /\ \A x \in Entry : count[x] = 0 /\ ~(pc[s] = "fill" /\ ent[s] = x) => number[x] = -1
  /\ \A x, y \in Entry : number[x] = number[y] /\ number[x] # -1 => x = y
  /\ pc[s] \in {"last", "release", "clear"} => count[ent[s]] = 1
  /\ Starting(s)
  /\ pc[s] \in {"find", "name"} => Loaded(want[s]) = {}
  /\ pc[s] \in {"name", "fill"} => count[ent[s]] = 0
  /\ pc[s] = "wait" => count[ent[s]] # 0
  /\ pc[s] \in {"wait", "fill", "held", "writedir"} => number[ent[s]] = want[s]
  /\ pc[s] \in InPut /\ then[s] \in {"file", "put"} => number[kept[s]] = want[s]

LEMMA IGetCopies ==
  ASSUME NEW s \in Thread, TypeOK, TypeOK', Call(s), Uses(s), Copies(s), IGetStep(s)
  PROVE  Copies(s)'
<1> USE Consts DEF TypeOK, Call, OnEntry, InPut, InGet, Refers, Goto, Go, Done, Lock, tableVars,
                   ctlVars, userVars, Uses, Copies, Cleared
<1>1. CASE GetLoaded(s)
  <2>1. Loaded(want[s]) \in SUBSET Nat /\ Loaded(want[s]) # {}
    BY <1>1 DEF Loaded, GetLoaded
  <2>2. Lowest(Loaded(want[s])) \in Loaded(want[s])
    BY <2>1, LowestIs
  <2>3. /\ ent'[s] \in Entry /\ count[ent'[s]] # 0 /\ number[ent'[s]] = want[s]
        /\ pc[s] = "get" /\ pc'[s] = "wait" /\ want' = want /\ number' = number /\ count' = count
        /\ goal' = goal /\ cdir' = cdir /\ want[s] # -1
    BY <1>1, <2>2 DEF GetLoaded, Loaded
  <2>4. Begin(s)' = Begin(s) /\ (goal[s] \in Begins => Begin(s) \in Entry)
    BY <2>3 DEF Begin
  <2>5. goal[s] \in Begins => ent'[s] = Begin(s)
    <3> HIDE DEF TypeOK, Call, Uses
    <3> QED
      BY <2>3, <2>4 DEF Starting
  <2>6. Starting(s)'
    BY <2>3, <2>4, <2>5 DEF Starting
  <2> HIDE DEF TypeOK, Call, Uses
  <2> QED
    BY <2>3, <2>6
<1>2. CASE GetLock(s)
  <2>0. ent' = ent /\ goal'[s] \notin Begins
    <3>1. Starting(s) /\ Return(s) /\ pc[s] \in {"wait", "fill"}
      BY <1>2 DEF GetLock
    <3> HIDE DEF TypeOK, Copies, Uses, Call
    <3> QED
      BY <3>1, ReturnKeeps
  <2>1. /\ ent[s] \in Entry /\ count[ent[s]] # 0 /\ count \in [Entry -> Nat]
        /\ pc[s] = "wait" /\ pc'[s] = "held" /\ want' = want /\ number' = number /\ ent' = ent
        /\ count' = [count EXCEPT ![ent[s]] = @ + 1]
        /\ goal'[s] \notin Begins
    BY <1>2, <2>0 DEF GetLock
  <2>2. \A x \in Entry : count'[x] = IF x = ent[s] THEN count[x] + 1 ELSE count[x]
    BY <2>1
  <2> HIDE DEF TypeOK, Call, Uses
  <2>3. \A x \in Entry : count'[x] = 0 <=> count[x] = 0
    BY <2>1, <2>2
  <2>4. Starting(s)'
    BY <2>1 DEF Starting
  <2> QED
    BY <2>1, <2>3, <2>4
<1>3. CASE GetName(s)
  <2> DEFINE e == ent[s]
  <2>1. /\ e \in Entry /\ count[e] = 0 /\ e # 0 /\ number[e] = -1 /\ want[s] \in Ino
        /\ pc[s] = "name" /\ pc'[s] = "fill" /\ want' = want /\ count' = count /\ ent' = ent
        /\ number' = [number EXCEPT ![e] = want[s]] /\ number \in [Entry -> Ino \cup {-1}]
        /\ want[s] # -1 /\ Loaded(want[s]) = {} /\ goal' = goal
    BY <1>3 DEF GetName
  <2>2. \A y \in Entry : number[y] # want[s]
    BY <2>1 DEF Loaded
  <2>3. Starting(s)'
    BY <2>1 DEF Starting
  <2> HIDE DEF TypeOK, Call, Uses, e
  <2>4. \A y \in Entry : number'[y] = IF y = e THEN want[s] ELSE number[y]
    BY <2>1
  <2> QED
    BY <2>1, <2>2, <2>3, <2>4 DEF e
<1>4. CASE GetFill(s)
  <2>0. ent' = ent /\ goal'[s] \notin Begins
    <3>1. Starting(s) /\ Return(s) /\ pc[s] \in {"wait", "fill"}
      BY <1>4 DEF GetFill
    <3> HIDE DEF TypeOK, Copies, Uses, Call
    <3> QED
      BY <3>1, ReturnKeeps
  <2>1. /\ ent[s] \in Entry /\ count[ent[s]] = 0 /\ count \in [Entry -> Nat]
        /\ pc[s] = "fill" /\ pc'[s] = "held" /\ want' = want /\ number' = number /\ ent' = ent
        /\ count' = [count EXCEPT ![ent[s]] = @ + 1]
        /\ goal'[s] \notin Begins /\ number[ent[s]] = want[s] /\ want[s] \in Ino
    BY <1>4, <2>0 DEF GetFill
  <2>2. \A x \in Entry : count'[x] = IF x = ent[s] THEN 1 ELSE count[x]
    BY <2>1
  <2>3. Starting(s)'
    BY <2>1 DEF Starting
  <2> HIDE DEF TypeOK, Call, Uses
  <2> QED
    BY <2>1, <2>2, <2>3
<1>5. CASE GetNone(s)
  <2>1. goal[s] \notin Begins
    BY <1>5 DEF GetNone, TableFull, Starting
  <2> QED
    BY <1>5, <2>1 DEF GetNone, TableFull, Starting, Begins
<1>6. CASE GetNoVictim(s)
  BY <1>6 DEF GetNoVictim, TableFull, Starting, Begin, Begins, Loaded
<1>7. CASE GetUnloaded(s)
  <2>1. goal[s] \notin Begins
    <3>1. goal[s] \in Begins => Begin(s) \in Entry /\ count[Begin(s)] # 0
      BY DEF Begin
    <3> QED
      BY <1>7, <3>1 DEF GetUnloaded, Starting, Loaded
  <2>2. Starting(s)'
    BY <1>7, <2>1 DEF GetUnloaded, Starting
  <2>3. /\ pc[s] = "get" /\ pc'[s] = "find" /\ Loaded(want[s]) = {}
        /\ UNCHANGED <<number, count, want>>
    BY <1>7 DEF GetUnloaded
  <2>4. Loaded(want[s])' = {}
    BY <2>3 DEF Loaded
  <2> HIDE DEF TypeOK, Call, Uses
  <2> QED
    BY <2>2, <2>3, <2>4
<1>8. CASE GetFree(s)
  <2>1. FreeEntries \in SUBSET Nat /\ FreeEntries # {}
    BY <1>8 DEF FreeEntries, GetFree
  <2>2. Lowest(FreeEntries) \in FreeEntries
    BY <2>1, LowestIs
  <2>3. /\ ent'[s] \in Entry /\ count[ent'[s]] = 0 /\ goal' = goal /\ Loaded(want[s]) = {}
        /\ pc[s] = "find" /\ pc'[s] = "name" /\ want' = want /\ number' = number /\ count' = count
    BY <1>8, <2>2 DEF GetFree, FreeEntries
  <2>4. Loaded(want[s])' = {}
    BY <2>3 DEF Loaded
  <2>5. Starting(s)'
    BY <2>3 DEF Starting
  <2> HIDE DEF TypeOK, Call, Uses
  <2> QED
    BY <2>3, <2>4, <2>5
<1> QED
  BY <1>1, <1>2, <1>3, <1>4, <1>5, <1>6, <1>7, <1>8 DEF IGetStep

LEMMA IPutCopies ==
  ASSUME NEW s \in Thread, TypeOK, TypeOK', Call(s), Uses(s), Copies(s), IPutStep(s)
  PROVE  Copies(s)'
<1> USE Consts DEF Starting, Begins, TypeOK, Call, OnEntry, InPut, InGet, Refers, Goto, Go, Done, NFrele, tableVars,
                   ctlVars, Uses, Copies, Cleared
<1>1. CASE PutLast(s)
  BY <1>1 DEF PutLast
<1>2. CASE PutWrite(s)
  BY <1>2 DEF PutWrite
<1>3. CASE PutRelease(s)
  BY <1>3 DEF PutRelease
<1>4. CASE PutClear(s)
  <2>1. /\ ent[s] \in Entry /\ ent[s] # 0 /\ count[ent[s]] = 1
        /\ pc[s] = "clear" /\ pc'[s] = "dec" /\ count' = count /\ ent' = ent
        /\ want' = want /\ kept' = kept /\ then' = then
        /\ number' = [number EXCEPT ![ent[s]] = -1] /\ number \in [Entry -> Ino \cup {-1}]
        /\ then[s] # "chdir" => kept[s] # ent[s]
        /\ goal' = goal /\ goal[s] \notin Begins
        /\ then[s] \in {"file", "put"} => kept[s] \in Entry
    BY <1>4 DEF PutClear
  <2>2. \A y \in Entry : number'[y] = IF y = ent[s] THEN -1 ELSE number[y]
    BY <2>1
  <2>3. Starting(s)'
    BY <2>1
  <2> HIDE DEF TypeOK, Call, Uses, Starting
  <2> QED
    BY <2>1, <2>2, <2>3
<1>5. CASE PutShared(s)
  BY <1>5 DEF PutShared
<1>6. CASE PutDec(s)
  <2>1. /\ ent[s] \in Entry /\ count[ent[s]] \in Nat \ {0} /\ pc[s] = "dec" /\ number' = number
        /\ count' = [count EXCEPT ![ent[s]] = @ - 1] /\ count \in [Entry -> Nat]
        /\ number \in [Entry -> Ino \cup {-1}]
    BY <1>6 DEF PutDec
  <2>0. goal[s] \notin Begins
    BY <2>1
  <2>2. \A x \in Entry : count'[x] = IF x = ent[s] THEN count[x] - 1 ELSE count[x]
    BY <2>1
  <2>3. /\ pc'[s] \in {"idle", "get", "pop", "held", "put", "chdir"}
        /\ pc'[s] = "held" => ent'[s] = kept[s] /\ want' = want /\ then[s] = "file"
        /\ pc'[s] = "put" => then'[s] = "idle"
        /\ goal'[s] \notin Begins
    <3> HIDE DEF Uses, Copies, Call
    <3>1. CASE then[s] = "idle"
      BY <1>6, <2>0, <3>1 DEF PutDec
    <3>2. CASE then[s] \in {"get", "pop"}
      BY <1>6, <2>0, <3>2 DEF PutDec
    <3>3. CASE then[s] \in {"file", "put", "chdir"}
      <4>1. goal'[s] = IF then[s] = "file" THEN "file" ELSE goal[s]
        BY <1>6, <3>3 DEF PutDec
      <4> QED
        BY <1>6, <2>0, <3>3, <4>1 DEF PutDec
    <3> QED
      BY <3>1, <3>2, <3>3
  <2> HIDE DEF TypeOK, Call, Uses
  <2>4. \A x \in Entry : count'[x] # 0 => number[x] \in Ino
    BY <2>1, <2>2
  <2>5. \A x \in Entry : count'[x] = 0 => number[x] = -1
    BY <2>1, <2>2
  <2> QED
    BY <2>1, <2>3, <2>4, <2>5
<1> QED
  BY <1>1, <1>2, <1>3, <1>4, <1>5, <1>6 DEF IPutStep

LEMMA IAllocCopies ==
  ASSUME NEW s \in Thread, TypeOK, TypeOK', Call(s), Uses(s), Copies(s), IAllocStep(s)
  PROVE  Copies(s)'
<1> USE Consts DEF Starting, Begins, TypeOK, Call, OnEntry, InPut, InGet, Refers, Goto, Go, Done, Take, IPut, NFrele,
                   tableVars, ctlVars, Uses, Copies, Cleared
<1>1. CASE IAllocScan(s)
  BY <1>1 DEF IAllocScan
<1>2. CASE IAllocNone(s)
  BY <1>2 DEF IAllocNone
<1>3. CASE IAllocPop(s)
  BY <1>3 DEF IAllocPop
<1>4. CASE IAllocBelow(s)
  BY <1>4 DEF IAllocBelow
<1>5. CASE IAllocTaken(s)
  BY <1>5 DEF IAllocTaken
<1>6. CASE MakNode(s)
  BY <1>6 DEF MakNode
<1>7. CASE WriteDir(s)
  BY <1>7 DEF WriteDir
<1>8. CASE WriteDirFull(s)
  BY <1>8 DEF WriteDirFull
<1> QED
  BY <1>1, <1>2, <1>3, <1>4, <1>5, <1>6, <1>7, <1>8 DEF IAllocStep

LEMMA SessionCopies ==
  ASSUME NEW s \in Thread, TypeOK, TypeOK', Call(s), Uses(s), Copies(s), SessionStep(s)
  PROVE  Copies(s)'
<1> USE Consts DEF Starting, Begins, TypeOK, Call, OnEntry, InPut, InGet, Refers, Goto, Go, Done, Take, IPut, Lock,
                   NFrele, tableVars, ctlVars, userVars, Uses, Copies, Cleared
<1>1. CASE NameI(s)
  BY <1>1 DEF NameI, Begin
<1>2. CASE Walk(s)
  BY <1>2 DEF Walk, Searching
<1>3. CASE NewName(s)
  BY <1>3 DEF NewName, Searching
<1>4. CASE Victim(s)
  BY <1>4 DEF Victim, Searching
<1>5. CASE UnLink(s)
  BY <1>5 DEF UnLink
<1>6. CASE Open1(s)
  BY <1>6 DEF Open1, Found
<1>7. CASE Open1Fails(s)
  BY <1>7 DEF Open1Fails, Found
<1>8. CASE GiveUp(s)
  BY <1>8 DEF GiveUp, Found
<1>9. CASE ChDir(s)
  BY <1>9 DEF ChDir, Found
<1>10. CASE ChDirEnd(s)
  BY <1>10 DEF ChDirEnd
<1>11. CASE Close(s)
  BY <1>11 DEF Close
<1>12. CASE Rdwr(s)
  BY <1>12 DEF Rdwr
<1>13. CASE RdwrLock(s)
  BY <1>13 DEF RdwrLock
<1>14. CASE RdwrEnd(s)
  BY <1>14 DEF RdwrEnd
<1> QED
  BY <1>1, <1>2, <1>3, <1>4, <1>5, <1>6, <1>7, <1>8, <1>9, <1>10, <1>11, <1>12, <1>13, <1>14
     DEF SessionStep

LEMMA UpdateCopies ==
  ASSUME NEW s \in Thread, TypeOK, TypeOK', Call(s), Uses(s), Copies(s), UpdateStep(s)
  PROVE  Copies(s)'
<1> USE Consts DEF Starting, Begins, TypeOK, Call, OnEntry, InPut, InGet, Refers, Goto, Go, Done, Take, IPut, Lock,
                   NFrele, tableVars, ctlVars, userVars, Uses, Copies, Cleared
<1>1. CASE Update(s)
  BY <1>1 DEF Update
<1>2. CASE UpdateSkip(s)
  BY <1>2 DEF UpdateSkip
<1>3. CASE UpdateTake(s)
  BY <1>3 DEF UpdateTake
<1>4. CASE UpdateSync(s)
  BY <1>4 DEF UpdateSync
<1>5. CASE UpdateEnd(s)
  BY <1>5 DEF UpdateEnd
<1> QED
  BY <1>1, <1>2, <1>3, <1>4, <1>5 DEF UpdateStep
\* Only the session's step is a step.
LEMMA OnlyStep ==
  ASSUME NEW s, Alone(s), [Next]_vars
  PROVE  s \in Thread /\ (Steps(s) \/ UNCHANGED vars)
BY DEF Alone, Next, Steps

LEMMA CopiesInit == ASSUME NEW s, Alone(s), Init PROVE Copies(s)
<1>1. s \in Thread
  BY DEF Alone
<1>2. \A x \in Entry : number[x] = IF x = 0 THEN 0 ELSE -1
  BY DEF Init
<1>3. 0 \in Ino /\ count[0] # 0 /\ \A x \in Entry : x # 0 => count[x] = 0
  <2>1. Cardinality(Thread) \in Nat
    BY InodeAssumption, FS_CardinalityType
  <2> QED
    BY <2>1, Consts DEF Init
<1>4. pc[s] = "idle" /\ goal[s] = "file"
  BY <1>1 DEF Init
<1> QED
  BY <1>2, <1>3, <1>4, Consts DEF Copies, Cleared, InPut, Starting, Begins

LEMMA CopiesNext ==
  ASSUME NEW s, Alone(s), TableOK, TableOK', Uses(s), Copies(s), [Next]_vars
  PROVE  Copies(s)'
<1>1. s \in Thread /\ TypeOK /\ TypeOK' /\ Call(s) /\ (Steps(s) \/ UNCHANGED vars)
  BY OnlyStep DEF TableOK, TableInv, Alone
<1>2. CASE Steps(s)
  BY <1>1, <1>2, IGetCopies, IPutCopies, IAllocCopies, SessionCopies, UpdateCopies DEF Steps
<1>3. CASE UNCHANGED vars
  BY <1>3 DEF vars, tableVars, ctlVars, userVars, Copies, Cleared, Starting, Begin, Loaded
<1> QED
  BY <1>1, <1>2, <1>3

LEMMA CopiesHold ==
  ASSUME NEW s, Alone(s)
  PROVE  Spec => [](TableOK /\ Uses(s) /\ Copies(s))
<1>1. TableOK => Uses(s)
  BY UsesHold
<1>2. Init => Copies(s)
  BY CopiesInit
<1>3. TableOK /\ TableOK' /\ Uses(s) /\ Copies(s) /\ [Next]_vars => Copies(s)'
  BY CopiesNext
<1>4. TableOK /\ Copies(s) /\ [Next]_vars => TableOK'
  BY TableNext DEF Alone, Copies
<1> QED
  BY <1>1, <1>2, <1>3, <1>4, TableInit, PTL DEF Spec

\* With one session i_count is exact: every path of the file calls gives back
\* each reference once.
THEOREM TableInvHolds ==
  ASSUME Cardinality(Thread) = 1
  PROVE  Spec => []TableInv
<1>1. PICK s : Alone(s)
  BY InodeAssumption, FS_Singleton DEF Alone
<1>2. Spec => [](TableOK /\ Uses(s) /\ Copies(s))
  BY <1>1, CopiesHold
<1>3. TableOK => TableInv
  BY DEF TableOK
<1> QED
  BY <1>2, <1>3, PTL

LEMMA AtMostOne ==
  ASSUME NEW S, \A x, y \in S : x = y
  PROVE  Cardinality(S) <= 1
<1>1. CASE S = {}
  BY <1>1, FS_EmptySet
<1>2. CASE S # {}
  <2>1. PICK x \in S : TRUE
    BY <1>2
  <2>2. S = {x}
    BY <2>1
  <2> QED
    BY <2>2, FS_Singleton
<1> QED
  BY <1>1, <1>2

LEMMA CopiesOne == ASSUME NEW s, Alone(s), TypeOK, Copies(s) PROVE OneCopy
<1>1. \A n \in Ino : Cardinality(Loaded(n)) <= 1
  <2> TAKE n \in Ino
  <2>1. \A x, y \in Loaded(n) : x = y
    BY Consts DEF Loaded, Copies
  <2> QED
    BY <2>1, AtMostOne
<1> QED
  BY <1>1 DEF OneCopy, Copies, Alone

\* With one session, an inode has one copy in memory: the entry that IPut forgets
\* before it gives it back, and the one that IGet names before it fills it, are
\* never taken for another inode's.
THEOREM OneCopyHolds ==
  ASSUME Cardinality(Thread) = 1
  PROVE  Spec => []OneCopy
<1>1. PICK s : Alone(s)
  BY InodeAssumption, FS_Singleton DEF Alone
<1>2. TableOK /\ Copies(s) => OneCopy
  BY <1>1, CopiesOne DEF TableOK, TableInv
<1>3. Spec => [](TableOK /\ Uses(s) /\ Copies(s))
  BY <1>1, CopiesHold
<1> QED
  BY <1>2, <1>3, PTL

-----------------------------------------------------------------------------
(***************************************************************************)
(* What is in memory and what is on the disk.                              *)
(***************************************************************************)
\* An inode in memory without IUPD or IACC is as on the disk; so is one that IPut
\* has written.
Saved(s) ==
  /\ \A x \in Entry :
       count[x] # 0 /\ number[x] \in Ino /\ ~ upd[x] => dinode[number[x]] = node[x]
  /\ pc[s] \in {"release", "clear"} => dinode[number[ent[s]]] = node[ent[s]]

LEMMA IGetSaved ==
  ASSUME NEW s \in Thread, TypeOK, TypeOK', Call(s), Uses(s), Copies(s), Saved(s), IGetStep(s)
  PROVE  Saved(s)'
<1> USE Consts DEF TypeOK, Call, OnEntry, InPut, InGet, Refers, Goto, Go, Done, Take, IPut, Lock,
                   NFrele, tableVars, diskVars, ctlVars, userVars, Uses, Copies, Cleared, Saved
<1>1. CASE GetLoaded(s)
  BY <1>1 DEF GetLoaded
<1>2. CASE GetLock(s)
  BY <1>2 DEF GetLock
<1>3. CASE GetName(s)
  <2> DEFINE e == ent[s]
  <2>1. /\ e \in Entry /\ count[e] = 0 /\ pc[s] = "name" /\ pc'[s] = "fill"
        /\ count' = count /\ node' = node /\ dinode' = dinode
        /\ number' = [number EXCEPT ![e] = want[s]] /\ upd' = [upd EXCEPT ![e] = FALSE]
    BY <1>3 DEF GetName
  <2> HIDE DEF Call, Uses, Copies, e
  <2> QED
    BY <2>1
<1>4. CASE GetFill(s)
  BY <1>4 DEF GetFill
<1>5. CASE GetNone(s)
  BY <1>5 DEF GetNone, TableFull
<1>6. CASE GetNoVictim(s)
  BY <1>6 DEF GetNoVictim, TableFull
<1>7. CASE GetUnloaded(s)
  BY <1>7 DEF GetUnloaded
<1>8. CASE GetFree(s)
  BY <1>8 DEF GetFree
<1> QED
  BY <1>1, <1>2, <1>3, <1>4, <1>5, <1>6, <1>7, <1>8 DEF IGetStep

LEMMA IPutSaved ==
  ASSUME NEW s \in Thread, TypeOK, TypeOK', Call(s), Uses(s), Copies(s), Saved(s), IPutStep(s)
  PROVE  Saved(s)'
<1> USE Consts DEF TypeOK, Call, OnEntry, InPut, InGet, Refers, Goto, Go, Done, Take, IPut, Lock,
                   NFrele, tableVars, diskVars, ctlVars, userVars, Uses, Copies, Cleared, Saved
<1>1. CASE PutLast(s)
  <2>1. /\ ent[s] \in Entry /\ pc'[s] = "last"
        /\ number' = number /\ count' = count /\ dinode' = dinode
    BY <1>1 DEF PutLast
  <2>2. \/ node' = node /\ upd' = upd
        \/ /\ upd' = [upd EXCEPT ![ent[s]] = TRUE]
           /\ node' = [node EXCEPT ![ent[s]] = Freed]
    BY <1>1 DEF PutLast
  <2> HIDE DEF Call, Uses, Copies
  <2> QED
    BY <2>1, <2>2
<1>2. CASE PutWrite(s)
  BY <1>2 DEF PutWrite, IUpdate
<1>3. CASE PutRelease(s)
  BY <1>3 DEF PutRelease
<1>4. CASE PutClear(s)
  BY <1>4 DEF PutClear
<1>5. CASE PutShared(s)
  BY <1>5 DEF PutShared
<1>6. CASE PutDec(s)
  BY <1>6 DEF PutDec
<1> QED
  BY <1>1, <1>2, <1>3, <1>4, <1>5, <1>6 DEF IPutStep

LEMMA IAllocSaved ==
  ASSUME NEW s \in Thread, TypeOK, TypeOK', Call(s), Uses(s), Copies(s), Saved(s), IAllocStep(s)
  PROVE  Saved(s)'
<1> USE Consts DEF TypeOK, Call, OnEntry, InPut, InGet, Refers, Goto, Go, Done, Take, IPut, Lock,
                   NFrele, tableVars, diskVars, ctlVars, userVars, Uses, Copies, Cleared, Saved
<1>1. CASE IAllocScan(s)
  BY <1>1 DEF IAllocScan
<1>2. CASE IAllocNone(s)
  BY <1>2 DEF IAllocNone
<1>3. CASE IAllocPop(s)
  BY <1>3 DEF IAllocPop
<1>4. CASE IAllocBelow(s)
  BY <1>4 DEF IAllocBelow
<1>5. CASE IAllocTaken(s)
  BY <1>5 DEF IAllocTaken
<1>6. CASE MakNode(s)
  BY <1>6 DEF MakNode
<1>7. CASE WriteDir(s)
  BY <1>7 DEF WriteDir
<1>8. CASE WriteDirFull(s)
  BY <1>8 DEF WriteDirFull
<1> QED
  BY <1>1, <1>2, <1>3, <1>4, <1>5, <1>6, <1>7, <1>8 DEF IAllocStep

LEMMA SessionSaved ==
  ASSUME NEW s \in Thread, TypeOK, TypeOK', Call(s), Uses(s), Copies(s), Saved(s), SessionStep(s)
  PROVE  Saved(s)'
<1> USE Consts DEF TypeOK, Call, OnEntry, InPut, InGet, Refers, Goto, Go, Done, Take, IPut, Lock,
                   NFrele, tableVars, diskVars, ctlVars, userVars, Uses, Copies, Cleared, Saved
<1>1. CASE NameI(s)
  BY <1>1 DEF NameI
<1>2. CASE Walk(s)
  BY <1>2 DEF Walk, Searching
<1>3. CASE NewName(s)
  BY <1>3 DEF NewName, Searching
<1>4. CASE Victim(s)
  BY <1>4 DEF Victim, Searching
<1>5. CASE UnLink(s)
  BY <1>5 DEF UnLink
<1>6. CASE Open1(s)
  BY <1>6 DEF Open1, Found, Truncated
<1>7. CASE Open1Fails(s)
  BY <1>7 DEF Open1Fails, Found, Truncated
<1>8. CASE GiveUp(s)
  BY <1>8 DEF GiveUp, Found
<1>9. CASE ChDir(s)
  BY <1>9 DEF ChDir, Found
<1>10. CASE ChDirEnd(s)
  BY <1>10 DEF ChDirEnd
<1>11. CASE Close(s)
  BY <1>11 DEF Close
<1>12. CASE Rdwr(s)
  BY <1>12 DEF Rdwr
<1>13. CASE RdwrLock(s)
  BY <1>13 DEF RdwrLock
<1>14. CASE RdwrEnd(s)
  BY <1>14 DEF RdwrEnd
<1> QED
  BY <1>1, <1>2, <1>3, <1>4, <1>5, <1>6, <1>7, <1>8, <1>9, <1>10, <1>11, <1>12, <1>13, <1>14 DEF SessionStep

LEMMA UpdateSaved ==
  ASSUME NEW s \in Thread, TypeOK, TypeOK', Call(s), Uses(s), Copies(s), Saved(s), UpdateStep(s)
  PROVE  Saved(s)'
<1> USE Consts DEF TypeOK, Call, OnEntry, InPut, InGet, Refers, Goto, Go, Done, Take, IPut, Lock,
                   NFrele, tableVars, diskVars, ctlVars, userVars, Uses, Copies, Cleared, Saved
<1>1. CASE Update(s)
  BY <1>1 DEF Update
<1>2. CASE UpdateSkip(s)
  BY <1>2 DEF UpdateSkip
<1>3. CASE UpdateTake(s)
  BY <1>3 DEF UpdateTake
<1>4. CASE UpdateSync(s)
  BY <1>4 DEF UpdateSync, IUpdate
<1>5. CASE UpdateEnd(s)
  BY <1>5 DEF UpdateEnd
<1> QED
  BY <1>1, <1>2, <1>3, <1>4, <1>5 DEF UpdateStep

LEMMA SavedNext ==
  ASSUME NEW s, Alone(s), TableOK, TableOK', Uses(s), Copies(s), Saved(s), [Next]_vars
  PROVE  Saved(s)'
<1>1. s \in Thread /\ TypeOK /\ TypeOK' /\ Call(s) /\ (Steps(s) \/ UNCHANGED vars)
  BY OnlyStep DEF TableOK, TableInv, Alone
<1>2. CASE Steps(s)
  BY <1>1, <1>2, IGetSaved, IPutSaved, IAllocSaved, SessionSaved, UpdateSaved DEF Steps
<1>3. CASE UNCHANGED vars
  BY <1>3 DEF vars, tableVars, diskVars, ctlVars, Saved
<1> QED
  BY <1>1, <1>2, <1>3

-----------------------------------------------------------------------------
(***************************************************************************)
(* The fate of an inode: what is listed, what is named, what is in memory. *)
(***************************************************************************)
Named(n) == \E d \in Dir, r \in Slot : dir[d][r] = n

\* The call has a directory locked, for an entry that it has found free.
Creating(s) ==
  \/ pc[s] \in {"pop", "scan", "writedir"}
  \/ goal[s] = "alloc" /\ pc[s] \in InGet
  \/ pc[s] \in InPut /\ then[s] = "pop"

\* IGet is still to be called, or will be after IPut.
Going(s) == pc[s] \in {"get", "wait", "find", "name", "fill"} \/ (pc[s] \in InPut /\ then[s] = "get")

\* An inode has one name at most.
OneName ==
  \A d, e \in Dir : \A r, q \in Slot :
    dir[d][r] # 0 /\ dir[d][r] = dir[e][q] => d = e /\ r = q

\* What an inode is, and what names it.
NamesLead(s) ==
  /\ Latest(0) = "unlinked"
  /\ \A n \in Ino \ {0} :
       /\ Named(n) => Latest(n) = "linked"
       /\ Latest(n) = "unlinked" => Loaded(n) # {}
       /\ Latest(n) = "linked" /\ ~ Named(n) =>
            (pc[s] = "writedir" /\ want[s] = n) \/ n \in nameless
       /\ n \in nameless => Latest(n) = "linked" /\ ~ Named(n)

\* A free inode is in memory only where IAlloc has just got it, or IPut freed it.
FreeOnes(s) ==
  /\ \A x \in Entry :
       count[x] # 0 /\ number[x] \in Ino /\ node[x] = "free" =>
         /\ ent[s] = x
         /\ (pc[s] = "held" /\ goal[s] = "alloc") \/ pc[s] \in {"last", "release", "clear"}
  /\ pc[s] \in {"last", "release", "clear"} => node[ent[s]] # "unlinked"

Fates(s) == OneName /\ NamesLead(s) /\ FreeOnes(s)

\* What IAlloc finds in s_inode, and what it has taken from it.
Popping(s) ==
  /\ pc[s] = "scan" => sInode = <<>>
  /\ pc[s] = "pop" /\ sInode = <<>> => want[s] = 0 /\ goal[s] = "alloc"
  /\ pc[s] \in InPut /\ then[s] = "pop" => want[s] = 0 /\ goal[s] = "alloc"
  /\ goal[s] = "alloc" /\ pc[s] \in InGet =>
       \A n \in Ino \ {0} : n = want[s] =>
         Latest(n) = "free" /\ \A i \in DOMAIN sInode : sInode[i] # n

Listing(s) == ListedAreFree /\ Popping(s)

\* What the call has found in the directories is there still.
Aims(s) ==
  /\ Going(s) /\ goal[s] \in {"file", "search"} => Named(want[s])
  /\ pc[s] = "held" /\ goal[s] = "file" => Named(want[s])
  /\ pc[s] \in InPut /\ then[s] = "file" => Named(want[s])
  /\ goal[s] = "victim" /\ pc[s] \in InGet =>
       /\ number[kept[s]] \in Dir /\ want[s] \notin Dir \cup {0}
       /\ dir[number[kept[s]]][slot[s]] = want[s]
  /\ Creating(s) => number[kept[s]] \in Dir /\ dir[number[kept[s]]][slot[s]] = 0
  /\ pc[s] = "writedir" =>
       \A n \in Ino : n = want[s] =>
         n # 0 /\ Latest(n) = "linked" /\ ~ Named(n) /\ n \notin nameless
  /\ pc[s] \in InPut /\ then[s] = "chdir" => kept[s] = cdir[s]

\* With one copy at most, the latest is that one, or else the disk's.
LatestFacts ==
  \A n \in Ino :
    /\ \A x \in Entry : count[x] # 0 /\ number[x] = n => Latest(n) = node[x] /\ Loaded(n) # {}
    /\ (\A x \in Entry : count[x] = 0 \/ number[x] # n) =>
         Latest(n) = dinode[n] /\ Loaded(n) = {}

LEMMA LatestIs == ASSUME NEW s, TypeOK, Copies(s) PROVE LatestFacts
<1> SUFFICES ASSUME NEW n \in Ino
             PROVE  /\ \A x \in Entry : count[x] # 0 /\ number[x] = n =>
                                          Latest(n) = node[x] /\ Loaded(n) # {}
                    /\ (\A x \in Entry : count[x] = 0 \/ number[x] # n) =>
                         Latest(n) = dinode[n] /\ Loaded(n) = {}
  BY DEF LatestFacts
<1>1. ASSUME NEW x \in Entry, count[x] # 0, number[x] = n
      PROVE  Latest(n) = node[x] /\ Loaded(n) # {}
  <2>1. n # -1
    BY Consts
  <2>2. x \in Loaded(n) /\ \A y \in Loaded(n) : y = x
    BY <1>1, <2>1 DEF Loaded, Copies
  <2>3. (CHOOSE y \in Loaded(n) : TRUE) = x
    BY <2>2
  <2> QED
    BY <2>2, <2>3 DEF Latest
<1>2. (\A x \in Entry : count[x] = 0 \/ number[x] # n) => Loaded(n) = {} /\ Latest(n) = dinode[n]
  BY DEF Latest, Loaded
<1> QED
  BY <1>1, <1>2

Becomes(s, v) ==
  /\ number[ent[s]] \in Ino
  /\ \A n \in Ino : Latest(n)' = IF n = number[ent[s]] THEN v ELSE Latest(n)

\* What a step does to the inodes, taken together.
Moved(s) ==
  /\ \A n \in Ino : Loaded(n) # {} /\ Loaded(n)' = {} => pc[s] = "clear" /\ n = number[ent[s]]
  /\ \/ \A n \in Ino : Latest(n)' = Latest(n)
     \/ PutLast(s) /\ node[ent[s]] = "unlinked" /\ Becomes(s, "free")
     \/ UnLink(s) /\ Becomes(s, "unlinked")
     \/ MakNode(s) /\ Becomes(s, "linked")

LEMMA NotMoved ==
  ASSUME NEW s, UNCHANGED <<number, count, node, dinode>>
  PROVE  Moved(s)
BY DEF Moved, Loaded, Latest

LEMMA LatestAlike ==
  ASSUME LatestFacts, LatestFacts', NEW n \in Ino,
         \A x \in Entry : number'[x] = n /\ count'[x] # 0 <=> number[x] = n /\ count[x] # 0,
         \A x \in Entry : number[x] = n /\ count[x] # 0 => node'[x] = node[x],
         (\A x \in Entry : number[x] # n \/ count[x] = 0) => dinode'[n] = dinode[n]
  PROVE  Loaded(n)' = Loaded(n) /\ Latest(n)' = Latest(n)
<1>1. Loaded(n)' = Loaded(n)
  BY DEF Loaded
<1>2. CASE \A x \in Entry : number[x] # n \/ count[x] = 0
  <2>1. \A x \in Entry : count'[x] = 0 \/ number'[x] # n
    BY <1>2
  <2>2. Latest(n) = dinode[n] /\ Latest(n)' = dinode'[n]
    BY <1>2, <2>1 DEF LatestFacts
  <2> QED
    BY <1>1, <1>2, <2>2
<1>3. ASSUME NEW x \in Entry, number[x] = n, count[x] # 0 PROVE Latest(n)' = Latest(n)
  <2>1. Latest(n) = node[x]
    BY <1>3 DEF LatestFacts
  <2>2. number'[x] = n /\ count'[x] # 0 /\ node'[x] = node[x]
    BY <1>3
  <2>3. Latest(n)' = node'[x]
    BY <2>2 DEF LatestFacts
  <2> QED
    BY <2>1, <2>2, <2>3
<1> QED
  BY <1>1, <1>2, <1>3

LEMMA IGetMoved ==
  ASSUME NEW s \in Thread, TypeOK, TypeOK', Call(s), Uses(s), Copies(s), Saved(s),
         LatestFacts, LatestFacts', IGetStep(s)
  PROVE  Moved(s)
<1>1. CASE GetLoaded(s)
  BY <1>1, NotMoved DEF GetLoaded, tableVars, diskVars
<1>2. CASE GetLock(s)
  <2>1. /\ ent[s] \in Entry /\ count[ent[s]] # 0 /\ count \in [Entry -> Nat]
        /\ number' = number /\ node' = node /\ dinode' = dinode
        /\ count' = [count EXCEPT ![ent[s]] = @ + 1]
    BY <1>2 DEF GetLock, Call, OnEntry, Copies, Goto, TypeOK, diskVars
  <2>2. \A x \in Entry : count'[x] = IF x = ent[s] THEN count[x] + 1 ELSE count[x]
    BY <2>1
  <2>3. \A x \in Entry : count'[x] = 0 <=> count[x] = 0
    BY <2>1, <2>2
  <2>4. ASSUME NEW n \in Ino PROVE Loaded(n)' = Loaded(n) /\ Latest(n)' = Latest(n)
    BY <2>1, <2>3, LatestAlike
  <2> QED
    BY <2>4 DEF Moved
<1>3. CASE GetName(s)
  <2> DEFINE e == ent[s]
  <2>1. /\ e \in Entry /\ count[e] = 0 /\ count' = count /\ node' = node /\ dinode' = dinode
        /\ number' = [number EXCEPT ![e] = want[s]]
    BY <1>3 DEF GetName, Goto, Call, OnEntry, Copies, diskVars
  <2> HIDE DEF e
  <2>2. \A x \in Entry : number'[x] = IF x = e THEN want[s] ELSE number[x]
    BY <2>1 DEF TypeOK
  <2>3. ASSUME NEW n \in Ino PROVE Loaded(n)' = Loaded(n) /\ Latest(n)' = Latest(n)
    BY <2>1, <2>2, LatestAlike
  <2> QED
    BY <2>3 DEF Moved
<1>4. CASE GetFill(s)
  <2>1. /\ ent[s] \in Entry /\ count[ent[s]] = 0 /\ count \in [Entry -> Nat]
        /\ number[ent[s]] = want[s] /\ want[s] \in Ino /\ want[s] # -1
        /\ number' = number /\ dinode' = dinode
        /\ count' = [count EXCEPT ![ent[s]] = @ + 1]
        /\ node' = [node EXCEPT ![ent[s]] = dinode[want[s]]] /\ node \in [Entry -> State]
    BY <1>4, Consts DEF GetFill, Call, OnEntry, Copies, Goto, TypeOK, diskVars
  <2>2. \A x \in Entry : count'[x] = IF x = ent[s] THEN 1 ELSE count[x]
    BY <2>1
  <2>3. \A x \in Entry : x # ent[s] => number[x] # want[s]
    BY <2>1 DEF Copies
  <2>4. ASSUME NEW n \in Ino, n # want[s] PROVE Loaded(n)' = Loaded(n) /\ Latest(n)' = Latest(n)
    <3>1. \A x \in Entry : number'[x] = n /\ count'[x] # 0 <=> number[x] = n /\ count[x] # 0
      BY <2>1, <2>2, <2>4
    <3>2. \A x \in Entry : number[x] = n => node'[x] = node[x]
      BY <2>1, <2>4
    <3> QED
      BY <2>1, <3>1, <3>2, LatestAlike
  <2>5. Latest(want[s]) = dinode[want[s]] /\ Loaded(want[s]) = {}
    BY <2>1, <2>3 DEF LatestFacts
  <2>6. ASSUME NEW n \in Ino, n = want[s] PROVE Latest(n)' = Latest(n) /\ Loaded(n) = {}
    <3>1. number'[ent[s]] = n /\ count'[ent[s]] # 0 /\ node'[ent[s]] = dinode[n]
      BY <2>1, <2>2, <2>6
    <3>2. Latest(n)' = node'[ent[s]]
      BY <2>1, <3>1 DEF LatestFacts
    <3> QED
      BY <2>5, <2>6, <3>1, <3>2
  <2> QED
    BY <2>4, <2>6 DEF Moved
<1>5. CASE GetNone(s)
  BY <1>5, NotMoved DEF GetNone, tableVars, diskVars
<1>6. CASE GetNoVictim(s)
  BY <1>6, NotMoved DEF GetNoVictim, tableVars, diskVars
<1>7. CASE GetUnloaded(s)
  BY <1>7, NotMoved DEF GetUnloaded, tableVars, diskVars
<1>8. CASE GetFree(s)
  BY <1>8, NotMoved DEF GetFree, tableVars, diskVars
<1> QED
  BY <1>1, <1>2, <1>3, <1>4, <1>5, <1>6, <1>7, <1>8 DEF IGetStep

\* One entry's inode changes, and so does the latest of what it holds.
LEMMA NodeMoves ==
  ASSUME NEW s \in Thread, TypeOK, LatestFacts, LatestFacts', ent[s] \in Entry, NEW v,
         count[ent[s]] # 0, number[ent[s]] \in Ino,
         number' = number, count' = count, node' = [node EXCEPT ![ent[s]] = v],
         \A n \in Ino : n # number[ent[s]] => dinode'[n] = dinode[n]
  PROVE  Becomes(s, v) /\ \A n \in Ino : Loaded(n)' = Loaded(n)
<1>1. ASSUME NEW n \in Ino PROVE Loaded(n)' = Loaded(n)
  BY DEF Loaded
<1>2. ASSUME NEW n \in Ino, n = number[ent[s]] PROVE Latest(n)' = v
  <2>1. number'[ent[s]] = n /\ count'[ent[s]] # 0 /\ node'[ent[s]] = v
    BY <1>2 DEF TypeOK
  <2> QED
    BY <2>1 DEF LatestFacts
<1>3. ASSUME NEW n \in Ino, n # number[ent[s]] PROVE Latest(n)' = Latest(n)
  <2>1. \A x \in Entry : number[x] = n => node'[x] = node[x]
    BY <1>3 DEF TypeOK
  <2> QED
    BY <1>3, <2>1, LatestAlike
<1> QED
  BY <1>1, <1>2, <1>3 DEF Becomes

LEMMA PutLastBecomes ==
  ASSUME NEW s \in Thread, TypeOK, Call(s), Uses(s), Copies(s), LatestFacts, LatestFacts',
         PutLast(s), node[ent[s]] = "unlinked"
  PROVE  Becomes(s, "free") /\ \A n \in Ino : Loaded(n)' = Loaded(n)
<1>1. pc[s] = "put" /\ ent[s] \in Entry /\ count[ent[s]] # 0 /\ number[ent[s]] \in Ino
  BY DEF PutLast, Goto, Call, OnEntry, InPut, Uses, Refers, Copies, Cleared
<1>2. /\ number' = number /\ count' = count /\ dinode' = dinode
      /\ node' = [node EXCEPT ![ent[s]] = "free"]
  BY DEF PutLast, Freed
<1> QED
  BY <1>1, <1>2, NodeMoves

LEMMA UnLinkBecomes ==
  ASSUME NEW s \in Thread, TypeOK, Call(s), Uses(s), Copies(s), LatestFacts, LatestFacts',
         UnLink(s)
  PROVE  Becomes(s, "unlinked") /\ \A n \in Ino : Loaded(n)' = Loaded(n)
<1>1. /\ pc[s] = "held" /\ ent[s] \in Entry /\ number' = number /\ count' = count
      /\ node' = [node EXCEPT ![ent[s]] = "unlinked"] /\ dinode' = dinode
  BY DEF UnLink, Call, OnEntry
<1>2. count[ent[s]] # 0 /\ number[ent[s]] \in Ino
  BY <1>1 DEF Uses, Refers, Copies, Cleared
<1> QED
  BY <1>1, <1>2, NodeMoves

LEMMA MakNodeBecomes ==
  ASSUME NEW s \in Thread, TypeOK, Call(s), Uses(s), Copies(s), LatestFacts, LatestFacts',
         MakNode(s)
  PROVE  Becomes(s, "linked") /\ \A n \in Ino : Loaded(n)' = Loaded(n)
<1>1. /\ pc[s] = "held" /\ ent[s] \in Entry /\ number' = number /\ count' = count
      /\ node' = [node EXCEPT ![ent[s]] = "linked"]
  BY DEF MakNode, Goto, Call, OnEntry
<1>2. count[ent[s]] # 0 /\ number[ent[s]] \in Ino
  BY <1>1 DEF Uses, Refers, Copies, Cleared
<1>3. \A n \in Ino : n # number[ent[s]] => dinode'[n] = dinode[n]
  BY <1>2 DEF MakNode, TypeOK
<1> QED
  BY <1>1, <1>2, <1>3, NodeMoves

\* What is written to the disk of an inode in memory is not its latest.
LEMMA DiskMoves ==
  ASSUME NEW s, LatestFacts, LatestFacts', NEW x \in Entry, count[x] # 0,
         number' = number, count' = count, node' = node,
         \A n \in Ino : n # number[x] => dinode'[n] = dinode[n]
  PROVE  Moved(s)
<1>1. ASSUME NEW n \in Ino PROVE Loaded(n)' = Loaded(n) /\ Latest(n)' = Latest(n)
  BY LatestAlike
<1> QED
  BY <1>1 DEF Moved

LEMMA IPutMoved ==
  ASSUME NEW s \in Thread, TypeOK, TypeOK', Call(s), Uses(s), Copies(s), Saved(s),
         LatestFacts, LatestFacts', IPutStep(s)
  PROVE  Moved(s)
<1>0. pc[s] \in InPut /\ ent[s] \in Entry /\ count[ent[s]] # 0
  BY DEF IPutStep, PutLast, PutWrite, PutRelease, PutClear, PutShared, PutDec, Goto, InPut, Call,
         OnEntry, Uses, Refers
<1>1. CASE PutLast(s)
  <2>1. /\ number' = number /\ count' = count /\ dinode' = dinode
        /\ \/ node' = node
           \/ node[ent[s]] = "unlinked" /\ node' = [node EXCEPT ![ent[s]] = "free"]
    BY <1>1 DEF PutLast, Freed
  <2>2. CASE node' = node
    BY <2>1, <2>2, NotMoved
  <2>3. CASE node[ent[s]] = "unlinked"
    BY <1>1, <2>3, PutLastBecomes DEF Moved
  <2> QED
    BY <2>1, <2>2, <2>3
<1>2. CASE PutWrite(s)
  <2>1. number' = number /\ count' = count /\ node' = node
    BY <1>2 DEF PutWrite, tableVars
  <2>2. \A n \in Ino : n # number[ent[s]] => dinode'[n] = dinode[n]
    BY <1>2 DEF PutWrite, IUpdate, TypeOK
  <2> QED
    BY <1>0, <2>1, <2>2, DiskMoves
<1>3. CASE PutRelease(s)
  BY <1>3, NotMoved DEF PutRelease, diskVars
<1>4. CASE PutClear(s)
  <2>1. /\ pc[s] = "clear" /\ count' = count /\ node' = node /\ dinode' = dinode
        /\ number' = [number EXCEPT ![ent[s]] = -1]
        /\ number[ent[s]] \in Ino /\ dinode[number[ent[s]]] = node[ent[s]]
    BY <1>0, <1>4 DEF PutClear, Goto, Copies, Cleared, Saved, diskVars
  <2>2. \A x \in Entry : number'[x] = IF x = ent[s] THEN -1 ELSE number[x]
    BY <1>0, <2>1 DEF TypeOK
  <2>3. ASSUME NEW n \in Ino, n # number[ent[s]]
        PROVE  Loaded(n)' = Loaded(n) /\ Latest(n)' = Latest(n)
    <3>1. n # -1
      BY Consts
    <3>2. \A x \in Entry : number'[x] = n <=> number[x] = n
      BY <1>0, <2>1, <2>2, <2>3, <3>1
    <3> QED
      BY <2>1, <3>2, LatestAlike
  <2>4. Latest(number[ent[s]]) = node[ent[s]]
    BY <1>0, <2>1 DEF LatestFacts
  <2>5. ASSUME NEW n \in Ino, n = number[ent[s]] PROVE Latest(n)' = Latest(n)
    <3>1. n # -1
      BY Consts
    <3>2. \A x \in Entry : number'[x] # n
      BY <1>0, <2>2, <2>5, <3>1 DEF Copies
    <3>3. Latest(n)' = dinode'[n]
      BY <3>2 DEF LatestFacts
    <3> QED
      BY <2>1, <2>4, <2>5, <3>3
  <2> QED
    BY <2>1, <2>3, <2>5 DEF Moved
<1>5. CASE PutShared(s)
  BY <1>5, NotMoved DEF PutShared, tableVars, diskVars
<1>6. CASE PutDec(s)
  <2>1. /\ pc[s] = "dec" /\ number' = number /\ node' = node /\ dinode' = dinode
        /\ count' = [count EXCEPT ![ent[s]] = @ - 1] /\ count \in [Entry -> Nat]
    BY <1>6 DEF PutDec, TypeOK, diskVars
  <2>2. \A x \in Entry : count'[x] = IF x = ent[s] THEN count[x] - 1 ELSE count[x]
    BY <2>1
  <2>3. count[ent[s]] = 1 => number[ent[s]] = -1
    BY <1>0, <2>1 DEF Copies, Cleared
  <2>4. ASSUME NEW n \in Ino PROVE Loaded(n)' = Loaded(n) /\ Latest(n)' = Latest(n)
    <3>1. n # -1
      BY Consts
    <3>2. count[ent[s]] \in Nat
      BY <1>0, <2>1
    <3>3. \A x \in Entry : number'[x] = n /\ count'[x] # 0 <=> number[x] = n /\ count[x] # 0
      BY <1>0, <2>1, <2>2, <2>3, <3>1, <3>2
    <3> QED
      BY <2>1, <3>3, LatestAlike
  <2> QED
    BY <2>4 DEF Moved
<1> QED
  BY <1>1, <1>2, <1>3, <1>4, <1>5, <1>6 DEF IPutStep

LEMMA IAllocMoved ==
  ASSUME NEW s \in Thread, TypeOK, TypeOK', Call(s), Uses(s), Copies(s), Saved(s),
         LatestFacts, LatestFacts', IAllocStep(s)
  PROVE  Moved(s)
<1>1. CASE IAllocScan(s)
  BY <1>1, NotMoved DEF IAllocScan, tableVars
<1>2. CASE IAllocNone(s)
  BY <1>2, NotMoved DEF IAllocNone, tableVars, diskVars
<1>3. CASE IAllocPop(s)
  BY <1>3, NotMoved DEF IAllocPop, tableVars
<1>4. CASE IAllocBelow(s)
  BY <1>4, NotMoved DEF IAllocBelow, tableVars, diskVars
<1>5. CASE IAllocTaken(s)
  BY <1>5, NotMoved DEF IAllocTaken, tableVars, diskVars
<1>6. CASE MakNode(s)
  BY <1>6, MakNodeBecomes DEF Moved
<1>7. CASE WriteDir(s)
  BY <1>7, NotMoved DEF WriteDir
<1>8. CASE WriteDirFull(s)
  BY <1>8, NotMoved DEF WriteDirFull
<1> QED
  BY <1>1, <1>2, <1>3, <1>4, <1>5, <1>6, <1>7, <1>8 DEF IAllocStep

\* What creat truncates has a name, so i_nlink is 1 before as well.
LEMMA TruncatedHasName ==
  ASSUME NEW s \in Thread, TypeOK, Call(s), Uses(s), Copies(s), LatestFacts, NamesLead(s), Aims(s),
         pc[s] = "held", Truncated(s)
  PROVE  node' = node
<1>1. ent[s] \in Entry /\ count[ent[s]] # 0 /\ number[ent[s]] = want[s] /\ want[s] \in Ino
  BY DEF Call, OnEntry, Uses, Refers, Copies, TypeOK
<1>2. Named(want[s]) /\ want[s] # 0
  BY <1>1, Consts DEF Truncated, Aims
<1>3. node[ent[s]] = "linked"
  BY <1>1, <1>2 DEF NamesLead, LatestFacts
<1> QED
  BY <1>1, <1>3 DEF Truncated, TypeOK

LEMMA SessionMoved ==
  ASSUME NEW s \in Thread, TypeOK, TypeOK', Call(s), Uses(s), Copies(s), Saved(s),
         LatestFacts, LatestFacts', NamesLead(s), Aims(s), SessionStep(s)
  PROVE  Moved(s)
<1>1. CASE NameI(s)
  BY <1>1, NotMoved DEF NameI, tableVars, diskVars
<1>2. CASE Walk(s)
  BY <1>2, NotMoved DEF Walk, tableVars, diskVars
<1>3. CASE NewName(s)
  BY <1>3, NotMoved DEF NewName, diskVars
<1>4. CASE Victim(s)
  BY <1>4, NotMoved DEF Victim, diskVars
<1>5. CASE UnLink(s)
  BY <1>5, UnLinkBecomes DEF Moved
<1>6. CASE Open1(s)
  <2>1. node' = node
    BY <1>6, TruncatedHasName DEF Open1, Found
  <2> QED
    BY <1>6, <2>1, NotMoved DEF Open1, diskVars
<1>7. CASE Open1Fails(s)
  <2>1. node' = node
    BY <1>7, TruncatedHasName DEF Open1Fails, Found
  <2> QED
    BY <1>7, <2>1, NotMoved DEF Open1Fails, diskVars
<1>8. CASE GiveUp(s)
  BY <1>8, NotMoved DEF GiveUp, tableVars, diskVars
<1>9. CASE ChDir(s)
  BY <1>9, NotMoved DEF ChDir, tableVars, diskVars
<1>10. CASE ChDirEnd(s)
  BY <1>10, NotMoved DEF ChDirEnd, diskVars
<1>11. CASE Close(s)
  BY <1>11, NotMoved DEF Close, tableVars, diskVars
<1>12. CASE Rdwr(s)
  BY <1>12, NotMoved DEF Rdwr, tableVars, diskVars
<1>13. CASE RdwrLock(s)
  BY <1>13, NotMoved DEF RdwrLock, diskVars
<1>14. CASE RdwrEnd(s)
  BY <1>14, NotMoved DEF RdwrEnd, diskVars
<1> QED
  BY <1>1, <1>2, <1>3, <1>4, <1>5, <1>6, <1>7, <1>8, <1>9, <1>10, <1>11, <1>12, <1>13, <1>14
     DEF SessionStep

LEMMA UpdateMoved ==
  ASSUME NEW s \in Thread, TypeOK, Call(s), Copies(s), LatestFacts, LatestFacts', UpdateStep(s)
  PROVE  Moved(s)
<1>1. CASE Update(s)
  BY <1>1, NotMoved DEF Update, tableVars, diskVars
<1>2. CASE UpdateSkip(s)
  BY <1>2, NotMoved DEF UpdateSkip, tableVars, diskVars
<1>3. CASE UpdateTake(s)
  BY <1>3, NotMoved DEF UpdateTake, diskVars
<1>4. CASE UpdateSync(s)
  <2>1. /\ pc[s] = "sync" /\ ent[s] \in Entry
        /\ number' = number /\ count' = count /\ node' = node
    BY <1>4 DEF UpdateSync, Goto, Call, OnEntry
  <2>2. \A n \in Ino : n # number[ent[s]] => dinode'[n] = dinode[n]
    BY <1>4 DEF UpdateSync, IUpdate, TypeOK
  <2>3. CASE count[ent[s]] # 0
    BY <2>1, <2>2, <2>3, DiskMoves
  <2>4. CASE count[ent[s]] = 0
    <3>1. number[ent[s]] = -1
      BY <2>1, <2>4 DEF Copies
    <3>2. dinode' = dinode
      BY <1>4, <3>1, Consts DEF UpdateSync, IUpdate
    <3> QED
      BY <2>1, <3>2, NotMoved
  <2> QED
    BY <2>3, <2>4
<1>5. CASE UpdateEnd(s)
  BY <1>5, NotMoved DEF UpdateEnd, tableVars, diskVars
<1> QED
  BY <1>1, <1>2, <1>3, <1>4, <1>5 DEF UpdateStep

LEMMA StepMoved ==
  ASSUME NEW s \in Thread, TypeOK, TypeOK', Call(s), Uses(s), Copies(s), Saved(s),
         LatestFacts, LatestFacts', NamesLead(s), Aims(s), Steps(s)
  PROVE  Moved(s)
BY IGetMoved, IPutMoved, IAllocMoved, SessionMoved, UpdateMoved DEF Steps

-----------------------------------------------------------------------------
(***************************************************************************)
(* Names.                                                                  *)
(***************************************************************************)
LEMMA UnLinkNames ==
  ASSUME NEW s \in Thread, TypeOK, Call(s), Uses(s), Copies(s), OneName, Aims(s), UnLink(s)
  PROVE  /\ want[s] \in Ino \ ({0} \cup Dir) /\ number[ent[s]] = want[s]
         /\ Named(want[s]) /\ want' = want /\ OneName'
         /\ \A n \in Ino \ {0} : Named(n)' <=> Named(n) /\ n # want[s]
<1> DEFINE d == number[kept[s]]
           q == slot[s]
<1>1. /\ pc[s] = "held" /\ goal[s] = "victim" /\ d \in Dir /\ q \in Slot /\ ent[s] \in Entry
      /\ want[s] \in Ino /\ want[s] \notin Dir \cup {0} /\ dir[d][q] = want[s]
  BY DEF UnLink, Aims, InGet, TypeOK, Call, OnEntry
<1>2. number[ent[s]] = want[s] /\ want' = want /\ dir' = [dir EXCEPT ![d][q] = 0]
  BY <1>1 DEF UnLink, Copies
<1> HIDE DEF d, q
<1>3. \A e \in Dir, r \in Slot : dir'[e][r] = IF e = d /\ r = q THEN 0 ELSE dir[e][r]
  BY <1>1, <1>2 DEF TypeOK
<1>4. OneName'
  BY <1>3 DEF OneName
<1>5. ASSUME NEW n \in Ino \ {0} PROVE Named(n)' <=> Named(n) /\ n # want[s]
  BY <1>1, <1>3 DEF Named, OneName
<1>6. Named(want[s])
  BY <1>1 DEF Named
<1> QED
  BY <1>1, <1>2, <1>4, <1>5, <1>6

LEMMA WriteDirNames ==
  ASSUME NEW s \in Thread, TypeOK, Call(s), Uses(s), Copies(s), OneName, Aims(s), WriteDir(s)
  PROVE  /\ want[s] \in Ino \ {0} /\ want' = want
         /\ Latest(want[s]) = "linked" /\ ~ Named(want[s]) /\ want[s] \notin nameless /\ OneName'
         /\ \A n \in Ino \ {0} : Named(n)' <=> Named(n) \/ n = want[s]
<1> DEFINE d == number[kept[s]]
           q == slot[s]
<1>1. /\ pc[s] = "writedir" /\ d \in Dir /\ q \in Slot /\ dir[d][q] = 0 /\ ent[s] \in Entry
      /\ want[s] \in Ino
  BY DEF WriteDir, Aims, Creating, TypeOK, Call, OnEntry
<1>2. /\ number[ent[s]] = want[s] /\ want[s] \in Ino \ {0}
      /\ Latest(want[s]) = "linked" /\ ~ Named(want[s]) /\ want[s] \notin nameless
  BY <1>1 DEF Copies, Aims
<1>3. want' = want /\ dir' = [dir EXCEPT ![d][q] = want[s]]
  BY <1>1, <1>2 DEF WriteDir
<1> HIDE DEF d, q
<1>4. \A e \in Dir, r \in Slot : dir'[e][r] = IF e = d /\ r = q THEN want[s] ELSE dir[e][r]
  BY <1>1, <1>3 DEF TypeOK
<1>5. OneName'
  BY <1>1, <1>2, <1>4 DEF OneName, Named
<1>6. ASSUME NEW n \in Ino \ {0} PROVE Named(n)' <=> Named(n) \/ n = want[s]
  BY <1>1, <1>4 DEF Named
<1> QED
  BY <1>1, <1>2, <1>3, <1>5, <1>6

LEMMA DirStays ==
  ASSUME NEW s \in Thread, Steps(s), ~ UnLink(s), ~ WriteDir(s)
  PROVE  dir' = dir
<1> USE DEF diskVars
<1>1. CASE IGetStep(s)
  BY <1>1 DEF IGetStep, GetLoaded, GetLock, GetUnloaded, GetFree, GetName,
                    GetFill, GetNone, GetNoVictim
<1>2. CASE IPutStep(s)
  BY <1>2 DEF IPutStep, PutLast, PutWrite, PutRelease, PutClear, PutShared, PutDec
<1>3. CASE IAllocStep(s)
  BY <1>3 DEF IAllocStep, IAllocScan, IAllocNone, IAllocPop, IAllocBelow, IAllocTaken, MakNode,
              WriteDirFull
<1>4. CASE SessionStep(s)
  BY <1>4 DEF SessionStep, NameI, Walk, NewName, Victim, Open1, Open1Fails, GiveUp,
              ChDir, ChDirEnd, Close, Rdwr, RdwrLock, RdwrEnd
<1>5. CASE UpdateStep(s)
  BY <1>5 DEF UpdateStep, Update, UpdateSkip, UpdateTake, UpdateSync, UpdateEnd
<1> QED
  BY <1>1, <1>2, <1>3, <1>4, <1>5 DEF Steps

LEMMA NamelessStays ==
  ASSUME NEW s \in Thread, Steps(s), ~ WriteDirFull(s)
  PROVE  nameless' = nameless
<1> USE DEF diskVars
<1>1. CASE IGetStep(s)
  BY <1>1 DEF IGetStep, GetLoaded, GetLock, GetUnloaded, GetFree, GetName, GetFill, GetNone,
              GetNoVictim
<1>2. CASE IPutStep(s)
  BY <1>2 DEF IPutStep, PutLast, PutWrite, PutRelease, PutClear, PutShared, PutDec
<1>3. CASE IAllocStep(s)
  BY <1>3 DEF IAllocStep, IAllocScan, IAllocNone, IAllocPop, IAllocBelow, IAllocTaken, MakNode,
              WriteDir
<1>4. CASE SessionStep(s)
  BY <1>4 DEF SessionStep, NameI, Walk, NewName, Victim, UnLink, Open1, Open1Fails, GiveUp,
              ChDir, ChDirEnd, Close, Rdwr, RdwrLock, RdwrEnd
<1>5. CASE UpdateStep(s)
  BY <1>5 DEF UpdateStep, Update, UpdateSkip, UpdateTake, UpdateSync, UpdateEnd
<1> QED
  BY <1>1, <1>2, <1>3, <1>4, <1>5 DEF Steps

\* An inode that has been made, and has no name yet, gets it in the next step, if
\* there is room for it.
LEMMA OnlyWriteDir ==
  ASSUME NEW s \in Thread, Steps(s), pc[s] = "writedir"
  PROVE  WriteDir(s) \/ WriteDirFull(s)
<1> USE DEF Goto, Searching, Found
<1>1. ~ IGetStep(s)
  BY DEF IGetStep, GetLoaded, GetLock, GetUnloaded, GetFree, GetName,
                    GetFill, GetNone, GetNoVictim, TableFull
<1>2. ~ IPutStep(s)
  BY DEF IPutStep, PutLast, PutWrite, PutRelease, PutClear, PutShared, PutDec
<1>3. IAllocStep(s) => WriteDir(s) \/ WriteDirFull(s)
  BY DEF IAllocStep, IAllocScan, IAllocNone, IAllocPop, IAllocBelow, IAllocTaken, MakNode
<1>4. ~ SessionStep(s)
  BY DEF SessionStep, NameI, Walk, NewName, Victim, UnLink, Open1, Open1Fails, GiveUp,
         ChDir, ChDirEnd, Close, Rdwr, RdwrLock, RdwrEnd
<1>5. ~ UpdateStep(s)
  BY DEF UpdateStep, Update, UpdateSkip, UpdateTake, UpdateSync, UpdateEnd
<1> QED
  BY <1>1, <1>2, <1>3, <1>4, <1>5 DEF Steps

\* Entry 0 holds the root for good.
LEMMA RootHeld ==
  ASSUME NEW s \in Thread, TypeOK, Call(s), Uses(s), Copies(s), LatestFacts, NamesLead(s)
  PROVE  /\ count[0] # 0 /\ number[0] = 0 /\ node[0] = "unlinked"
         /\ \A x \in Entry : number[x] = 0 => x = 0
BY Consts DEF Uses, Copies, LatestFacts, NamesLead

LEMMA NamesLeadNext ==
  ASSUME NEW s \in Thread, TypeOK, TypeOK', Call(s), Uses(s), Copies(s), Saved(s),
         LatestFacts, LatestFacts', Fates(s), Aims(s), Moved(s), Steps(s)
  PROVE  OneName' /\ NamesLead(s)'
<1>0. OneName /\ NamesLead(s) /\ FreeOnes(s) /\ 0 \in Ino
  BY Consts DEF Fates
<1>1. CASE UnLink(s)
  <2>1. /\ want[s] \in Ino \ ({0} \cup Dir) /\ number[ent[s]] = want[s]
        /\ Named(want[s]) /\ want' = want /\ OneName'
        /\ \A n \in Ino \ {0} : Named(n)' <=> Named(n) /\ n # want[s]
    BY <1>0, <1>1, UnLinkNames
  <2>2. /\ \A n \in Ino : Latest(n)' = IF n = want[s] THEN "unlinked" ELSE Latest(n)
        /\ \A n \in Ino : Loaded(n)' = Loaded(n)
    BY <1>1, <2>1, UnLinkBecomes DEF Becomes
  <2>3. pc[s] = "held" /\ ent[s] \in Entry /\ nameless' = nameless
    BY <1>1 DEF UnLink, Call, OnEntry
  <2>4. Loaded(want[s]) # {}
    BY <2>1, <2>3 DEF Uses, Refers, Loaded
  <2>5. Latest(0)' = "unlinked"
    BY <1>0, <2>1, <2>2 DEF NamesLead
  <2>6. ASSUME NEW n \in Ino \ {0}
        PROVE  /\ Named(n)' => Latest(n)' = "linked"
               /\ Latest(n)' = "unlinked" => Loaded(n)' # {}
               /\ Latest(n)' = "linked" /\ ~ Named(n)' => n \in nameless'
               /\ n \in nameless' => Latest(n)' = "linked" /\ ~ Named(n)'
    BY <1>0, <2>1, <2>2, <2>3, <2>4 DEF NamesLead
  <2> QED
    BY <2>1, <2>5, <2>6 DEF NamesLead
<1>2. CASE WriteDir(s)
  <2>1. /\ want[s] \in Ino \ {0} /\ want' = want
        /\ Latest(want[s]) = "linked" /\ ~ Named(want[s]) /\ want[s] \notin nameless /\ OneName'
        /\ \A n \in Ino \ {0} : Named(n)' <=> Named(n) \/ n = want[s]
    BY <1>0, <1>2, WriteDirNames
  <2>2. \A n \in Ino : Latest(n)' = Latest(n) /\ Loaded(n)' = Loaded(n)
    <3>1. UNCHANGED <<number, count, node, dinode>>
      BY <1>2 DEF WriteDir
    <3> QED
      BY <3>1, LatestAlike
  <2>3. Latest(0)' = "unlinked" /\ nameless' = nameless /\ pc[s] = "writedir"
    BY <1>0, <1>2, <2>2 DEF NamesLead, WriteDir
  <2>4. ASSUME NEW n \in Ino \ {0}
        PROVE  /\ Named(n)' => Latest(n)' = "linked"
               /\ Latest(n)' = "unlinked" => Loaded(n)' # {}
               /\ Latest(n)' = "linked" /\ ~ Named(n)' => n \in nameless'
               /\ n \in nameless' => Latest(n)' = "linked" /\ ~ Named(n)'
    BY <1>0, <2>1, <2>2, <2>3 DEF NamesLead
  <2> QED
    BY <2>1, <2>3, <2>4 DEF NamesLead
<1>3. CASE MakNode(s)
  <2>1. /\ pc[s] = "held" /\ ent[s] \in Entry /\ node[ent[s]] = "free"
        /\ pc'[s] = "writedir" /\ want' = want /\ dir' = dir /\ nameless' = nameless
    BY <1>3 DEF MakNode, Goto, Go, Call, OnEntry, TypeOK
  <2>2. number[ent[s]] = want[s]
    BY <2>1 DEF Copies
  <2>3. /\ \A n \in Ino : Latest(n)' = IF n = want[s] THEN "linked" ELSE Latest(n)
        /\ \A n \in Ino : Loaded(n)' = Loaded(n)
    BY <1>3, <2>2, MakNodeBecomes DEF Becomes
  <2>4. want[s] # 0
    BY <1>0, <2>1, <2>2, RootHeld
  <2>9. want[s] \in Ino /\ Latest(want[s]) = "free"
    BY <2>1, <2>2 DEF LatestFacts, Uses, Refers, TypeOK
  <2>5. \A n : Named(n)' <=> Named(n)
    BY <2>1 DEF Named
  <2>6. Latest(0)' = "unlinked"
    BY <1>0, <2>3, <2>4 DEF NamesLead
  <2>7. ASSUME NEW n \in Ino \ {0}
        PROVE  /\ Named(n)' => Latest(n)' = "linked"
               /\ Latest(n)' = "unlinked" => Loaded(n)' # {}
               /\ Latest(n)' = "linked" /\ ~ Named(n)' => n = want[s] \/ n \in nameless'
               /\ n \in nameless' => Latest(n)' = "linked" /\ ~ Named(n)'
    BY <1>0, <2>1, <2>3, <2>5, <2>9 DEF NamesLead
  <2>8. OneName'
    BY <1>0, <2>1 DEF OneName
  <2> QED
    BY <2>1, <2>6, <2>7, <2>8 DEF NamesLead
<1>4. CASE ~ UnLink(s) /\ ~ WriteDir(s) /\ ~ MakNode(s) /\ ~ WriteDirFull(s)
  <2>1. dir' = dir /\ pc[s] # "writedir" /\ nameless' = nameless
    BY <1>4, DirStays, OnlyWriteDir, NamelessStays
  <2>2. \A n : Named(n)' <=> Named(n)
    BY <2>1 DEF Named
  <2>3. OneName'
    BY <1>0, <2>1 DEF OneName
  <2>4. \A n \in Ino : Latest(n)' = Latest(n) \/ (Latest(n) = "unlinked" /\ n # 0 /\ Latest(n)' = "free")
    <3>1. CASE PutLast(s) /\ node[ent[s]] = "unlinked" /\ Becomes(s, "free")
      <4>1. /\ ent[s] \in Entry /\ count[ent[s]] = 1 /\ ent[s] # 0
        BY <3>1 DEF PutLast, Goto, Call, OnEntry, InPut, Uses, Refers
      <4>2. number[ent[s]] # 0
        BY <1>0, <4>1, RootHeld
      <4>3. ASSUME NEW n \in Ino, n = number[ent[s]] PROVE Latest(n) = "unlinked"
        BY <3>1, <4>1, <4>3 DEF LatestFacts
      <4> QED
        BY <3>1, <4>2, <4>3 DEF Becomes
    <3> QED
      BY <1>4, <3>1 DEF Moved
  <2>5. \A n \in Ino : Latest(n)' = "unlinked" => (Loaded(n) # {} => Loaded(n)' # {})
    <3>1. ASSUME NEW n \in Ino, Latest(n)' = "unlinked", Loaded(n) # {}, Loaded(n)' = {}
          PROVE  FALSE
      <4>1. pc[s] = "clear" /\ n = number[ent[s]]
        BY <3>1 DEF Moved
      <4>2. ent[s] \in Entry /\ count[ent[s]] = 1
        BY <4>1 DEF Call, OnEntry, InPut, Copies
      <4>3. Latest(n) = node[ent[s]] /\ node[ent[s]] # "unlinked"
        BY <1>0, <4>1, <4>2 DEF LatestFacts, FreeOnes
      <4> QED
        BY <2>4, <3>1, <4>3
    <3> QED
      BY <3>1
  <2>6. Latest(0)' = "unlinked"
    BY <1>0, <2>4 DEF NamesLead
  <2>7. ASSUME NEW n \in Ino \ {0}
        PROVE  /\ Named(n)' => Latest(n)' = "linked"
               /\ Latest(n)' = "unlinked" => Loaded(n)' # {}
               /\ Latest(n)' = "linked" /\ ~ Named(n)' => n \in nameless'
               /\ n \in nameless' => Latest(n)' = "linked" /\ ~ Named(n)'
    BY <1>0, <2>1, <2>2, <2>4, <2>5 DEF NamesLead
  <2> QED
    BY <2>3, <2>6, <2>7 DEF NamesLead
<1>5. CASE WriteDirFull(s)
  <2>1. /\ pc[s] = "writedir" /\ ent[s] \in Entry /\ dir' = dir /\ want' = want
        /\ nameless' = nameless \cup ({number[ent[s]]} \cap Ino)
        /\ UNCHANGED <<number, count, node, dinode>>
    BY <1>5 DEF WriteDirFull, Call, OnEntry
  <2>2. want[s] \in Ino \ {0} /\ number[ent[s]] = want[s] /\ nameless' = nameless \cup {want[s]}
    <3>1. want[s] \in Ino /\ number[ent[s]] = want[s]
      BY <2>1 DEF Copies, TypeOK
    <3>2. want[s] # 0
      BY <2>1, <3>1 DEF Aims
    <3>3. {want[s]} \cap Ino = {want[s]}
      BY <3>1
    <3> QED
      BY <2>1, <3>1, <3>2, <3>3
  <2>3. Latest(want[s]) = "linked" /\ ~ Named(want[s])
    BY <2>1, <2>2 DEF Aims
  <2>4. \A n \in Ino : Latest(n)' = Latest(n) /\ Loaded(n)' = Loaded(n)
    BY <2>1, LatestAlike
  <2>5. \A n : Named(n)' <=> Named(n)
    BY <2>1 DEF Named
  <2>6. OneName' /\ Latest(0)' = "unlinked"
    BY <1>0, <2>1, <2>4 DEF OneName, NamesLead
  <2>7. ASSUME NEW n \in Ino \ {0}
        PROVE  /\ Named(n)' => Latest(n)' = "linked"
               /\ Latest(n)' = "unlinked" => Loaded(n)' # {}
               /\ Latest(n)' = "linked" /\ ~ Named(n)' => n \in nameless'
               /\ n \in nameless' => Latest(n)' = "linked" /\ ~ Named(n)'
    BY <1>0, <2>1, <2>2, <2>3, <2>4, <2>5 DEF NamesLead
  <2> QED
    BY <2>6, <2>7 DEF NamesLead
<1> QED
  BY <1>1, <1>2, <1>3, <1>4, <1>5

-----------------------------------------------------------------------------
(***************************************************************************)
(* Free inodes in memory.                                                  *)
(***************************************************************************)
\* What IGet reads from the disk is in use, unless IAlloc asks.
LEMMA FilledIsUsed ==
  ASSUME NEW s \in Thread, TypeOK, Call(s), Uses(s), Copies(s), LatestFacts, NamesLead(s), Aims(s),
         pc[s] = "fill"
  PROVE  goal[s] = "alloc" \/ dinode[want[s]] # "free"
<1>1. /\ ent[s] \in Entry /\ count[ent[s]] = 0 /\ number[ent[s]] = want[s] /\ want[s] \in Ino
      /\ ent[s] # 0 /\ want[s] # -1 /\ goal[s] \notin Begins
  BY Consts DEF Starting, Call, OnEntry, Copies, TypeOK, Uses
<1>2. \A x \in Entry : x # ent[s] => number[x] # want[s]
  BY <1>1 DEF Copies
<1>3. want[s] # 0
  BY <1>1, <1>2, Consts DEF Copies
<1>4. Latest(want[s]) = dinode[want[s]]
  BY <1>1, <1>2 DEF LatestFacts
<1>5. goal[s] = "alloc" \/ Named(want[s])
  <2>1. CASE goal[s] = "victim"
    <3>1. kept[s] # NoOne /\ kept[s] \in Entry /\ slot[s] \in Slot
      BY <2>1 DEF Call, InGet, TypeOK
    <3> QED
      BY <2>1, <3>1 DEF Aims, InGet, Named
  <2>2. CASE goal[s] \in {"file", "search"}
    BY <1>3, <2>2 DEF Aims, Going
  <2> QED
    BY <1>1, <2>1, <2>2 DEF TypeOK
<1> QED
  BY <1>1, <1>3, <1>4, <1>5 DEF NamesLead

LEMMA IGetFreeOnes ==
  ASSUME NEW s \in Thread, TypeOK, TypeOK', Call(s), Uses(s), Copies(s), LatestFacts,
         NamesLead(s), FreeOnes(s), Aims(s),
         IGetStep(s)
  PROVE  FreeOnes(s)'
<1> USE Consts DEF TypeOK, Call, OnEntry, InPut, InGet, Refers, Goto, Go, Done, Take, IPut, Lock,
                   NFrele, tableVars, diskVars, ctlVars, userVars, Uses, Copies, Cleared, FreeOnes
<1>1. CASE GetLoaded(s)
  BY <1>1 DEF GetLoaded
<1>2. CASE GetLock(s)
  BY <1>2 DEF GetLock
<1>3. CASE GetName(s)
  <2> DEFINE e == ent[s]
  <2>1. /\ e \in Entry /\ count[e] = 0 /\ pc[s] = "name" /\ pc'[s] = "fill"
        /\ count' = count /\ node' = node /\ dinode' = dinode
        /\ number' = [number EXCEPT ![e] = want[s]] /\ upd' = [upd EXCEPT ![e] = FALSE]
    BY <1>3 DEF GetName
  <2> HIDE DEF Call, Uses, Copies, e
  <2> QED
    BY <2>1
<1>4. CASE GetFill(s)
  <2>0. ent' = ent /\ goal' = goal
    <3>1. Starting(s) /\ Return(s) /\ pc[s] = "fill"
      BY <1>4 DEF GetFill
    <3> HIDE DEF TypeOK, Copies, Uses, Call
    <3> QED
      BY <3>1, ReturnKeeps DEF Starting
  <2>1. /\ ent[s] \in Entry /\ count[ent[s]] = 0 /\ number[ent[s]] = want[s] /\ want[s] \in Ino
        /\ pc[s] = "fill" /\ pc'[s] = "held" /\ goal' = goal /\ ent' = ent /\ number' = number
        /\ count' = [count EXCEPT ![ent[s]] = @ + 1] /\ count \in [Entry -> Nat]
        /\ node' = [node EXCEPT ![ent[s]] = dinode[want[s]]]
    BY <1>4, <2>0 DEF GetFill
  <2>2. goal[s] = "alloc" \/ dinode[want[s]] # "free"
    BY <2>1, FilledIsUsed
  <2>3. \A x \in Entry : count'[x] = IF x = ent[s] THEN 1 ELSE count[x]
    BY <2>1
  <2> HIDE DEF Call, Uses, Copies
  <2> QED
    BY <2>1, <2>2, <2>3
<1>5. CASE GetNone(s)
  BY <1>5 DEF GetNone, TableFull
<1>6. CASE GetNoVictim(s)
  BY <1>6 DEF GetNoVictim, TableFull
<1>7. CASE GetUnloaded(s)
  BY <1>7 DEF GetUnloaded
<1>8. CASE GetFree(s)
  BY <1>8 DEF GetFree
<1> QED
  BY <1>1, <1>2, <1>3, <1>4, <1>5, <1>6, <1>7, <1>8 DEF IGetStep

LEMMA IPutFreeOnes ==
  ASSUME NEW s \in Thread, TypeOK, TypeOK', Call(s), Uses(s), Copies(s), LatestFacts,
         NamesLead(s), FreeOnes(s), Aims(s),
         IPutStep(s)
  PROVE  FreeOnes(s)'
<1> USE Consts DEF TypeOK, Call, OnEntry, InPut, InGet, Refers, Goto, Go, Done, Take, IPut, Lock,
                   NFrele, tableVars, diskVars, ctlVars, userVars, Uses, Copies, Cleared, FreeOnes
<1>1. CASE PutLast(s)
  <2>1. /\ ent[s] \in Entry /\ pc'[s] = "last" /\ ent' = ent
        /\ number' = number /\ count' = count /\ pc[s] = "put"
    BY <1>1 DEF PutLast
  <2>2. \/ node' = node /\ node[ent[s]] # "unlinked"
        \/ node' = [node EXCEPT ![ent[s]] = Freed]
    BY <1>1 DEF PutLast
  <2> HIDE DEF Call, Uses, Copies
  <2> QED
    BY <2>1, <2>2 DEF Freed
<1>2. CASE PutWrite(s)
  BY <1>2 DEF PutWrite, IUpdate
<1>3. CASE PutRelease(s)
  BY <1>3 DEF PutRelease
<1>4. CASE PutClear(s)
  BY <1>4 DEF PutClear
<1>5. CASE PutShared(s)
  BY <1>5 DEF PutShared
<1>6. CASE PutDec(s)
  BY <1>6 DEF PutDec
<1> QED
  BY <1>1, <1>2, <1>3, <1>4, <1>5, <1>6 DEF IPutStep

LEMMA IAllocFreeOnes ==
  ASSUME NEW s \in Thread, TypeOK, TypeOK', Call(s), Uses(s), Copies(s), LatestFacts,
         NamesLead(s), FreeOnes(s), Aims(s),
         IAllocStep(s)
  PROVE  FreeOnes(s)'
<1> USE Consts DEF TypeOK, Call, OnEntry, InPut, InGet, Refers, Goto, Go, Done, Take, IPut, Lock,
                   NFrele, tableVars, diskVars, ctlVars, userVars, Uses, Copies, Cleared, FreeOnes
<1>1. CASE IAllocScan(s)
  BY <1>1 DEF IAllocScan
<1>2. CASE IAllocNone(s)
  BY <1>2 DEF IAllocNone
<1>3. CASE IAllocPop(s)
  BY <1>3 DEF IAllocPop
<1>4. CASE IAllocBelow(s)
  BY <1>4 DEF IAllocBelow
<1>5. CASE IAllocTaken(s)
  BY <1>5 DEF IAllocTaken
<1>6. CASE MakNode(s)
  BY <1>6 DEF MakNode
<1>7. CASE WriteDir(s)
  BY <1>7 DEF WriteDir
<1>8. CASE WriteDirFull(s)
  BY <1>8 DEF WriteDirFull
<1> QED
  BY <1>1, <1>2, <1>3, <1>4, <1>5, <1>6, <1>7, <1>8 DEF IAllocStep

LEMMA SessionFreeOnes ==
  ASSUME NEW s \in Thread, TypeOK, TypeOK', Call(s), Uses(s), Copies(s), LatestFacts,
         NamesLead(s), FreeOnes(s), Aims(s),
         SessionStep(s)
  PROVE  FreeOnes(s)'
<1> USE Consts DEF TypeOK, Call, OnEntry, InPut, InGet, Refers, Goto, Go, Done, Take, IPut, Lock,
                   NFrele, tableVars, diskVars, ctlVars, userVars, Uses, Copies, Cleared, FreeOnes
<1>1. CASE NameI(s)
  BY <1>1 DEF NameI
<1>2. CASE Walk(s)
  BY <1>2 DEF Walk, Searching
<1>3. CASE NewName(s)
  BY <1>3 DEF NewName, Searching
<1>4. CASE Victim(s)
  BY <1>4 DEF Victim, Searching
<1>5. CASE UnLink(s)
  <2>1. /\ pc[s] = "held" /\ goal[s] = "victim" /\ number' = number /\ count' = count
        /\ node' = [node EXCEPT ![ent[s]] = "unlinked"] /\ pc'[s] = "put"
    BY <1>5 DEF UnLink
  <2> HIDE DEF Call, Uses, Copies
  <2> QED
    BY <2>1
<1>6. CASE Open1(s)
  <2>1. node' = node
    BY <1>6, TruncatedHasName DEF Open1, Found
  <2> QED
    BY <1>6, <2>1 DEF Open1, Found
<1>7. CASE Open1Fails(s)
  <2>1. node' = node
    BY <1>7, TruncatedHasName DEF Open1Fails, Found
  <2> QED
    BY <1>7, <2>1 DEF Open1Fails, Found
<1>8. CASE GiveUp(s)
  BY <1>8 DEF GiveUp, Found
<1>9. CASE ChDir(s)
  BY <1>9 DEF ChDir, Found
<1>10. CASE ChDirEnd(s)
  BY <1>10 DEF ChDirEnd
<1>11. CASE Close(s)
  BY <1>11 DEF Close
<1>12. CASE Rdwr(s)
  BY <1>12 DEF Rdwr
<1>13. CASE RdwrLock(s)
  BY <1>13 DEF RdwrLock
<1>14. CASE RdwrEnd(s)
  BY <1>14 DEF RdwrEnd
<1> QED
  BY <1>1, <1>2, <1>3, <1>4, <1>5, <1>6, <1>7, <1>8, <1>9, <1>10, <1>11, <1>12, <1>13, <1>14 DEF SessionStep

LEMMA UpdateFreeOnes ==
  ASSUME NEW s \in Thread, TypeOK, TypeOK', Call(s), Uses(s), Copies(s), LatestFacts,
         NamesLead(s), FreeOnes(s), Aims(s),
         UpdateStep(s)
  PROVE  FreeOnes(s)'
<1> USE Consts DEF TypeOK, Call, OnEntry, InPut, InGet, Refers, Goto, Go, Done, Take, IPut, Lock,
                   NFrele, tableVars, diskVars, ctlVars, userVars, Uses, Copies, Cleared, FreeOnes
<1>1. CASE Update(s)
  BY <1>1 DEF Update
<1>2. CASE UpdateSkip(s)
  BY <1>2 DEF UpdateSkip
<1>3. CASE UpdateTake(s)
  BY <1>3 DEF UpdateTake
<1>4. CASE UpdateSync(s)
  BY <1>4 DEF UpdateSync, IUpdate
<1>5. CASE UpdateEnd(s)
  BY <1>5 DEF UpdateEnd
<1> QED
  BY <1>1, <1>2, <1>3, <1>4, <1>5 DEF UpdateStep

-----------------------------------------------------------------------------
(***************************************************************************)
(* The list.                                                               *)
(***************************************************************************)
LEMMA ListStays ==
  ASSUME NEW s \in Thread, Steps(s), ~ PutLast(s), ~ IAllocScan(s), ~ IAllocPop(s)
  PROVE  sInode' = sInode
<1> USE DEF diskVars
<1>1. CASE IGetStep(s)
  BY <1>1 DEF IGetStep, GetLoaded, GetLock, GetUnloaded, GetFree, GetName,
                    GetFill, GetNone, GetNoVictim
<1>2. CASE IPutStep(s)
  BY <1>2 DEF IPutStep, PutWrite, PutRelease, PutClear, PutShared, PutDec
<1>3. CASE IAllocStep(s)
  BY <1>3 DEF IAllocStep, IAllocNone, IAllocBelow, IAllocTaken, MakNode, WriteDir,
              WriteDirFull
<1>4. CASE SessionStep(s)
  BY <1>4 DEF SessionStep, NameI, Walk, NewName, Victim, UnLink, Open1, Open1Fails, GiveUp,
              ChDir, ChDirEnd, Close, Rdwr, RdwrLock, RdwrEnd
<1>5. CASE UpdateStep(s)
  BY <1>5 DEF UpdateStep, Update, UpdateSkip, UpdateTake, UpdateSync, UpdateEnd
<1> QED
  BY <1>1, <1>2, <1>3, <1>4, <1>5 DEF Steps

\* IFree lists an inode that was still in use, so not in the list.
LEMMA PutLastListed ==
  ASSUME NEW s \in Thread, TypeOK, TypeOK', Call(s), Uses(s), Copies(s), LatestFacts, LatestFacts',
         NamesLead(s), ListedAreFree, PutLast(s)
  PROVE  ListedAreFree'
<1>0. sInode \in Seq(Ino) /\ \A i \in DOMAIN sInode : sInode[i] \in Ino
  BY DEF TypeOK
<1>1. CASE node[ent[s]] # "unlinked"
  <2>1. sInode' = sInode /\ UNCHANGED <<number, count, node, dinode>>
    BY <1>1 DEF PutLast
  <2>2. \A n \in Ino : Latest(n)' = Latest(n)
    BY <2>1, LatestAlike
  <2>3. \A i \in DOMAIN sInode : sInode[i] # 0 => Latest(sInode[i]) = "free"
    BY DEF ListedAreFree
  <2>4. ASSUME NEW i \in DOMAIN sInode', sInode'[i] # 0, NEW n \in Ino, n = sInode'[i]
        PROVE  Latest(n)' = "free"
    BY <2>1, <2>2, <2>3, <2>4
  <2> QED
    BY <1>0, <2>1, <2>4 DEF ListedAreFree
<1>2. CASE node[ent[s]] = "unlinked"
  <2> DEFINE e == number[ent[s]]
  <2>1. /\ ent[s] \in Entry /\ ent[s] # 0 /\ count[ent[s]] = 1 /\ e \in Ino
    BY DEF PutLast, Goto, Call, OnEntry, InPut, Uses, Refers, Copies, Cleared
  <2>2. e # 0
    BY <2>1, RootHeld
  <2>3. Latest(e) = "unlinked"
    BY <1>2, <2>1 DEF LatestFacts
  <2>4. \A n \in Ino : Latest(n)' = IF n = e THEN "free" ELSE Latest(n)
    BY <1>2, PutLastBecomes DEF Becomes
  <2>5. sInode' = sInode \/ (Len(sInode) < NLISTED /\ sInode' = Append(sInode, e))
    BY <1>2 DEF PutLast, Listed
  <2> HIDE DEF e
  <2>6. /\ \A i \in DOMAIN sInode : sInode[i] # 0 => Latest(sInode[i]) = "free"
        /\ \A i, j \in DOMAIN sInode : sInode[i] = sInode[j] => i = j
        /\ Len(sInode) <= NLISTED
    BY DEF ListedAreFree
  <2>7. \A i \in DOMAIN sInode : sInode[i] # e
    BY <2>2, <2>3, <2>6
  <2>8. \A n \in Ino : Latest(n) = "free" => Latest(n)' = "free"
    BY <2>4
  <2>9. CASE sInode' = sInode
    <3>1. ASSUME NEW i \in DOMAIN sInode', sInode'[i] # 0, NEW n \in Ino, n = sInode'[i]
          PROVE  Latest(n)' = "free"
      BY <2>6, <2>8, <2>9, <3>1
    <3> QED
      BY <1>0, <2>6, <2>9, <3>1 DEF ListedAreFree
  <2>10. CASE Len(sInode) < NLISTED /\ sInode' = Append(sInode, e)
    <3>1. /\ DOMAIN sInode' = 1 .. Len(sInode) + 1 /\ Len(sInode') = Len(sInode) + 1
          /\ DOMAIN sInode = 1 .. Len(sInode) /\ Len(sInode) \in Nat
          /\ \A i \in 1 .. Len(sInode) + 1 : sInode'[i] = IF i = Len(sInode) + 1 THEN e ELSE sInode[i]
      BY <1>0, <2>1, <2>10
    <3>2. ASSUME NEW i \in DOMAIN sInode', sInode'[i] # 0, NEW n \in Ino, n = sInode'[i]
          PROVE  Latest(n)' = "free"
      <4>1. CASE i = Len(sInode) + 1
        BY <2>4, <3>1, <3>2, <4>1
      <4>2. CASE i # Len(sInode) + 1
        <5>1. i \in DOMAIN sInode /\ n = sInode[i]
          BY <3>1, <3>2, <4>2
        <5> QED
          BY <2>6, <2>8, <3>2, <5>1
      <4> QED
        BY <4>1, <4>2
    <3>3. ASSUME NEW i \in DOMAIN sInode', NEW j \in DOMAIN sInode', sInode'[i] = sInode'[j]
          PROVE  i = j
      BY <2>6, <2>7, <3>1, <3>3
    <3>4. Len(sInode') <= NLISTED
      BY <2>10, <3>1, InodeAssumption
    <3>5. \A i \in DOMAIN sInode' : sInode'[i] \in Ino
      BY <1>0, <2>1, <3>1
    <3> QED
      BY <3>2, <3>3, <3>4, <3>5 DEF ListedAreFree
  <2> QED
    BY <2>5, <2>9, <2>10
<1> QED
  BY <1>1, <1>2

\* The scan starts from an empty list, and lists what is free on the disk and has
\* no copy in memory.
LEMMA ScanListed ==
  ASSUME NEW s \in Thread, TypeOK, TypeOK', LatestFacts, LatestFacts', Popping(s), IAllocScan(s)
  PROVE  ListedAreFree'
<1>1. sInode = <<>> /\ sInode' = sInode \o Collected /\ UNCHANGED <<number, count, node, dinode>>
  BY DEF IAllocScan, Popping, Goto, tableVars
<1>2. /\ Collected \in Seq(FreeOnDisk)
      /\ \A i, j \in DOMAIN Collected : Collected[i] = Collected[j] => i = j
      /\ Len(Collected) <= NLISTED
  <2>1. Len(sInode) = 0 /\ NLISTED \in Nat \ {0} /\ NLISTED - 0 = NLISTED
    BY <1>1, InodeAssumption
  <2> QED
    BY <2>1, CollectedIs DEF TypeOK
<1>3. sInode' = Collected
  BY <1>1, <1>2
<1>4. \A n \in FreeOnDisk : n \in Ino /\ Latest(n) = "free"
  BY DEF FreeOnDisk, Latest
<1>5. \A n \in Ino : Latest(n)' = Latest(n)
  BY <1>1, LatestAlike
<1> HIDE DEF Collected
<1>6. ASSUME NEW i \in DOMAIN sInode', NEW n \in Ino, n = sInode'[i] PROVE Latest(n)' = "free"
  <2>1. n \in FreeOnDisk
    BY <1>2, <1>3, <1>6
  <2> QED
    BY <1>4, <1>5, <2>1
<1>7. \A i \in DOMAIN sInode' : sInode'[i] \in Ino
  BY DEF TypeOK
<1> QED
  BY <1>2, <1>3, <1>6, <1>7 DEF ListedAreFree

LEMMA PopListed ==
  ASSUME NEW s \in Thread, TypeOK, TypeOK', LatestFacts, LatestFacts', ListedAreFree, IAllocPop(s)
  PROVE  /\ ListedAreFree'
         /\ want'[s] \in Ino
         /\ want'[s] # 0 => \A n \in Ino : n = want'[s] =>
              Latest(n)' = "free" /\ \A i \in DOMAIN sInode' : sInode'[i] # n
<1>1. /\ sInode # <<>> /\ sInode' = Front(sInode) /\ want'[s] = Last(sInode)
      /\ UNCHANGED <<number, count, node, dinode>> /\ sInode \in Seq(Ino)
  BY DEF IAllocPop, Take, TypeOK, tableVars
<1>2. \A n \in Ino : Latest(n)' = Latest(n)
  BY <1>1, LatestAlike
<1>3. /\ Len(sInode) \in Nat \ {0} /\ DOMAIN sInode = 1 .. Len(sInode)
      /\ DOMAIN sInode' = 1 .. Len(sInode) - 1 /\ Len(sInode') = Len(sInode) - 1
      /\ \A i \in 1 .. Len(sInode) - 1 : sInode'[i] = sInode[i]
      /\ want'[s] = sInode[Len(sInode)] /\ \A i \in DOMAIN sInode : sInode[i] \in Ino
  <2>1. Len(sInode) \in Nat \ {0} /\ DOMAIN sInode = 1 .. Len(sInode)
    BY <1>1
  <2>2. sInode' = SubSeq(sInode, 1, Len(sInode) - 1) /\ want'[s] = sInode[Len(sInode)]
    BY <1>1 DEF Front, Last
  <2>3. /\ DOMAIN sInode' = 1 .. Len(sInode) - 1 /\ Len(sInode') = Len(sInode) - 1
        /\ \A i \in 1 .. Len(sInode) - 1 : sInode'[i] = sInode[i]
    BY <1>1, <2>1, <2>2
  <2>4. \A i \in DOMAIN sInode : sInode[i] \in Ino
    BY <1>1
  <2> QED
    BY <2>1, <2>2, <2>3, <2>4
<1>4. /\ \A i \in DOMAIN sInode : sInode[i] # 0 => Latest(sInode[i]) = "free"
      /\ \A i, j \in DOMAIN sInode : sInode[i] = sInode[j] => i = j
      /\ Len(sInode) <= NLISTED
  BY DEF ListedAreFree
<1>5. ASSUME NEW i \in DOMAIN sInode', sInode'[i] # 0, NEW n \in Ino, n = sInode'[i]
      PROVE  Latest(n)' = "free"
  <2>1. i \in DOMAIN sInode /\ sInode[i] = n /\ n # 0
    BY <1>3, <1>5
  <2> QED
    BY <1>2, <1>4, <2>1
<1>6. \A i \in DOMAIN sInode' : sInode'[i] \in Ino
  BY <1>3
<1>7. \A i, j \in DOMAIN sInode' : sInode'[i] = sInode'[j] => i = j
  BY <1>3, <1>4
<1>8. Len(sInode') <= NLISTED
  BY <1>3, <1>4, InodeAssumption
<1>9. ListedAreFree'
  BY <1>5, <1>6, <1>7, <1>8 DEF ListedAreFree
<1>10. ASSUME want'[s] # 0, NEW n \in Ino, n = want'[s]
       PROVE  Latest(n)' = "free" /\ \A i \in DOMAIN sInode' : sInode'[i] # n
  <2>1. Len(sInode) \in DOMAIN sInode /\ sInode[Len(sInode)] = n /\ n # 0
    BY <1>3, <1>10
  <2>2. Latest(n) = "free"
    BY <1>4, <2>1
  <2>3. \A i \in DOMAIN sInode' : i \in DOMAIN sInode /\ i # Len(sInode) /\ sInode'[i] = sInode[i]
    BY <1>3
  <2> QED
    BY <1>2, <1>4, <2>1, <2>2, <2>3
<1>11. want'[s] \in Ino
  BY DEF TypeOK
<1> QED
  BY <1>9, <1>10, <1>11

\* An inode that the step leaves free, or does not touch, stays as it is in the list.
LEMMA SameListed ==
  ASSUME TypeOK, sInode' = sInode, ListedAreFree,
         \A n \in Ino \ {0} : (\E i \in DOMAIN sInode : sInode[i] = n) => Latest(n)' = Latest(n)
  PROVE  ListedAreFree'
<1>1. \A i \in DOMAIN sInode : sInode[i] \in Ino
  BY DEF TypeOK
<1>2. /\ \A i \in DOMAIN sInode : sInode[i] # 0 => Latest(sInode[i]) = "free"
      /\ \A i, j \in DOMAIN sInode : sInode[i] = sInode[j] => i = j
      /\ Len(sInode) <= NLISTED
  BY DEF ListedAreFree
<1>3. ASSUME NEW i \in DOMAIN sInode', sInode'[i] # 0, NEW n \in Ino, n = sInode'[i]
      PROVE  Latest(n)' = "free"
  BY <1>2, <1>3
<1> QED
  BY <1>1, <1>2, <1>3 DEF ListedAreFree

LEMMA ListedNext ==
  ASSUME NEW s \in Thread, TypeOK, TypeOK', Call(s), Uses(s), Copies(s), Saved(s),
         LatestFacts, LatestFacts', Fates(s), Listing(s), Aims(s), Moved(s), Steps(s)
  PROVE  ListedAreFree'
<1>0. OneName /\ NamesLead(s) /\ ListedAreFree /\ Popping(s)
  BY DEF Fates, Listing
<1>1. CASE PutLast(s)
  BY <1>0, <1>1, PutLastListed
<1>2. CASE IAllocScan(s)
  BY <1>0, <1>2, ScanListed
<1>3. CASE IAllocPop(s)
  BY <1>0, <1>3, PopListed
<1>4. CASE ~ PutLast(s) /\ ~ IAllocScan(s) /\ ~ IAllocPop(s)
  <2>1. sInode' = sInode
    BY <1>4, ListStays
  <2>2. \A i \in DOMAIN sInode : sInode[i] # 0 => Latest(sInode[i]) = "free"
    BY <1>0 DEF ListedAreFree
  <2>3. CASE UnLink(s) /\ Becomes(s, "unlinked")
    <3>1. want[s] \in Ino \ {0} /\ number[ent[s]] = want[s] /\ Named(want[s])
      BY <1>0, <2>3, UnLinkNames
    <3>2. Latest(want[s]) = "linked"
      BY <1>0, <3>1 DEF NamesLead
    <3>3. \A n \in Ino \ {0} : (\E i \in DOMAIN sInode : sInode[i] = n) => Latest(n)' = Latest(n)
      BY <2>2, <2>3, <3>1, <3>2 DEF Becomes
    <3> QED
      BY <1>0, <2>1, <3>3, SameListed
  <2>4. CASE MakNode(s) /\ Becomes(s, "linked")
    <3>1. /\ pc[s] = "held" /\ goal[s] = "alloc" /\ want[s] \in Ino /\ number[ent[s]] = want[s]
      BY <2>4 DEF MakNode, Goto, Copies, TypeOK
    <3>2. \A n \in Ino \ {0} : n = want[s] => \A i \in DOMAIN sInode : sInode[i] # n
      BY <1>0, <3>1 DEF Popping, InGet
    <3>3. \A n \in Ino \ {0} : (\E i \in DOMAIN sInode : sInode[i] = n) => Latest(n)' = Latest(n)
      BY <2>4, <3>1, <3>2 DEF Becomes
    <3> QED
      BY <1>0, <2>1, <3>3, SameListed
  <2>5. CASE \A n \in Ino : Latest(n)' = Latest(n)
    BY <1>0, <2>1, <2>5, SameListed
  <2> QED
    BY <1>4, <2>3, <2>4, <2>5 DEF Moved
<1> QED
  BY <1>1, <1>2, <1>3, <1>4

LEMMA IGetPopping ==
  ASSUME NEW s \in Thread, TypeOK, TypeOK', Call(s), Uses(s), Copies(s), LatestFacts, LatestFacts',
         ListedAreFree, Popping(s), Moved(s),
         IGetStep(s)
  PROVE  Popping(s)'
<1> USE Consts DEF TypeOK, Call, OnEntry, InPut, InGet, Refers, Goto, Go, Done, Take, IPut, Lock,
                   NFrele, tableVars, diskVars, ctlVars, userVars, Uses, Copies, Cleared, Popping, Moved
<1>1. CASE GetLoaded(s)
  <2>1. /\ pc[s] = "get" /\ pc'[s] = "wait" /\ goal' = goal /\ want' = want /\ sInode' = sInode
    BY <1>1 DEF GetLoaded
  <2>2. \A n \in Ino : Latest(n)' = Latest(n)
    BY <2>1 DEF Moved, PutLast, UnLink, MakNode
  <2> HIDE DEF TypeOK, Call, Uses, Copies, Moved
  <2> QED
    BY <2>1, <2>2
<1>2. CASE GetLock(s)
  <2>1. /\ pc[s] = "wait" /\ pc'[s] = "held" /\ want' = want /\ sInode' = sInode
        /\ goal'[s] = "alloc" => goal[s] = "alloc"
    BY <1>2 DEF GetLock, Return
  <2>2. \A n \in Ino : Latest(n)' = Latest(n)
    BY <2>1 DEF Moved, PutLast, UnLink, MakNode
  <2> HIDE DEF TypeOK, Call, Uses, Copies, Moved
  <2> QED
    BY <2>1, <2>2
<1>3. CASE GetName(s)
  <2>1. /\ pc[s] = "name" /\ pc'[s] = "fill" /\ goal' = goal /\ want' = want /\ sInode' = sInode
    BY <1>3 DEF GetName
  <2>2. \A n \in Ino : Latest(n)' = Latest(n)
    BY <2>1 DEF Moved, PutLast, UnLink, MakNode
  <2> HIDE DEF TypeOK, Call, Uses, Copies, Moved
  <2> QED
    BY <2>1, <2>2
<1>4. CASE GetFill(s)
  <2>1. /\ pc[s] = "fill" /\ pc'[s] = "held" /\ want' = want /\ sInode' = sInode
        /\ goal'[s] = "alloc" => goal[s] = "alloc"
    BY <1>4 DEF GetFill, Return
  <2>2. \A n \in Ino : Latest(n)' = Latest(n)
    BY <2>1 DEF Moved, PutLast, UnLink, MakNode
  <2> HIDE DEF TypeOK, Call, Uses, Copies, Moved
  <2> QED
    BY <2>1, <2>2
<1>5. CASE GetNone(s)
  BY <1>5 DEF GetNone, TableFull
<1>6. CASE GetNoVictim(s)
  BY <1>6 DEF GetNoVictim, TableFull
<1>7. CASE GetUnloaded(s)
  <2>1. /\ pc[s] = "get" /\ pc'[s] = "find" /\ goal' = goal /\ want' = want /\ sInode' = sInode
    BY <1>7 DEF GetUnloaded
  <2>2. \A n \in Ino : Latest(n)' = Latest(n)
    BY <2>1 DEF Moved, PutLast, UnLink, MakNode
  <2> HIDE DEF TypeOK, Call, Uses, Copies, Moved
  <2> QED
    BY <2>1, <2>2
<1>8. CASE GetFree(s)
  <2>1. /\ pc[s] = "find" /\ pc'[s] = "name" /\ goal' = goal /\ want' = want /\ sInode' = sInode
    BY <1>8 DEF GetFree
  <2>2. \A n \in Ino : Latest(n)' = Latest(n)
    BY <2>1 DEF Moved, PutLast, UnLink, MakNode
  <2> HIDE DEF TypeOK, Call, Uses, Copies, Moved
  <2> QED
    BY <2>1, <2>2
<1> QED
  BY <1>1, <1>2, <1>3, <1>4, <1>5, <1>6, <1>7, <1>8 DEF IGetStep

LEMMA IPutPopping ==
  ASSUME NEW s \in Thread, TypeOK, TypeOK', Call(s), Uses(s), Copies(s), LatestFacts, LatestFacts',
         ListedAreFree, Popping(s), Moved(s),
         IPutStep(s)
  PROVE  Popping(s)'
<1> USE Consts DEF TypeOK, Call, OnEntry, InPut, InGet, Refers, Goto, Go, Done, Take, IPut, Lock,
                   NFrele, tableVars, diskVars, ctlVars, userVars, Uses, Copies, Cleared, Popping, Moved
<1>1. CASE PutLast(s)
  BY <1>1 DEF PutLast
<1>2. CASE PutWrite(s)
  BY <1>2 DEF PutWrite, IUpdate
<1>3. CASE PutRelease(s)
  BY <1>3 DEF PutRelease
<1>4. CASE PutClear(s)
  BY <1>4 DEF PutClear
<1>5. CASE PutShared(s)
  BY <1>5 DEF PutShared
<1>6. CASE PutDec(s)
  <2>1. pc[s] = "dec" /\ sInode' = sInode
    BY <1>6 DEF PutDec
  <2> HIDE DEF Uses, Copies, Moved
  <2>2. CASE then[s] = "idle"
    BY <1>6, <2>1, <2>2 DEF PutDec
  <2>3. CASE then[s] \in {"get", "pop"}
    <3>1. pc'[s] = then[s] /\ goal' = goal /\ want' = want /\ then' = then
      BY <1>6, <2>3 DEF PutDec
    <3>2. then[s] = "get" => goal[s] # "alloc"
      BY <2>1
    <3> QED
      BY <2>1, <2>3, <3>1, <3>2
  <2>4. CASE then[s] \in {"file", "put", "chdir"}
    <3>1. /\ then'[s] = "idle" /\ pc'[s] = IF then[s] = "file" THEN "held" ELSE then[s]
          /\ then[s] = "file" => goal'[s] = "file"
      BY <1>6, <2>4 DEF PutDec
    <3> QED
      BY <2>1, <2>4, <3>1
  <2> QED
    BY <2>2, <2>3, <2>4
<1> QED
  BY <1>1, <1>2, <1>3, <1>4, <1>5, <1>6 DEF IPutStep

LEMMA IAllocPopping ==
  ASSUME NEW s \in Thread, TypeOK, TypeOK', Call(s), Uses(s), Copies(s), LatestFacts, LatestFacts',
         ListedAreFree, Popping(s), Moved(s),
         IAllocStep(s)
  PROVE  Popping(s)'
<1> USE Consts DEF TypeOK, Call, OnEntry, InPut, InGet, Refers, Goto, Go, Done, Take, IPut, Lock,
                   NFrele, tableVars, diskVars, ctlVars, userVars, Uses, Copies, Cleared, Popping, Moved
<1>1. CASE IAllocScan(s)
  BY <1>1 DEF IAllocScan
<1>2. CASE IAllocNone(s)
  BY <1>2 DEF IAllocNone
<1>3. CASE IAllocPop(s)
  <2>1. /\ want'[s] # 0 => \A n \in Ino : n = want'[s] =>
              Latest(n)' = "free" /\ \A i \in DOMAIN sInode' : sInode'[i] # n
        /\ pc'[s] = "get"
    BY <1>3, PopListed DEF IAllocPop
  <2> QED
    BY <2>1
<1>4. CASE IAllocBelow(s)
  BY <1>4 DEF IAllocBelow
<1>5. CASE IAllocTaken(s)
  <2>1. /\ pc[s] = "held" /\ goal[s] = "alloc" /\ goal' = goal /\ want' = want /\ pc'[s] = "put"
        /\ node[ent[s]] # "free"
    BY <1>5 DEF IAllocTaken
  <2>2. /\ ent[s] \in Entry /\ count[ent[s]] # 0 /\ number[ent[s]] = want[s] /\ want[s] \in Ino
    BY <2>1
  <2> HIDE DEF Call, Uses, Copies, Moved
  <2>4. Latest(want[s]) = node[ent[s]]
    <3> HIDE DEF TypeOK, Popping, OnEntry, InPut, InGet, Refers
    <3> QED
      BY <2>2 DEF LatestFacts
  <2>5. want[s] # 0 => Latest(want[s]) = "free"
    <3> HIDE DEF TypeOK
    <3> QED
      BY <2>1, <2>2
  <2>3. want[s] = 0
    BY <2>1, <2>4, <2>5
  <2> QED
    BY <2>1, <2>3
<1>6. CASE MakNode(s)
  BY <1>6 DEF MakNode
<1>7. CASE WriteDir(s)
  BY <1>7 DEF WriteDir
<1>8. CASE WriteDirFull(s)
  BY <1>8 DEF WriteDirFull
<1> QED
  BY <1>1, <1>2, <1>3, <1>4, <1>5, <1>6, <1>7, <1>8 DEF IAllocStep

LEMMA SessionPopping ==
  ASSUME NEW s \in Thread, TypeOK, TypeOK', Call(s), Uses(s), Copies(s), LatestFacts, LatestFacts',
         ListedAreFree, Popping(s), Moved(s),
         SessionStep(s)
  PROVE  Popping(s)'
<1> USE Consts DEF TypeOK, Call, OnEntry, InPut, InGet, Refers, Goto, Go, Done, Take, IPut, Lock,
                   NFrele, tableVars, diskVars, ctlVars, userVars, Uses, Copies, Cleared, Popping, Moved
<1>1. CASE NameI(s)
  BY <1>1 DEF NameI
<1>2. CASE Walk(s)
  BY <1>2 DEF Walk, Searching
<1>3. CASE NewName(s)
  <2>1. /\ pc'[s] = IF sInode = <<>> THEN "scan" ELSE "pop"
        /\ sInode' = sInode
    BY <1>3 DEF NewName
  <2> QED
    BY <2>1
<1>4. CASE Victim(s)
  BY <1>4 DEF Victim, Searching
<1>5. CASE UnLink(s)
  BY <1>5 DEF UnLink
<1>6. CASE Open1(s)
  BY <1>6 DEF Open1, Found
<1>7. CASE Open1Fails(s)
  BY <1>7 DEF Open1Fails, Found
<1>8. CASE GiveUp(s)
  BY <1>8 DEF GiveUp, Found
<1>9. CASE ChDir(s)
  BY <1>9 DEF ChDir, Found
<1>10. CASE ChDirEnd(s)
  BY <1>10 DEF ChDirEnd
<1>11. CASE Close(s)
  BY <1>11 DEF Close
<1>12. CASE Rdwr(s)
  BY <1>12 DEF Rdwr
<1>13. CASE RdwrLock(s)
  BY <1>13 DEF RdwrLock
<1>14. CASE RdwrEnd(s)
  BY <1>14 DEF RdwrEnd
<1> QED
  BY <1>1, <1>2, <1>3, <1>4, <1>5, <1>6, <1>7, <1>8, <1>9, <1>10, <1>11, <1>12, <1>13, <1>14 DEF SessionStep

LEMMA UpdatePopping ==
  ASSUME NEW s \in Thread, TypeOK, TypeOK', Call(s), Uses(s), Copies(s), LatestFacts, LatestFacts',
         ListedAreFree, Popping(s), Moved(s),
         UpdateStep(s)
  PROVE  Popping(s)'
<1> USE Consts DEF TypeOK, Call, OnEntry, InPut, InGet, Refers, Goto, Go, Done, Take, IPut, Lock,
                   NFrele, tableVars, diskVars, ctlVars, userVars, Uses, Copies, Cleared, Popping, Moved
<1>1. CASE Update(s)
  BY <1>1 DEF Update
<1>2. CASE UpdateSkip(s)
  BY <1>2 DEF UpdateSkip
<1>3. CASE UpdateTake(s)
  BY <1>3 DEF UpdateTake
<1>4. CASE UpdateSync(s)
  BY <1>4 DEF UpdateSync, IUpdate
<1>5. CASE UpdateEnd(s)
  BY <1>5 DEF UpdateEnd
<1> QED
  BY <1>1, <1>2, <1>3, <1>4, <1>5 DEF UpdateStep

-----------------------------------------------------------------------------
(***************************************************************************)
(* What the call has found in the directories.                             *)
(***************************************************************************)
Asking == {"get", "wait", "find", "name", "fill"}

\* Within IGet, and within IPut, it stays.
LEMMA AimsKept ==
  ASSUME NEW s \in Thread, TypeOK, Call(s), Aims(s),
         UNCHANGED <<then, want, kept, slot, cdir, dir, nameless>>,
         goal' = goal \/ (goal[s] \in Begins /\ goal'[s] = "search" /\ pc'[s] = "held"),
         kept[s] # NoOne => number'[kept[s]] = number[kept[s]],
         \/ pc[s] \in Asking /\ pc'[s] \in Asking \cup {"held"}
         \/ pc[s] \in InPut /\ pc'[s] \in InPut
  PROVE  Aims(s)'
<1>1. CASE pc[s] \in Asking /\ pc'[s] \in Asking \cup {"held"}
  <2>1. (Creating(s)' => Creating(s)) /\ Going(s)
    BY <1>1 DEF Creating, Going, InGet, InPut, Asking
  <2>2. Creating(s) \/ goal[s] = "victim" => kept[s] # NoOne
    BY <1>1 DEF Creating, Call, InGet, InPut, Asking
  <2> QED
    BY <1>1, <2>1, <2>2 DEF Aims, Going, InGet, InPut, Named, Asking
<1>2. CASE pc[s] \in InPut /\ pc'[s] \in InPut
  <2>1. (Creating(s)' <=> Creating(s)) /\ (Going(s)' <=> Going(s))
    BY <1>2 DEF Creating, Going, InGet, InPut
  <2>2. Creating(s) => kept[s] # NoOne
    BY <1>2 DEF Creating, Call, InGet, InPut
  <2> QED
    BY <1>2, <2>1, <2>2 DEF Aims, InGet, InPut, Named
<1> QED
  BY <1>1, <1>2

LEMMA IGetAims ==
  ASSUME NEW s \in Thread, TypeOK, TypeOK', Call(s), Uses(s), Copies(s), LatestFacts, LatestFacts',
         OneName, NamesLead(s), Popping(s), Aims(s), Moved(s),
         IGetStep(s)
  PROVE  Aims(s)'
<1> USE Consts DEF TypeOK, Call, OnEntry, InPut, InGet, Refers, Goto, Go, Done, Take, IPut, Lock,
                   NFrele, tableVars, diskVars, ctlVars, userVars, Uses, Copies, Cleared, Aims, Going, Creating
<1>1. CASE GetLoaded(s)
  <2>1. /\ UNCHANGED <<goal, then, want, kept, slot, cdir, nameless, dir, number>>
        /\ pc[s] \in Asking /\ pc'[s] \in Asking \cup {"held"}
    BY <1>1 DEF GetLoaded, Asking
  <2> HIDE DEF TypeOK, Call, Uses, Copies, Aims, Going, Creating, InPut, InGet, OnEntry, Refers
  <2> QED
    BY <2>1, AimsKept
<1>2. CASE GetLock(s)
  <2>1. /\ UNCHANGED <<then, want, kept, slot, cdir, nameless, dir, number>>
        /\ pc[s] = "wait" /\ pc'[s] = "held" /\ Return(s) /\ Starting(s)
    BY <1>2 DEF GetLock
  <2> HIDE DEF TypeOK, Call, Uses, Copies, Aims, Going, Creating, InPut, InGet, OnEntry, Refers
  <2>2. goal' = goal \/ (goal[s] \in Begins /\ goal'[s] = "search" /\ pc'[s] = "held")
    BY <2>1, ReturnKeeps
  <2> QED
    BY <2>1, <2>2, AimsKept DEF Asking
<1>3. CASE GetName(s)
  <2> DEFINE e == ent[s]
  <2>1. /\ e \in Entry /\ count[e] = 0 /\ number' = [number EXCEPT ![e] = want[s]]
        /\ pc[s] = "name" /\ pc'[s] = "fill" /\ kept[s] # e
        /\ UNCHANGED <<goal, then, want, kept, slot, cdir, nameless, dir>>
    BY <1>3 DEF GetName
  <2> HIDE DEF e
  <2>2. \A x \in Entry : x # e => number'[x] = number[x]
    BY <2>1
  <2>3. kept[s] # NoOne => kept[s] \in Entry
    OBVIOUS
  <2> HIDE DEF TypeOK, Call, Uses, Copies, Aims, Going, Creating, InPut, InGet, OnEntry, Refers
  <2> QED
    BY <2>1, <2>2, <2>3, AimsKept DEF Asking
<1>4. CASE GetFill(s)
  <2>1. /\ UNCHANGED <<then, want, kept, slot, cdir, nameless, dir, number>>
        /\ pc[s] = "fill" /\ pc'[s] = "held" /\ Return(s) /\ Starting(s)
    BY <1>4 DEF GetFill
  <2> HIDE DEF TypeOK, Call, Uses, Copies, Aims, Going, Creating, InPut, InGet, OnEntry, Refers
  <2>2. goal' = goal \/ (goal[s] \in Begins /\ goal'[s] = "search" /\ pc'[s] = "held")
    BY <2>1, ReturnKeeps
  <2> QED
    BY <2>1, <2>2, AimsKept DEF Asking
<1>5. CASE GetNone(s)
  BY <1>5 DEF GetNone, TableFull
<1>6. CASE GetNoVictim(s)
  BY <1>6 DEF GetNoVictim, TableFull
<1>7. CASE GetUnloaded(s)
  <2>1. /\ UNCHANGED <<goal, then, want, kept, slot, cdir, nameless, dir, number>>
        /\ pc[s] \in Asking /\ pc'[s] \in Asking \cup {"held"}
    BY <1>7 DEF GetUnloaded, Asking
  <2> HIDE DEF TypeOK, Call, Uses, Copies, Aims, Going, Creating, InPut, InGet, OnEntry, Refers
  <2> QED
    BY <2>1, AimsKept
<1>8. CASE GetFree(s)
  <2>1. /\ UNCHANGED <<goal, then, want, kept, slot, cdir, nameless, dir, number>>
        /\ pc[s] \in Asking /\ pc'[s] \in Asking \cup {"held"}
    BY <1>8 DEF GetFree, Asking
  <2> HIDE DEF TypeOK, Call, Uses, Copies, Aims, Going, Creating, InPut, InGet, OnEntry, Refers
  <2> QED
    BY <2>1, AimsKept
<1> QED
  BY <1>1, <1>2, <1>3, <1>4, <1>5, <1>6, <1>7, <1>8 DEF IGetStep

LEMMA IPutAims ==
  ASSUME NEW s \in Thread, TypeOK, TypeOK', Call(s), Uses(s), Copies(s), LatestFacts, LatestFacts',
         OneName, NamesLead(s), Popping(s), Aims(s), Moved(s),
         IPutStep(s)
  PROVE  Aims(s)'
<1> USE Consts DEF TypeOK, Call, OnEntry, InPut, InGet, Refers, Goto, Go, Done, Take, IPut, Lock,
                   NFrele, tableVars, diskVars, ctlVars, userVars, Uses, Copies, Cleared, Aims, Going, Creating
<1>1. CASE PutLast(s)
  <2>1. /\ UNCHANGED <<goal, then, want, kept, slot, cdir, nameless, dir, number>>
        /\ pc[s] \in InPut /\ pc'[s] \in InPut
    BY <1>1 DEF PutLast
  <2> HIDE DEF TypeOK, Call, Uses, Copies, Aims, Going, Creating, InPut, InGet, OnEntry, Refers
  <2> QED
    BY <2>1, AimsKept
<1>2. CASE PutWrite(s)
  <2>1. /\ UNCHANGED <<goal, then, want, kept, slot, cdir, nameless, dir, number>>
        /\ pc[s] \in InPut /\ pc'[s] \in InPut
    BY <1>2 DEF PutWrite
  <2> HIDE DEF TypeOK, Call, Uses, Copies, Aims, Going, Creating, InPut, InGet, OnEntry, Refers
  <2> QED
    BY <2>1, AimsKept
<1>3. CASE PutRelease(s)
  <2>1. /\ UNCHANGED <<goal, then, want, kept, slot, cdir, nameless, dir, number>>
        /\ pc[s] \in InPut /\ pc'[s] \in InPut
    BY <1>3 DEF PutRelease
  <2> HIDE DEF TypeOK, Call, Uses, Copies, Aims, Going, Creating, InPut, InGet, OnEntry, Refers
  <2> QED
    BY <2>1, AimsKept
<1>4. CASE PutClear(s)
  <2>1. /\ number' = [number EXCEPT ![ent[s]] = -1] /\ count[ent[s]] = 1
        /\ pc[s] = "clear" /\ pc'[s] = "dec" /\ cdir[s] # ent[s]
        /\ UNCHANGED <<goal, then, want, kept, slot, cdir, nameless, dir>>
    BY <1>4 DEF PutClear
  <2>2. \A x \in Entry : x # ent[s] => number'[x] = number[x]
    BY <2>1
  <2>3. CASE kept[s] # ent[s]
    <3>1. cdir[s] \in Entry /\ (kept[s] # NoOne => kept[s] \in Entry)
      OBVIOUS
    <3>2. pc[s] \in InPut /\ pc'[s] \in InPut
      BY <2>1
    <3> HIDE DEF TypeOK, Call, Uses, Copies, Aims, Going, Creating, InPut, InGet, OnEntry, Refers
    <3> QED
      BY <2>1, <2>2, <2>3, <3>1, <3>2, AimsKept
  <2>4. CASE kept[s] = ent[s]
    <3>1. then[s] = "chdir" /\ pc'[s] = "dec" /\ then'[s] = "chdir" /\ kept'[s] = cdir'[s]
      BY <2>1, <2>4
    <3> HIDE DEF TypeOK, Call, Uses, Copies
    <3> QED
      BY <3>1
  <2> QED
    BY <2>3, <2>4
<1>5. CASE PutShared(s)
  <2>1. /\ UNCHANGED <<goal, then, want, kept, slot, cdir, nameless, dir, number>>
        /\ pc[s] \in InPut /\ pc'[s] \in InPut
    BY <1>5 DEF PutShared
  <2> HIDE DEF TypeOK, Call, Uses, Copies, Aims, Going, Creating, InPut, InGet, OnEntry, Refers
  <2> QED
    BY <2>1, AimsKept
<1>6. CASE PutDec(s)
  <2>1. pc[s] = "dec" /\ UNCHANGED <<number, dir, cdir>>
    BY <1>6 DEF PutDec
  <2> HIDE DEF Uses, Copies
  <2>2. CASE then[s] = "idle"
    <3>1. pc'[s] = "idle" /\ goal'[s] = "file" /\ then'[s] = "idle"
      BY <1>6, <2>2 DEF PutDec
    <3> HIDE DEF TypeOK, Call
    <3> QED
      BY <3>1
  <2>3. CASE then[s] \in {"get", "pop"}
    <3>1. /\ pc'[s] = then[s] /\ UNCHANGED <<goal, then, want, kept, slot>>
      BY <1>6, <2>3 DEF PutDec
    <3>2. then[s] = "get" => goal[s] \in {"search", "file"}
      BY <2>1
    <3> HIDE DEF TypeOK, Call
    <3>3. then[s] = "get" => Going(s) /\ ~ Creating(s)'
      BY <2>1, <3>1, <3>2
    <3>4. then[s] = "pop" => Creating(s) /\ pc'[s] = "pop"
      BY <2>1, <3>1
    <3>5. CASE then[s] = "get"
      <4>1. pc'[s] = "get" /\ goal'[s] \in {"search", "file"} /\ then'[s] = "get"
        BY <3>1, <3>2, <3>5
      <4>2. /\ goal[s] = "file" => Named(want[s])
            /\ goal[s] = "search" => Named(want[s])
        <5> HIDE DEF Going, Creating
        <5> QED
          BY <3>3, <3>5
      <4> QED
        BY <2>1, <3>1, <4>1, <4>2 DEF Named
    <3>6. CASE then[s] = "pop"
      <4>1. pc'[s] = "pop" /\ then'[s] = "pop"
        BY <3>1, <3>6
      <4>2. number[kept[s]] \in Dir /\ dir[number[kept[s]]][slot[s]] = 0
        <5> HIDE DEF Going, Creating
        <5> QED
          BY <3>4, <3>6
      <4> QED
        BY <2>1, <3>1, <4>1, <4>2
    <3> QED
      BY <2>3, <3>5, <3>6
  <2>4. CASE then[s] \in {"file", "put", "chdir"}
    <3>1. /\ then'[s] = "idle" /\ pc'[s] = IF then[s] = "file" THEN "held" ELSE then[s]
          /\ then[s] = "file" => goal'[s] = "file"
          /\ want' = want
      BY <1>6, <2>4 DEF PutDec
    <3> HIDE DEF TypeOK, Call
    <3>2. then[s] = "file" => \E d \in Dir, r \in Slot : dir[d][r] = want[s]
      BY <2>1 DEF Named
    <3>3. CASE then[s] = "file"
      <4>1. pc'[s] = "held" /\ goal'[s] = "file" /\ want' = want /\ dir' = dir /\ then'[s] = "idle"
        BY <2>1, <3>1, <3>3
      <4>2. Named(want[s])'
        BY <3>2, <3>3, <4>1 DEF Named
      <4> QED
        BY <4>1, <4>2
    <3>4. CASE then[s] \in {"put", "chdir"}
      <4>1. pc'[s] \in {"put", "chdir"} /\ then'[s] = "idle"
        BY <3>1, <3>4
      <4> QED
        BY <4>1
    <3> QED
      BY <2>4, <3>3, <3>4
  <2> QED
    BY <2>2, <2>3, <2>4
<1> QED
  BY <1>1, <1>2, <1>3, <1>4, <1>5, <1>6 DEF IPutStep

LEMMA IAllocAims ==
  ASSUME NEW s \in Thread, TypeOK, TypeOK', Call(s), Uses(s), Copies(s), LatestFacts, LatestFacts',
         OneName, NamesLead(s), Popping(s), Aims(s), Moved(s),
         IAllocStep(s)
  PROVE  Aims(s)'
<1> USE Consts DEF TypeOK, Call, OnEntry, InPut, InGet, Refers, Goto, Go, Done, Take, IPut, Lock,
                   NFrele, tableVars, diskVars, ctlVars, userVars, Uses, Copies, Cleared, Aims, Going, Creating
<1>1. CASE IAllocScan(s)
  BY <1>1 DEF IAllocScan
<1>2. CASE IAllocNone(s)
  BY <1>2 DEF IAllocNone
<1>3. CASE IAllocPop(s)
  BY <1>3 DEF IAllocPop
<1>4. CASE IAllocBelow(s)
  BY <1>4 DEF IAllocBelow
<1>5. CASE IAllocTaken(s)
  BY <1>5 DEF IAllocTaken
<1>6. CASE MakNode(s)
  <2>1. /\ pc[s] = "held" /\ goal[s] = "alloc" /\ node[ent[s]] = "free" /\ pc'[s] = "writedir"
        /\ UNCHANGED <<number, goal, then, want, ent, kept, slot, cdir, dir, nameless>>
    BY <1>6 DEF MakNode
  <2>2. /\ want[s] \in Ino /\ number[ent[s]] = want[s] /\ ent[s] \in Entry /\ count[ent[s]] # 0
        /\ then[s] # "chdir"
    BY <2>1
  <2>3. Creating(s)
    BY <2>1
  <2>4. number[kept[s]] \in Dir /\ dir[number[kept[s]]][slot[s]] = 0
    <3> HIDE DEF Creating, Going
    <3> QED
      BY <2>3
  <2> HIDE DEF TypeOK, Call, Uses, Copies, Aims, Going, Creating, InPut, InGet, OnEntry, Refers
  <2>5. want[s] # 0
    BY <2>1, <2>2, RootHeld
  <2>6. Latest(want[s]) = "free"
    BY <2>1, <2>2 DEF LatestFacts
  <2>7. ~ Named(want[s]) /\ want[s] \notin nameless
    BY <2>2, <2>5, <2>6 DEF NamesLead
  <2>8. Becomes(s, "linked")
    BY <1>6, MakNodeBecomes
  <2>9. \A n \in Ino : n = want'[s] => n # 0 /\ Latest(n)' = "linked" /\ ~ Named(n)' /\ n \notin nameless'
    BY <2>1, <2>2, <2>5, <2>7, <2>8 DEF Becomes, Named
  <2> QED
    BY <2>1, <2>2, <2>4, <2>9 DEF Aims, Going, Creating, InPut, InGet
<1>7. CASE WriteDir(s)
  <2>1. /\ want[s] \in Ino \ {0} /\ want' = want
        /\ \A n \in Ino \ {0} : Named(n)' <=> Named(n) \/ n = want[s]
    BY <1>7, WriteDirNames
  <2>2. \E d \in Dir, r \in Slot : dir'[d][r] = want'[s]
    BY <2>1 DEF Named
  <2>3. pc'[s] = "put" /\ then'[s] = "file"
    BY <1>7 DEF WriteDir
  <2> HIDE DEF TypeOK, Call, Uses, Copies
  <2> QED
    BY <2>2, <2>3 DEF Named
<1>8. CASE WriteDirFull(s)
  BY <1>8 DEF WriteDirFull
<1> QED
  BY <1>1, <1>2, <1>3, <1>4, <1>5, <1>6, <1>7, <1>8 DEF IAllocStep

LEMMA SessionAims ==
  ASSUME NEW s \in Thread, TypeOK, TypeOK', Call(s), Uses(s), Copies(s), LatestFacts, LatestFacts',
         OneName, NamesLead(s), Popping(s), Aims(s), Moved(s),
         SessionStep(s)
  PROVE  Aims(s)'
<1> USE Consts DEF TypeOK, Call, OnEntry, InPut, InGet, Refers, Goto, Go, Done, Take, IPut, Lock,
                   NFrele, tableVars, diskVars, ctlVars, userVars, Uses, Copies, Cleared, Aims, Going, Creating
<1>1. CASE NameI(s)
  BY <1>1 DEF NameI
<1>2. CASE Walk(s)
  <2>1. /\ pc[s] = "held" /\ ent[s] \in Entry /\ number[ent[s]] \in Dir
        /\ pc'[s] = "put" /\ then'[s] = "get" /\ dir' = dir
    BY <1>2 DEF Walk, Searching
  <2>2. PICK r \in Slot : /\ want'[s] = EntryOf(s, r) /\ EntryOf(s, r) # 0
                          /\ goal'[s] \in {"file", "search"}
    BY <1>2 DEF Walk
  <2> HIDE DEF TypeOK, Call, Uses, Copies, Aims
  <2>3. \E d \in Dir, q \in Slot : dir'[d][q] = want'[s]
    BY <2>1, <2>2 DEF EntryOf
  <2> HIDE DEF TypeOK, Call, Uses, Copies
  <2> QED
    BY <2>1, <2>2, <2>3 DEF Named, Aims
<1>3. CASE NewName(s)
  <2> DEFINE room == {q \in Slot : EntryOf(s, q) = 0}
  <2>1. /\ pc[s] = "held" /\ goal[s] = "search" /\ ent[s] \in Entry /\ number[ent[s]] \in Dir
        /\ pc'[s] \in {"scan", "pop"}
        /\ UNCHANGED <<dir, number, goal, then>> /\ kept'[s] = ent[s] /\ then[s] # "chdir"
    BY <1>3 DEF NewName, Searching
  <2>2. room \in SUBSET Nat /\ room # {} /\ slot'[s] = Lowest(room)
    <3>1. room \in SUBSET Nat
      BY InodeAssumption
    <3>2. room # {} /\ slot' = [slot EXCEPT ![s] = Lowest(room)]
      BY <1>3 DEF NewName
    <3> HIDE DEF room
    <3> QED
      BY <3>1, <3>2
  <2>3. Lowest(room) \in room
    BY <2>2, LowestIs
  <2>4. slot'[s] \in Slot /\ dir[number[ent[s]]][slot'[s]] = 0
    BY <2>2, <2>3 DEF EntryOf
  <2> HIDE DEF TypeOK, Call, Uses, Copies, room
  <2> QED
    BY <2>1, <2>4
<1>4. CASE Victim(s)
  <2>1. /\ pc[s] = "held" /\ goal[s] = "search" /\ ent[s] \in Entry /\ number[ent[s]] \in Dir
        /\ pc'[s] = "get" /\ goal'[s] = "victim"
        /\ UNCHANGED <<dir, number, then>> /\ kept'[s] = ent[s]
    BY <1>4 DEF Victim, Searching
  <2>2. PICK r \in Slot : /\ want'[s] = EntryOf(s, r) /\ EntryOf(s, r) \notin Dir \cup {0}
                          /\ slot'[s] = r
    BY <1>4 DEF Victim
  <2>3. want'[s] \notin Dir \cup {0} /\ dir'[number'[kept'[s]]][slot'[s]] = want'[s]
    BY <2>1, <2>2 DEF EntryOf
  <2> HIDE DEF TypeOK, Call, Uses, Copies
  <2> QED
    BY <2>1, <2>3
<1>5. CASE UnLink(s)
  BY <1>5 DEF UnLink
<1>6. CASE Open1(s)
  BY <1>6 DEF Open1, Found
<1>7. CASE Open1Fails(s)
  BY <1>7 DEF Open1Fails, Found
<1>8. CASE GiveUp(s)
  BY <1>8 DEF GiveUp, Found
<1>9. CASE ChDir(s)
  BY <1>9 DEF ChDir, Found
<1>10. CASE ChDirEnd(s)
  BY <1>10 DEF ChDirEnd
<1>11. CASE Close(s)
  BY <1>11 DEF Close
<1>12. CASE Rdwr(s)
  BY <1>12 DEF Rdwr
<1>13. CASE RdwrLock(s)
  BY <1>13 DEF RdwrLock
<1>14. CASE RdwrEnd(s)
  BY <1>14 DEF RdwrEnd
<1> QED
  BY <1>1, <1>2, <1>3, <1>4, <1>5, <1>6, <1>7, <1>8, <1>9, <1>10, <1>11, <1>12, <1>13, <1>14 DEF SessionStep

LEMMA UpdateAims ==
  ASSUME NEW s \in Thread, TypeOK, TypeOK', Call(s), Uses(s), Copies(s), LatestFacts, LatestFacts',
         OneName, NamesLead(s), Popping(s), Aims(s), Moved(s),
         UpdateStep(s)
  PROVE  Aims(s)'
<1> USE Consts DEF TypeOK, Call, OnEntry, InPut, InGet, Refers, Goto, Go, Done, Take, IPut, Lock,
                   NFrele, tableVars, diskVars, ctlVars, userVars, Uses, Copies, Cleared, Aims, Going, Creating
<1>1. CASE Update(s)
  BY <1>1 DEF Update
<1>2. CASE UpdateSkip(s)
  BY <1>2 DEF UpdateSkip
<1>3. CASE UpdateTake(s)
  BY <1>3 DEF UpdateTake
<1>4. CASE UpdateSync(s)
  BY <1>4 DEF UpdateSync, IUpdate
<1>5. CASE UpdateEnd(s)
  BY <1>5 DEF UpdateEnd
<1> QED
  BY <1>1, <1>2, <1>3, <1>4, <1>5 DEF UpdateStep

-----------------------------------------------------------------------------
(***************************************************************************)
(* Mutexes.                                                                *)
(***************************************************************************)
\* Who has a mutex: a failed creation has left it, or the call has it.
Locks(s) ==
  \A x \in Entry : mutex[x] # NoOne =>
    \/ left[x] > 0
    \/ ent[s] = x /\ pc[s] \in {"held", "writedir", "chdir", "io"} \cup InPut
    \/ kept[s] = x /\ (Creating(s) \/ (pc[s] \in InPut /\ then[s] \in {"put", "file", "chdir"}))

LEMMA IGetLocks ==
  ASSUME NEW s \in Thread, TypeOK, TypeOK', Call(s), Starting(s), Locks(s),
         IGetStep(s)
  PROVE  Locks(s)'
<1> USE Consts DEF TypeOK, Call, OnEntry, InPut, InGet, Goto, Go, Done, Take, IPut, Lock,
                   NFrele, tableVars, diskVars, ctlVars, userVars, Locks, Creating
<1>1. CASE GetLoaded(s)
  BY <1>1 DEF GetLoaded
<1>2. CASE GetLock(s)
  <2>1. ent' = ent /\ (goal[s] = "alloc" => goal' = goal)
    <3>1. Return(s) /\ pc[s] = "wait"
      BY <1>2 DEF GetLock
    <3> HIDE DEF TypeOK, Call, Locks
    <3> QED
      BY <3>1, ReturnKeeps DEF Begins
  <2> QED
    BY <1>2, <2>1 DEF GetLock
<1>3. CASE GetName(s)
  BY <1>3 DEF GetName
<1>4. CASE GetFill(s)
  <2>1. ent' = ent /\ (goal[s] = "alloc" => goal' = goal)
    <3>1. Return(s) /\ pc[s] = "fill"
      BY <1>4 DEF GetFill
    <3> HIDE DEF TypeOK, Call, Locks
    <3> QED
      BY <3>1, ReturnKeeps DEF Begins
  <2> QED
    BY <1>4, <2>1 DEF GetFill
<1>5. CASE GetNone(s)
  <2>0. goal[s] \notin Begins
    BY <1>5 DEF GetNone, TableFull, Starting
  <2>1. /\ mutex' = mutex /\ pc[s] = "find" /\ left' = (IF goal[s] = "alloc" THEN [left EXCEPT ![kept[s]] = @ + 1] ELSE left)
    BY <1>5, <2>0 DEF GetNone, TableFull, LeaveDirectory
  <2>2. kept[s] # NoOne => kept[s] \in Entry
    OBVIOUS
  <2>3. \A x \in Entry : left[x] > 0 => left'[x] > 0
    <3>1. left \in [Entry -> Nat]
      OBVIOUS
    <3> QED
      BY <2>1, <3>1
  <2>4. \A x \in Entry : kept[s] = x /\ goal[s] = "alloc" => left'[x] > 0
    <3>1. left \in [Entry -> Nat]
      OBVIOUS
    <3> HIDE DEF TypeOK, Call, Locks
    <3> QED
      BY <2>1, <2>2, <3>1
  <2>5. \A x \in Entry : mutex[x] # NoOne => left[x] > 0 \/ (kept[s] = x /\ goal[s] = "alloc")
    BY <2>1
  <2> HIDE DEF TypeOK, Call, Locks
  <2> QED
    BY <2>1, <2>3, <2>4, <2>5 DEF Locks
<1>6. CASE GetNoVictim(s)
  BY <1>6 DEF GetNoVictim, TableFull
<1>7. CASE GetUnloaded(s)
  BY <1>7 DEF GetUnloaded
<1>8. CASE GetFree(s)
  BY <1>8 DEF GetFree
<1> QED
  BY <1>1, <1>2, <1>3, <1>4, <1>5, <1>6, <1>7, <1>8 DEF IGetStep

LEMMA IPutLocks ==
  ASSUME NEW s \in Thread, TypeOK, TypeOK', Call(s), Locks(s),
         IPutStep(s)
  PROVE  Locks(s)'
<1> USE Consts DEF TypeOK, Call, OnEntry, InPut, InGet, Goto, Go, Done, Take, IPut, Lock,
                   NFrele, tableVars, diskVars, ctlVars, userVars, Locks, Creating
<1>1. CASE PutLast(s)
  BY <1>1 DEF PutLast
<1>2. CASE PutWrite(s)
  BY <1>2 DEF PutWrite, IUpdate
<1>3. CASE PutRelease(s)
  BY <1>3 DEF PutRelease
<1>4. CASE PutClear(s)
  BY <1>4 DEF PutClear
<1>5. CASE PutShared(s)
  BY <1>5 DEF PutShared
<1>6. CASE PutDec(s)
  BY <1>6 DEF PutDec
<1> QED
  BY <1>1, <1>2, <1>3, <1>4, <1>5, <1>6 DEF IPutStep

LEMMA IAllocLocks ==
  ASSUME NEW s \in Thread, TypeOK, TypeOK', Call(s), Locks(s),
         IAllocStep(s)
  PROVE  Locks(s)'
<1> USE Consts DEF TypeOK, Call, OnEntry, InPut, InGet, Goto, Go, Done, Take, IPut, Lock,
                   NFrele, tableVars, diskVars, ctlVars, userVars, Locks, Creating
<1>1. CASE IAllocScan(s)
  BY <1>1 DEF IAllocScan
<1>2. CASE IAllocNone(s)
  <2>1. /\ mutex' = mutex /\ pc[s] = "scan" /\ left' = [left EXCEPT ![kept[s]] = @ + 1]
    BY <1>2 DEF IAllocNone, LeaveDirectory
  <2>2. kept[s] # NoOne => kept[s] \in Entry
    OBVIOUS
  <2>3. \A x \in Entry : left[x] > 0 => left'[x] > 0
    <3>1. left \in [Entry -> Nat]
      OBVIOUS
    <3> QED
      BY <2>1, <3>1
  <2>4. \A x \in Entry : kept[s] = x /\ TRUE => left'[x] > 0
    <3>1. left \in [Entry -> Nat]
      OBVIOUS
    <3> HIDE DEF TypeOK, Call, Locks
    <3> QED
      BY <2>1, <2>2, <3>1
  <2>5. \A x \in Entry : mutex[x] # NoOne => left[x] > 0 \/ (kept[s] = x /\ TRUE)
    BY <2>1
  <2> HIDE DEF TypeOK, Call, Locks
  <2> QED
    BY <2>1, <2>3, <2>4, <2>5 DEF Locks
<1>3. CASE IAllocPop(s)
  BY <1>3 DEF IAllocPop
<1>4. CASE IAllocBelow(s)
  BY <1>4 DEF IAllocBelow
<1>5. CASE IAllocTaken(s)
  BY <1>5 DEF IAllocTaken
<1>6. CASE MakNode(s)
  BY <1>6 DEF MakNode
<1>7. CASE WriteDir(s)
  BY <1>7 DEF WriteDir
<1>8. CASE WriteDirFull(s)
  BY <1>8 DEF WriteDirFull
<1> QED
  BY <1>1, <1>2, <1>3, <1>4, <1>5, <1>6, <1>7, <1>8 DEF IAllocStep

LEMMA SessionLocks ==
  ASSUME NEW s \in Thread, TypeOK, TypeOK', Call(s), Locks(s),
         SessionStep(s)
  PROVE  Locks(s)'
<1> USE Consts DEF TypeOK, Call, OnEntry, InPut, InGet, Goto, Go, Done, Take, IPut, Lock,
                   NFrele, tableVars, diskVars, ctlVars, userVars, Locks, Creating
<1>1. CASE NameI(s)
  BY <1>1 DEF NameI
<1>2. CASE Walk(s)
  BY <1>2 DEF Walk, Searching
<1>3. CASE NewName(s)
  BY <1>3 DEF NewName, Searching
<1>4. CASE Victim(s)
  BY <1>4 DEF Victim, Searching
<1>5. CASE UnLink(s)
  BY <1>5 DEF UnLink
<1>6. CASE Open1(s)
  BY <1>6 DEF Open1, Found
<1>7. CASE Open1Fails(s)
  BY <1>7 DEF Open1Fails, Found
<1>8. CASE GiveUp(s)
  BY <1>8 DEF GiveUp, Found
<1>9. CASE ChDir(s)
  BY <1>9 DEF ChDir, Found
<1>10. CASE ChDirEnd(s)
  BY <1>10 DEF ChDirEnd
<1>11. CASE Close(s)
  BY <1>11 DEF Close
<1>12. CASE Rdwr(s)
  BY <1>12 DEF Rdwr
<1>13. CASE RdwrLock(s)
  BY <1>13 DEF RdwrLock
<1>14. CASE RdwrEnd(s)
  BY <1>14 DEF RdwrEnd
<1> QED
  BY <1>1, <1>2, <1>3, <1>4, <1>5, <1>6, <1>7, <1>8, <1>9, <1>10, <1>11, <1>12, <1>13, <1>14 DEF SessionStep

LEMMA UpdateLocks ==
  ASSUME NEW s \in Thread, TypeOK, TypeOK', Call(s), Locks(s),
         UpdateStep(s)
  PROVE  Locks(s)'
<1> USE Consts DEF TypeOK, Call, OnEntry, InPut, InGet, Goto, Go, Done, Take, IPut, Lock,
                   NFrele, tableVars, diskVars, ctlVars, userVars, Locks, Creating
<1>1. CASE Update(s)
  BY <1>1 DEF Update
<1>2. CASE UpdateSkip(s)
  BY <1>2 DEF UpdateSkip
<1>3. CASE UpdateTake(s)
  BY <1>3 DEF UpdateTake
<1>4. CASE UpdateSync(s)
  BY <1>4 DEF UpdateSync, IUpdate
<1>5. CASE UpdateEnd(s)
  BY <1>5 DEF UpdateEnd
<1> QED
  BY <1>1, <1>2, <1>3, <1>4, <1>5 DEF UpdateStep

-----------------------------------------------------------------------------
(***************************************************************************)
(* All of it, for a session alone.                                         *)
(***************************************************************************)
Kept(s) == Saved(s) /\ Fates(s) /\ Listing(s) /\ Aims(s) /\ Locks(s)

LEMMA KeptInit ==
  ASSUME NEW s, Alone(s), Init, TypeOK, Copies(s), LatestFacts
  PROVE  Kept(s)
<1>1. s \in Thread
  BY DEF Alone
<1>2. /\ pc[s] = "idle" /\ goal[s] = "file" /\ then[s] = "idle"
      /\ \A x \in Entry : mutex[x] = NoOne
      /\ dir = BootDir /\ sInode \in BootLists /\ 0 \in Ino /\ nameless = {}
  BY <1>1, Consts DEF Init
<1>3. \A x \in Entry : x # 0 => count[x] = 0
  BY DEF Init
<1>4. count[0] # 0 /\ number[0] = 0 /\ node[0] = "unlinked" /\ dinode[0] = "unlinked" /\ 0 \in Entry
  <2>1. Cardinality(Thread) \in Nat
    BY InodeAssumption, FS_CardinalityType
  <2> QED
    BY <2>1, Consts DEF Init
<1>5. Saved(s)
  BY <1>2, <1>3, <1>4 DEF Saved
<1>6. Latest(0) = "unlinked"
  BY <1>2, <1>4 DEF LatestFacts
<1>7. ASSUME NEW n \in Ino \ {0}
      PROVE  Latest(n) = IF Named(n) THEN "linked" ELSE "free"
  <2>1. \A x \in Entry : count[x] = 0 \/ number[x] # n
    BY <1>3, <1>4
  <2>2. Latest(n) = dinode[n]
    BY <2>1 DEF LatestFacts
  <2> QED
    BY <2>2 DEF Init, Named
<1>8. OneName
  BY <1>2, BootAssumption DEF OneName
<1>9. NamesLead(s)
  BY <1>2, <1>6, <1>7 DEF NamesLead
<1>10. FreeOnes(s)
  BY <1>2, <1>3, <1>4 DEF FreeOnes
<1>11. ListedAreFree
  <2>1. /\ Len(sInode) <= NLISTED
        /\ \A i, j \in DOMAIN sInode : sInode[i] = sInode[j] => i = j
        /\ \A i \in DOMAIN sInode, d \in Dir, q \in Slot : sInode[i] # 0 => BootDir[d][q] # sInode[i]
    BY <1>2, BootAssumption
  <2>2. \A i \in DOMAIN sInode : sInode[i] \in Ino
    BY DEF TypeOK
  <2>3. ASSUME NEW i \in DOMAIN sInode, sInode[i] # 0 PROVE Latest(sInode[i]) = "free"
    <3>1. ~ Named(sInode[i])
      BY <1>2, <2>1, <2>3 DEF Named
    <3> QED
      BY <1>7, <2>2, <2>3, <3>1
  <2> QED
    BY <2>1, <2>3 DEF ListedAreFree
<1>12. Popping(s)
  BY <1>2 DEF Popping, InPut, InGet
<1>13. Aims(s)
  BY <1>2 DEF Aims, Going, Creating, InPut, InGet
<1>14. Locks(s)
  BY <1>2 DEF Locks
<1> QED
  BY <1>5, <1>8, <1>9, <1>10, <1>11, <1>12, <1>13, <1>14 DEF Kept, Fates, Listing

LEMMA KeptNext ==
  ASSUME NEW s, Alone(s), TableOK, TableOK', Uses(s), Copies(s), LatestFacts, LatestFacts',
         Kept(s), [Next]_vars
  PROVE  Kept(s)'
<1>0. /\ s \in Thread /\ TypeOK /\ TypeOK' /\ Call(s) /\ (Steps(s) \/ UNCHANGED vars)
      /\ Starting(s) /\ Saved(s) /\ OneName /\ NamesLead(s) /\ FreeOnes(s) /\ Fates(s)
      /\ ListedAreFree /\ Popping(s) /\ Listing(s) /\ Aims(s) /\ Locks(s)
  BY OnlyStep DEF TableOK, TableInv, Alone, Copies, Kept, Fates, Listing
<1>1. CASE Steps(s)
  <2>1. Moved(s)
    BY <1>0, <1>1, StepMoved
  <2>2. Saved(s)'
    BY <1>0, SavedNext
  <2>3. OneName' /\ NamesLead(s)'
    BY <1>0, <1>1, <2>1, NamesLeadNext
  <2>4. FreeOnes(s)'
    BY <1>0, <1>1, IGetFreeOnes, IPutFreeOnes, IAllocFreeOnes, SessionFreeOnes, UpdateFreeOnes
       DEF Steps
  <2>5. ListedAreFree'
    BY <1>0, <1>1, <2>1, ListedNext
  <2>6. Popping(s)'
    BY <1>0, <1>1, <2>1, IGetPopping, IPutPopping, IAllocPopping, SessionPopping, UpdatePopping
       DEF Steps
  <2>7. Aims(s)'
    BY <1>0, <1>1, <2>1, IGetAims, IPutAims, IAllocAims, SessionAims, UpdateAims DEF Steps
  <2>8. Locks(s)'
    BY <1>0, <1>1, IGetLocks, IPutLocks, IAllocLocks, SessionLocks, UpdateLocks DEF Steps
  <2> QED
    BY <2>2, <2>3, <2>4, <2>5, <2>6, <2>7, <2>8 DEF Kept, Fates, Listing
<1>2. CASE UNCHANGED vars
  <2>1. UNCHANGED <<number, count, node, upd, mutex, dinode, sInode, dir, nameless, pc, goal, then, want,
                    ent, kept, slot, cdir, left>>
    BY <1>2 DEF vars, tableVars, diskVars, ctlVars, userVars
  <2>2. Saved(s)'
    BY <1>0, <2>1 DEF Saved
  <2>3. \A n \in Ino : Latest(n)' = Latest(n) /\ Loaded(n)' = Loaded(n)
    BY <2>1, LatestAlike
  <2>4. \A n \in Ino : Named(n)' <=> Named(n)
    BY <2>1 DEF Named
  <2>5. OneName' /\ FreeOnes(s)'
    BY <1>0, <2>1 DEF OneName, FreeOnes
  <2>6. NamesLead(s)'
    BY <1>0, <2>1, <2>3, <2>4, Consts DEF NamesLead
  <2>7. ListedAreFree'
    BY <1>0, <2>1, <2>3, SameListed
  <2>8. Popping(s)'
    BY <1>0, <2>1, <2>3 DEF Popping
  <2>9. Aims(s)'
    BY <1>0, <2>1, <2>3, <2>4 DEF Aims, Going, Creating, Named
  <2>10. Locks(s)'
    BY <1>0, <2>1 DEF Locks, Creating
  <2> QED
    BY <2>2, <2>5, <2>6, <2>7, <2>8, <2>9, <2>10 DEF Kept, Fates, Listing
<1> QED
  BY <1>0, <1>1, <1>2

LEMMA AllKept ==
  ASSUME NEW s, Alone(s)
  PROVE  Spec => [](TableOK /\ Uses(s) /\ Copies(s) /\ LatestFacts /\ Kept(s))
<1>1. Spec => [](TableOK /\ Uses(s) /\ Copies(s))
  BY CopiesHold
<1>2. TableOK /\ Copies(s) => LatestFacts
  BY LatestIs DEF TableOK, TableInv
<1>3. Init /\ TableOK /\ Copies(s) /\ LatestFacts => Kept(s)
  BY KeptInit DEF TableOK, TableInv
<1>4. TableOK /\ TableOK' /\ Uses(s) /\ Copies(s) /\ LatestFacts /\ LatestFacts' /\ Kept(s)
        /\ [Next]_vars => Kept(s)'
  BY KeptNext
<1> QED
  BY <1>1, <1>2, <1>3, <1>4, PTL DEF Spec

LEMMA FatesKeepFiles ==
  ASSUME NEW s, Alone(s), TypeOK, Call(s), Copies(s), Fates(s)
  PROVE  FilesKept
<1> SUFFICES ASSUME NEW n \in Ino \ {0}
             PROVE  /\ Cardinality(Names(n)) <= 1
                    /\ Names(n) # {} => Latest(n) = "linked"
                    /\ Latest(n) = "unlinked" => Loaded(n) # {}
                    /\ Latest(n) = "linked" /\ Names(n) = {} =>
                         \/ \E t \in Thread : pc[t] = "writedir" /\ number[ent[t]] = n
                         \/ n \in nameless
                    /\ n \in nameless => Latest(n) = "linked" /\ Names(n) = {}
  BY DEF FilesKept
<1>0. s \in Thread /\ OneName /\ NamesLead(s)
  BY DEF Alone, Fates
<1>1. Names(n) # {} <=> Named(n)
  <2>1. ASSUME NEW d \in Dir, NEW q \in Slot, dir[d][q] = n PROVE Names(n) # {}
    <3>1. <<d, q>> \in Names(n)
      BY <2>1 DEF Names
    <3> QED
      BY <3>1
  <2>2. ASSUME NEW p \in Names(n) PROVE Named(n)
    BY <2>2 DEF Names, Named
  <2> QED
    BY <2>1, <2>2 DEF Named
<1>2. \A p, q \in Names(n) : p = q
  BY <1>0 DEF Names, OneName
<1>3. pc[s] = "writedir" => number[ent[s]] = want[s]
  BY DEF Copies
<1> QED
  BY <1>0, <1>1, <1>2, <1>3, AtMostOne DEF NamesLead

LEMMA ListingKept ==
  ASSUME NEW s, Alone(s), TypeOK, Call(s), Uses(s), Copies(s), LatestFacts, Listing(s)
  PROVE  ListInv
<1>0. s \in Thread /\ Thread = {s} /\ ListedAreFree /\ Popping(s)
  BY DEF Alone, Listing
<1>1. pc[s] = "pop" /\ sInode = <<>> => want[s] = 0 /\ goal[s] = "alloc"
  BY <1>0 DEF Popping
<1>2. ASSUME pc[s] = "held", goal[s] = "alloc", want[s] # 0 PROVE node[ent[s]] = "free"
  <2>1. /\ ent[s] \in Entry /\ count[ent[s]] # 0 /\ number[ent[s]] = want[s] /\ want[s] \in Ino
    BY <1>0, <1>2 DEF Call, OnEntry, Uses, Refers, Copies, TypeOK
  <2>2. Latest(want[s]) = "free"
    BY <1>0, <1>2, <2>1 DEF Popping, InGet
  <2> QED
    BY <2>1, <2>2 DEF LatestFacts
<1> QED
  BY <1>0, <1>1, <1>2 DEF ListInv, PopsFree

LEMMA LocksWait ==
  ASSUME NEW s, Alone(s), TypeOK, Call(s), Uses(s), Copies(s), LatestFacts, Kept(s)
  PROVE  WaitsForItself
<1> SUFFICES ASSUME pc[s] \in {"wait", "fill", "iolock"}, mutex[ent[s]] # NoOne, ~(left[ent[s]] > 0)
             PROVE  goal[s] = "alloc" /\ want[s] = 0 /\ ent[s] = kept[s]
  BY DEF WaitsForItself, Alone
<1>0. s \in Thread /\ ent[s] \in Entry /\ FreeOnes(s) /\ Popping(s) /\ Locks(s)
  BY DEF Alone, Call, OnEntry, Kept, Fates, Listing
<1>1. kept[s] = ent[s] /\ Creating(s)
  BY <1>0 DEF Locks, InPut
<1>2. pc[s] \in {"wait", "fill"} /\ goal[s] = "alloc"
  BY <1>1 DEF Creating, InPut, InGet
<1>3. count[ent[s]] # 0
  BY <1>0, <1>1, <1>2 DEF Uses, Call, InPut
<1>4. number[ent[s]] = want[s] /\ want[s] \in Ino
  BY <1>0, <1>2 DEF Copies, TypeOK
<1>5. node[ent[s]] # "free"
  BY <1>0, <1>2, <1>3, <1>4 DEF FreeOnes
<1>6. Latest(want[s]) # "free"
  BY <1>0, <1>3, <1>4, <1>5 DEF LatestFacts
<1> QED
  BY <1>0, <1>1, <1>2, <1>4, <1>6 DEF Popping, InGet

\* With one session, the directories and the inodes agree at every step of creat,
\* rm and close: no inode has two names, none that has a name is freed, and none
\* without a name stays behind on the disk as a file, but for those whose entry a
\* full disk has kept out.
THEOREM FilesKeptHolds ==
  ASSUME Cardinality(Thread) = 1
  PROVE  Spec => []FilesKept
<1>1. PICK s : Alone(s)
  BY InodeAssumption, FS_Singleton DEF Alone
<1>2. s \in Thread
  BY <1>1 DEF Alone
<1>3. TableOK /\ Copies(s) /\ Kept(s) => FilesKept
  BY <1>1, <1>2, FatesKeepFiles DEF TableOK, TableInv, Kept
<1>4. Spec => [](TableOK /\ Uses(s) /\ Copies(s) /\ LatestFacts /\ Kept(s))
  BY <1>1, AllKept
<1> QED
  BY <1>3, <1>4, PTL

\* With one session, IAlloc hands out free inodes only, each once: what s_inode
\* lists is free, there is room for it, and IAlloc runs below the list's bottom
\* only after it has popped the root.
THEOREM ListInvHolds ==
  ASSUME Cardinality(Thread) = 1
  PROVE  Spec => []ListInv
<1>1. PICK s : Alone(s)
  BY InodeAssumption, FS_Singleton DEF Alone
<1>2. s \in Thread
  BY <1>1 DEF Alone
<1>3. TableOK /\ Uses(s) /\ Copies(s) /\ LatestFacts /\ Kept(s) => ListInv
  BY <1>1, <1>2, ListingKept DEF TableOK, TableInv, Kept
<1>4. Spec => [](TableOK /\ Uses(s) /\ Copies(s) /\ LatestFacts /\ Kept(s))
  BY <1>1, AllKept
<1> QED
  BY <1>3, <1>4, PTL

\* A session alone deadlocks with itself in two ways only: it comes back to a
\* directory that a failed creation has left locked, or IAlloc gets the root while
\* the call has it locked.
THEOREM WaitsForItselfHolds ==
  ASSUME Cardinality(Thread) = 1
  PROVE  Spec => []WaitsForItself
<1>1. PICK s : Alone(s)
  BY InodeAssumption, FS_Singleton DEF Alone
<1>2. s \in Thread
  BY <1>1 DEF Alone
<1>3. TableOK /\ Uses(s) /\ Copies(s) /\ LatestFacts /\ Kept(s) => WaitsForItself
  BY <1>1, <1>2, LocksWait DEF TableOK, TableInv
<1>4. Spec => [](TableOK /\ Uses(s) /\ Copies(s) /\ LatestFacts /\ Kept(s))
  BY <1>1, AllKept
<1> QED
  BY <1>3, <1>4, PTL

=============================================================================
