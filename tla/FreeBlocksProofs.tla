---------------------------- MODULE FreeBlocksProofs ----------------------------
(***************************************************************************)
(* Proofs about FreeBlocks, for any number of threads, any group size and  *)
(* any data zone that is not a whole number of groups.                     *)
(***************************************************************************)
EXTENDS FreeBlocks, SequenceTheorems, FiniteSetTheorems, WellFoundedInduction, TLAPS

-----------------------------------------------------------------------------
(***************************************************************************)
(* Induction over numbers.  What is to be shown of every number is given   *)
(* as the set of the numbers it holds for, not as a predicate.             *)
(***************************************************************************)
LEMMA LeastNatural ==
  ASSUME NEW S \in SUBSET Nat, S # {}
  PROVE  \E m \in S : \A k \in S : m <= k
<1>1. PICK m \in S : \A k \in S : ~ (<<k, m>> \in OpToRel(<, Nat))
  BY NatLessThanWellFounded, WFMin, Zenon
<1>2. ASSUME NEW k \in S, k < m PROVE FALSE
  <2>1. <<k, m>> \in {p \in Nat \X Nat : p[1] < p[2]}
    BY <1>2
  <2>2. <<k, m>> \in OpToRel(<, Nat)
    BY <2>1, Zenon DEF OpToRel
  <2> QED
    BY <1>1, <2>2
<1> QED
  BY <1>2

\* A set that has 0, and with a number its successor, has them all.
LEMMA InductionTo ==
  ASSUME NEW n \in Nat, NEW S, 0 \in S, \A k \in 0 .. n - 1 : k \in S => k + 1 \in S
  PROVE  \A k \in 0 .. n : k \in S
<1> DEFINE Bad == {k \in 0 .. n : k \notin S}
<1> SUFFICES ASSUME Bad # {} PROVE FALSE
  OBVIOUS
<1>1. PICK m \in Bad : \A k \in Bad : m <= k
  <2>1. Bad \in SUBSET Nat
    OBVIOUS
  <2> HIDE DEF Bad
  <2> QED
    BY <2>1, LeastNatural
<1>2. m \in 1 .. n /\ m \notin S
  BY <1>1
<1>3. m - 1 \in 0 .. n - 1 /\ m - 1 \notin Bad
  BY <1>1, <1>2
<1>4. m - 1 \in S /\ (m - 1) + 1 = m
  BY <1>2, <1>3
<1> QED
  BY <1>2, <1>3, <1>4

LEMMA Induction ==
  ASSUME NEW S, 0 \in S, \A k \in Nat : k \in S => k + 1 \in S
  PROVE  Nat \subseteq S
<1> SUFFICES ASSUME NEW n \in Nat PROVE n \in S
  OBVIOUS
<1>1. \A k \in 0 .. n - 1 : k \in S => k + 1 \in S
  OBVIOUS
<1> QED
  BY <1>1, InductionTo

-----------------------------------------------------------------------------
\* The layout of a formatted disk.

LEMMA DivMod ==
  ASSUME NEW n \in Nat, NEW g \in Nat \ {0}
  PROVE  n = g * (n \div g) + (n % g) /\ n \div g \in Nat /\ n % g \in 0 .. g - 1
OBVIOUS

LEMMA DivModUnique ==
  ASSUME NEW q \in Nat, NEW g \in Nat \ {0}, NEW r \in 0 .. g - 1
  PROVE  (g * q + r) \div g = q /\ (g * q + r) % g = r
OBVIOUS

\* The sectors that have the table of the group below.
TableBlock == {x \in DataZone : \E i \in 0 .. DataSize \div Group : x = TableSector(i)}

LEMMA Geometry ==
  /\ Group \in Nat /\ Group >= 2
  /\ DataStart \in Nat \ {0}
  /\ DataSize \in Nat /\ DataSize >= Group
  /\ DataEnd = DataStart + DataSize - 1
  /\ DataZone = DataStart .. DataEnd /\ DataZone \subseteq Nat /\ 0 \notin DataZone
  /\ TableBlock \subseteq DataZone /\ TableBlock \subseteq Nat \ {0}
BY GeometryAssumption DEF DataZone, DataEnd, TableBlock

\* A table lists the blocks from the next table's on, up to its own: each once, and
\* block 0 first in the lowest.
LEMMA TableLists ==
  ASSUME NEW b \in TableBlock, NEW f, f = FormattedTables[b]
  PROVE  /\ f \in List /\ Len(f) = Group
         /\ f[1] \in {0} \cup TableBlock
         /\ IF f[1] = 0 THEN b - Group < DataStart ELSE f[1] = b - Group
         /\ \A j \in 2 .. Group : f[j] = b - Group + (j - 1) /\ f[j] \in DataZone
<1>1. PICK i \in 0 .. DataSize \div Group : b = TableSector(i) /\ b \in DataZone
  BY DEF TableBlock
<1>2. i \in Nat /\ Group * i \in Nat /\ i * Group = Group * i
  BY <1>1, Geometry, DivMod
<1>3. b = DataStart + (Group - 1) + Group * i /\ TableSector(0) = DataStart + (Group - 1)
  BY <1>1, <1>2, Geometry DEF TableSector
<1>4. (b - TableSector(0)) \div Group = i
  <2>1. b - TableSector(0) = Group * i + 0
    BY <1>2, <1>3, Geometry
  <2> QED
    BY <1>2, <2>1, DivModUnique, Geometry
<1>5. f = GroupList(i, Group)
  BY <1>1, <1>4 DEF FormattedTables
<1>6. f = [j \in 1 .. Group |-> IF i = 0 /\ j = 1 THEN 0 ELSE Group * i + (j - 1) + DataStart - 1]
  BY <1>5 DEF GroupList
<1>7. b - Group = Group * i + DataStart - 1
  BY <1>2, <1>3, Geometry
<1>8. \A j \in 2 .. Group : f[j] = b - Group + (j - 1) /\ f[j] \in DataZone
  BY <1>1, <1>2, <1>3, <1>6, <1>7, Geometry
<1>9. f[1] = IF i = 0 THEN 0 ELSE b - Group
  BY <1>2, <1>6, <1>7, Geometry
<1>10. i # 0 => b - Group \in TableBlock
  <2> SUFFICES ASSUME i # 0 PROVE b - Group \in TableBlock
    OBVIOUS
  <2>1. i - 1 \in 0 .. DataSize \div Group /\ i - 1 \in Nat
    BY <1>1, <1>2, DivMod, Geometry
  <2>2. (i - 1) * Group = Group * i - Group
    BY <1>2, Geometry
  <2>3. b - Group = TableSector(i - 1)
    BY <1>3, <1>2, <2>2, Geometry DEF TableSector
  <2>4. Group * i >= Group
    BY <1>2, <2>1, Geometry
  <2>5. b - Group \in DataZone
    BY <1>1, <1>2, <1>3, <2>4, Geometry
  <2> QED
    BY <2>1, <2>3, <2>5 DEF TableBlock
<1>11. i = 0 => b - Group < DataStart
  BY <1>7, Geometry
<1>12. f[1] \in {0} \cup TableBlock /\ (f[1] = 0 => i = 0)
  BY <1>9, <1>10, Geometry
<1>13. \A j \in 1 .. Group : f[j] \in {0} \cup DataZone
  <2>1. \A j \in 1 .. Group : j = 1 \/ j \in 2 .. Group
    BY Geometry
  <2> QED
    BY <1>8, <1>12, <2>1, Geometry
<1>14. f \in Seq({0} \cup DataZone) /\ Len(f) = Group
  BY <1>6, <1>13, Geometry
<1> QED
  BY <1>8, <1>9, <1>11, <1>12, <1>14, Geometry DEF List

\* A sector without a table is zero-filled.
LEMMA FormattedList == \A s \in DataZone : FormattedTables[s] \in List
<1> SUFFICES ASSUME NEW s \in DataZone PROVE FormattedTables[s] \in List
  OBVIOUS
<1>1. CASE s \in TableBlock
  BY <1>1, TableLists
<1>2. CASE s \notin TableBlock
  BY <1>2, Geometry DEF FormattedTables, TableBlock, List
<1> QED
  BY <1>1, <1>2

\* The superblock's list has the rest of the data zone, from the highest table on.
LEMMA SuperLists ==
  /\ SuperList \in List /\ Len(SuperList) >= 1 /\ SuperList[1] \in TableBlock
  /\ \A j \in 1 .. Len(SuperList) : SuperList[j] = SuperList[1] + (j - 1)
  /\ SuperList[1] + (Len(SuperList) - 1) = DataEnd
<1> DEFINE q == DataSize \div Group
           r == DataSize % Group
<1>1. /\ DataSize = Group * q + r /\ q \in Nat /\ r \in 0 .. Group - 1
      /\ Group * q \in Nat /\ q * Group = Group * q
  <2>1. Group \in Nat \ {0} /\ DataSize \in Nat
    BY Geometry
  <2>2. DataSize = Group * q + r /\ q \in Nat /\ r \in 0 .. Group - 1
    BY <2>1, DivMod
  <2> HIDE DEF q, r
  <2> QED
    BY <2>1, <2>2
<1>2. r # 0 /\ q >= 1
  BY <1>1, Geometry, GeometryAssumption
<1>3. (DataSize - (Group - 1)) % Group = r + 1 /\ r + 1 < Group
  <2> DEFINE p == q - 1
  <2>1. p \in Nat /\ Group * p \in Nat /\ Group * q = Group * p + Group
    BY <1>1, <1>2, Geometry
  <2>2. CASE r = Group - 1
    <3>1. DataSize - (Group - 1) = Group * q + 0
      BY <1>1, <2>2, Geometry
    <3>2. (DataSize - (Group - 1)) % Group = 0
      <4>1. 0 \in 0 .. Group - 1 /\ Group \in Nat \ {0} /\ q \in Nat
        BY <1>1, Geometry
      <4> HIDE DEF q, r
      <4>2. (Group * q + 0) % Group = 0
        BY <4>1, DivModUnique
      <4> QED
        BY <3>1, <4>2
    <3> QED
      BY <3>2, GeometryAssumption
  <2>3. CASE r # Group - 1
    <3>1. r + 1 \in 0 .. Group - 1
      BY <1>1, <2>3, Geometry
    <3>2. DataSize - (Group - 1) = Group * p + (r + 1)
      BY <1>1, <2>1, Geometry
    <3>3. Group \in Nat \ {0} /\ p \in Nat /\ r + 1 < Group
      BY <2>1, <3>1, Geometry
    <3> HIDE DEF p, q, r
    <3> QED
      BY <3>1, <3>2, <3>3, DivModUnique
  <2> QED
    BY <2>2, <2>3
<1>4. StartLast = DataStart + Group * q
  <2> DEFINE Stops(k) == /\ DataStart + k * Group + Group - 1 >= DataEnd
                         /\ \A l \in 0 .. k - 1 : DataStart + l * Group + Group - 1 < DataEnd
  <2>1. q \in 0 .. DataSize
    BY <1>1, Geometry
  <2>2. Stops(q)
    <3>1. DataStart + q * Group + Group - 1 >= DataEnd
      BY <1>1, Geometry
    <3>2. ASSUME NEW l \in 0 .. q - 1 PROVE DataStart + l * Group + Group - 1 < DataEnd
      <4>1. l \in Nat /\ l + 1 <= q
        BY <1>1
      <4>2. l * Group \in Nat /\ l * Group + Group <= q * Group
        BY <1>1, <4>1, Geometry
      <4> QED
        BY <1>1, <1>2, <4>2, Geometry
    <3> QED
      BY <3>1, <3>2
  <2>3. ASSUME NEW k \in 0 .. DataSize, Stops(k) PROVE k = q
    <3>1. CASE k < q
      <4>1. k \in 0 .. q - 1 /\ k * Group \in Nat
        BY <1>1, <3>1, Geometry
      <4>2. DataStart + k * Group + Group - 1 < DataEnd
        BY <2>2, <4>1
      <4>3. DataStart + k * Group + Group - 1 >= DataEnd
        BY <2>3
      <4> QED
        BY <4>1, <4>2, <4>3, Geometry
    <3>2. CASE q < k
      <4>1. q \in 0 .. k - 1 /\ q * Group \in Nat
        BY <1>1, <3>2
      <4>2. DataStart + q * Group + Group - 1 < DataEnd
        BY <2>3, <4>1
      <4>3. DataStart + q * Group + Group - 1 >= DataEnd
        BY <2>2
      <4> QED
        BY <4>1, <4>2, <4>3, Geometry
    <3> QED
      BY <1>1, <3>1, <3>2
  <2>4. (CHOOSE k \in 0 .. DataSize : Stops(k)) = q
    <3> HIDE DEF q, Stops
    <3> QED
      BY <2>1, <2>2, <2>3
  <2>5. StartLast = DataStart + (CHOOSE k \in 0 .. DataSize : Stops(k)) * Group
    BY DEF StartLast
  <2> QED
    BY <1>1, <2>4, <2>5
<1>5. SuperList = [j \in 1 .. r + 1 |-> DataStart + Group * q + (j - 1) - 1]
  BY <1>3, <1>4 DEF SuperList
<1>6. DataStart + Group * q - 1 \in TableBlock
  <2>1. q - 1 \in 0 .. q
    BY <1>1, <1>2
  <2>2. (q - 1) * Group = Group * q - Group /\ Group * q >= Group
    BY <1>1, <1>2, Geometry
  <2>3. DataStart + Group * q - 1 = TableSector(q - 1)
    BY <1>1, <2>2, Geometry DEF TableSector
  <2>4. DataStart + Group * q - 1 \in DataZone
    BY <1>1, <2>2, Geometry
  <2> QED
    BY <2>1, <2>3, <2>4 DEF TableBlock
<1> HIDE DEF q, r
<1>7. /\ SuperList[1] = DataStart + Group * q - 1
      /\ \A j \in 1 .. r + 1 : SuperList[j] = SuperList[1] + (j - 1)
      /\ SuperList[1] + r = DataEnd
  BY <1>1, <1>5, Geometry
<1>8. \A j \in 1 .. r + 1 : SuperList[j] \in DataZone
  BY <1>1, <1>6, <1>7, Geometry
<1>9. SuperList \in Seq({0} \cup DataZone) /\ Len(SuperList) = r + 1
  BY <1>1, <1>5, <1>8
<1> QED
  BY <1>1, <1>3, <1>6, <1>7, <1>9, Geometry DEF List

-----------------------------------------------------------------------------
\* Types, and who is inside.

Inside == {"alloc", "load", "free", "save"}

\* s_flock excludes: who is inside owns it.
Exclusive == \A t \in Thread : pc[t] \in Inside => flock = t

\* A thread has a block in hand between its pop and its clearing, or while it frees.
InHand == \A t \in Thread : pc[t] \in {"load", "clear", "freelock", "free"} <=> blk[t] # 0

Base == TypeOK /\ table \in [DataZone -> List] /\ InHand /\ Exclusive

LEMMA PoppedIs ==
  ASSUME free \in List, free # <<>>
  PROVE  /\ Popped \in List /\ Len(Popped) = Len(free) - 1 /\ Len(free) \in 1 .. Group
         /\ \A j \in 1 .. Len(free) - 1 : Popped[j] = free[j]
         /\ Top \in {0} \cup DataZone
<1> DEFINE E == {0} \cup DataZone
<1>1. free \in Seq(E) /\ Len(free) \in 1 .. Group /\ Group \in Nat
  BY Geometry DEF List
<1> HIDE DEF E
<1>2. Popped \in Seq(E) /\ Len(Popped) = Len(free) - 1 /\ Top \in E
      /\ \A j \in 1 .. Len(free) - 1 : Popped[j] = free[j]
  <2>1. Top \in E
    BY <1>1 DEF Top
  <2>2. Len(Popped) = Len(free) - 1
    <3> DEFINE n == Len(free) - 1
    <3>1. n \in Nat /\ \A i \in 1 .. n : free[i] \in E
      BY <1>1
    <3>2. Popped = SubSeq(free, 1, n)
      BY DEF Popped
    <3> HIDE DEF n
    <3>3. Len(SubSeq(free, 1, n)) = IF 1 <= n THEN n - 1 + 1 ELSE 0
      BY <3>1, SubSeqProperties
    <3>4. Len(Popped) = n
      BY <3>1, <3>2, <3>3
    <3> QED
      BY <3>4 DEF n
  <2>3. \A j \in 1 .. Len(free) - 1 : Popped[j] = free[j] /\ free[j] \in E
    BY <1>1 DEF Popped
  <2>4. Popped \in Seq(E)
    BY <1>1 DEF Popped
  <2> QED
    BY <2>1, <2>2, <2>3, <2>4
<1> QED
  BY <1>1, <1>2 DEF List, E

\* What Free makes of the list, with a place left in it.
LEMMA PushedIs ==
  ASSUME free \in List, Len(free) < Group, NEW b \in DataZone, NEW l,
         l = Append(IF free = <<>> THEN << 0 >> ELSE free, b)
  PROVE  l \in List
<1> DEFINE E == {0} \cup DataZone
           f == IF free = <<>> THEN <<0>> ELSE free
<1>1. f \in Seq(E) /\ Len(f) < Group /\ Len(f) \in Nat /\ b \in E
  BY Geometry DEF List
<1> HIDE DEF E, f
<1>2. Append(f, b) \in Seq(E) /\ Len(Append(f, b)) = Len(f) + 1
  BY <1>1
<1> QED
  BY <1>1, <1>2, Geometry DEF List, E, f

LEMMA BaseInit == Init => Base
<1> SUFFICES ASSUME Init PROVE Base
  OBVIOUS
<1>1. table \in [DataZone -> List]
  BY FormattedList DEF Init, FormattedTables
<1>2. free \in List /\ saved \in List
  BY SuperLists DEF Init
<1>3. frees \in 0 .. MaxFree
  BY FreeAssumption DEF Init
<1>4. pc \in [Thread -> Pc] /\ blk \in [Thread -> {0} \cup DataZone]
  BY DEF Init, Pc
<1>5. InHand /\ Exclusive
  BY DEF Init, InHand, Exclusive, Inside
<1> QED
  BY <1>1, <1>2, <1>3, <1>4, <1>5 DEF Init, Base, TypeOK

\* The program counter of the thread that steps.
LEMMA GotoMeans ==
  ASSUME Base, NEW t \in Thread, NEW from, NEW to \in Pc, Goto(t, from, to)
  PROVE  /\ pc[t] = from /\ pc' \in [Thread -> Pc] /\ pc'[t] = to
         /\ \A u \in Thread : u # t => pc'[u] = pc[u]
BY DEF Goto, Base, TypeOK

LEMMA BlkMeans ==
  ASSUME Base, NEW t \in Thread, NEW b \in {0} \cup DataZone, blk' = [blk EXCEPT ![t] = b]
  PROVE  /\ blk' \in [Thread -> {0} \cup DataZone] /\ blk'[t] = b
         /\ \A u \in Thread : u # t => blk'[u] = blk[u]
BY DEF Base, TypeOK

\* InHand and Exclusive when one thread has moved.
LEMMA MovedBase ==
  ASSUME Base, NEW t \in Thread, NEW to \in Pc, pc'[t] = to,
         \A u \in Thread : u # t => pc'[u] = pc[u] /\ blk'[u] = blk[u],
         to \in {"load", "clear", "freelock", "free"} <=> blk'[t] # 0,
         to \in Inside => flock' = t,
         flock' = flock \/ flock = NoOne \/ flock = t
  PROVE  InHand' /\ Exclusive'
<1>1. InHand'
  BY DEF Base, InHand
<1>2. ASSUME NEW u \in Thread, pc'[u] \in Inside PROVE flock' = u
  <2>1. CASE u = t
    BY <1>2, <2>1
  <2>2. CASE u # t
    BY <1>2, <2>2, ThreadAssumption DEF Base, Exclusive
  <2> QED
    BY <2>1, <2>2
<1> QED
  BY <1>1, <1>2 DEF Exclusive

\* Who is in the middle of a call has the block it works on.
LEMMA InHandBlock ==
  ASSUME Base, NEW t \in Thread, pc[t] \in {"load", "clear", "freelock", "free"}
  PROVE  blk[t] \in DataZone
BY DEF Base, TypeOK, InHand

LEMMA BaseStep ==
  ASSUME Base, [Next]_vars
  PROVE  Base'
<1> USE DEF changes
<1>0. TypeOK /\ table \in [DataZone -> List] /\ InHand /\ Exclusive /\ 0 \notin DataZone
      /\ \A u \in Thread : pc[u] \in Inside => flock = u
  BY Geometry DEF Base, Exclusive
<1>1. ASSUME NEW t \in Thread, AllocEnter(t) PROVE Base'
  <2>1. pc' \in [Thread -> Pc] /\ InHand' /\ Exclusive'
    BY <1>1, GotoMeans, MovedBase, <1>0 DEF AllocEnter, TakeLock, Pc, Inside, InHand
  <2> QED
    BY <1>1, <2>1, <1>0 DEF AllocEnter, TakeLock, Base, TypeOK
<1>2. ASSUME NEW t \in Thread, AllocNoSpace(t) PROVE Base'
  <2>1. pc' \in [Thread -> Pc] /\ InHand' /\ Exclusive'
    BY <1>2, GotoMeans, MovedBase, <1>0 DEF AllocNoSpace, Pc, Inside, InHand
  <2>2. free' \in List
    BY <1>2, Geometry DEF AllocNoSpace, List
  <2> QED
    BY <1>2, <2>1, <2>2, <1>0 DEF AllocNoSpace, Base, TypeOK
<1>3. ASSUME NEW t \in Thread, AllocPop(t) PROVE Base'
  <2>1. /\ free # <<>> /\ Popped \in List /\ Top \in DataZone /\ free' = Popped
    BY <1>3, PoppedIs, <1>0 DEF AllocPop, TypeOK
  <2>2. PICK to \in {"load", "clear"} : Goto(t, "alloc", to) /\ flock' = IF to = "load" THEN flock ELSE NoOne
    BY <1>3 DEF AllocPop
  <2>3. blk' = [blk EXCEPT ![t] = Top]
    BY <1>3 DEF AllocPop
  <2>4. /\ blk' \in [Thread -> {0} \cup DataZone] /\ blk'[t] = Top
        /\ \A u \in Thread : u # t => blk'[u] = blk[u]
    BY <2>1, <2>3, BlkMeans
  <2>5. /\ pc[t] = "alloc" /\ pc' \in [Thread -> Pc] /\ pc'[t] = to
        /\ \A u \in Thread : u # t => pc'[u] = pc[u]
    BY <2>2, GotoMeans DEF Pc
  <2>6. flock = t /\ (to \in Inside => flock' = t) /\ (flock' = flock \/ flock = t)
    BY <2>2, <2>5, <1>0 DEF Inside
  <2>7. InHand' /\ Exclusive'
    <3>1. to \in Pc /\ (to \in {"load", "clear", "freelock", "free"} <=> blk'[t] # 0)
      BY <2>1, <2>4, <1>0 DEF Pc
    <3> QED
      BY <2>4, <2>5, <2>6, <3>1, MovedBase
  <2>8. flock' \in Thread \cup {NoOne} /\ owned' \subseteq DataZone /\ out' \subseteq DataZone
    BY <1>3, <2>1, <2>2, <1>0 DEF AllocPop, TypeOK
  <2> QED
    BY <1>3, <2>1, <2>4, <2>5, <2>7, <2>8, <1>0 DEF AllocPop, Base, TypeOK
<1>4. ASSUME NEW t \in Thread, AllocLoad(t) PROVE Base'
  <2>1. blk[t] \in DataZone /\ flock = t
    BY <1>4, InHandBlock, <1>0 DEF AllocLoad, Goto, Inside
  <2>2. pc' \in [Thread -> Pc] /\ InHand' /\ Exclusive'
    BY <1>4, <2>1, GotoMeans, MovedBase, <1>0 DEF AllocLoad, Unlock, Pc, Inside
  <2>3. free' \in List
    BY <1>4, <2>1, <1>0 DEF AllocLoad
  <2> QED
    BY <1>4, <2>2, <2>3, <1>0 DEF AllocLoad, Unlock, Base, TypeOK
<1>5. ASSUME NEW t \in Thread, AllocClear(t) PROVE Base'
  <2>1. blk' = [blk EXCEPT ![t] = 0]
    BY <1>5 DEF AllocClear
  <2>2. /\ blk' \in [Thread -> {0} \cup DataZone] /\ blk'[t] = 0
        /\ \A u \in Thread : u # t => blk'[u] = blk[u]
    BY <2>1, BlkMeans
  <2>3. pc' \in [Thread -> Pc] /\ InHand' /\ Exclusive'
    BY <1>5, <2>2, GotoMeans, MovedBase DEF AllocClear, Pc, Inside
  <2>4. table' \in [DataZone -> List]
    <3>1. <<>> \in List
      BY Geometry DEF List
    <3>2. table' = [table EXCEPT ![blk[t]] = <<>>]
      BY <1>5 DEF AllocClear
    <3> QED
      BY <3>1, <3>2, <1>0
  <2> QED
    BY <1>5, <2>2, <2>3, <2>4, <1>0 DEF AllocClear, MarkModified, Base, TypeOK
<1>6. ASSUME NEW t \in Thread, FreeEnter(t) PROVE Base'
  <2>1. CASE UNCHANGED <<free, table, fmod, flock, saved, pc, blk, owned, changes, spilled, frees>> /\ crashed' = TRUE
    BY <2>1, <1>0 DEF Base, TypeOK, InHand, Exclusive
  <2>2. ASSUME Goto(t, "idle", "freelock"), NEW b \in Freeable, blk' = [blk EXCEPT ![t] = b],
               frees < MaxFree, frees' = frees + 1, MarkModified,
               UNCHANGED <<free, table, flock, saved, owned, changes, spilled, crashed>>
        PROVE  Base'
    <3>1. b \in DataZone
      BY <1>0 DEF Freeable, TypeOK
    <3>2. /\ blk' \in [Thread -> {0} \cup DataZone] /\ blk'[t] = b
          /\ \A u \in Thread : u # t => blk'[u] = blk[u]
      BY <2>2, <3>1, BlkMeans
    <3>3. pc' \in [Thread -> Pc] /\ InHand' /\ Exclusive'
      BY <2>2, <3>1, <3>2, GotoMeans, MovedBase, <1>0 DEF Pc, Inside
    <3>4. frees' \in 0 .. MaxFree
      BY <2>2, <1>0, FreeAssumption DEF TypeOK
    <3> QED
      BY <2>2, <3>2, <3>3, <3>4, <1>0 DEF MarkModified, Base, TypeOK
  <2> QED
    BY <1>6, <2>1, <2>2 DEF FreeEnter
<1>7. ASSUME NEW t \in Thread, FreeLock(t) PROVE Base'
  <2>1. pc' \in [Thread -> Pc] /\ InHand' /\ Exclusive'
    BY <1>7, GotoMeans, MovedBase, <1>0 DEF FreeLock, TakeLock, Pc, Inside, InHand
  <2> QED
    BY <1>7, <2>1, <1>0 DEF FreeLock, TakeLock, Base, TypeOK
<1>8. ASSUME NEW t \in Thread, FreePush(t) PROVE Base'
  <2>1. blk[t] \in DataZone /\ flock = t
    BY <1>8, InHandBlock, <1>0 DEF FreePush, Goto, Inside
  <2>2. blk' = [blk EXCEPT ![t] = 0]
    BY <1>8 DEF FreePush
  <2>3. /\ blk' \in [Thread -> {0} \cup DataZone] /\ blk'[t] = 0
        /\ \A u \in Thread : u # t => blk'[u] = blk[u]
    BY <2>2, BlkMeans
  <2>4. pc' \in [Thread -> Pc] /\ InHand' /\ Exclusive'
    BY <1>8, <2>1, <2>3, GotoMeans, MovedBase DEF FreePush, Unlock, Pc, Inside
  <2>5. free' \in List /\ table' \in [DataZone -> List] /\ spilled' \in BOOLEAN
    <3>1. CASE Full
      <4>1. PICK stale \in {0} \cup DataZone :
              table' = [table EXCEPT ![blk[t]] =
                          [j \in 1 .. Group |-> IF j <= CopiedEntries THEN free[j] ELSE stale]]
        BY <1>8, <3>1 DEF FreePush
      <4> DEFINE f == [j \in 1 .. Group |-> IF j <= CopiedEntries THEN free[j] ELSE stale]
      <4>2. Len(free) = Group /\ free \in Seq({0} \cup DataZone)
        BY <3>1, <1>0, Geometry DEF Full, TypeOK, List
      <4>3. \A j \in 1 .. Group : f[j] \in {0} \cup DataZone
        BY <4>2
      <4>4. f \in List
        BY <4>3, Geometry DEF List
      <4>5. free' = <<blk[t]>> /\ spilled' = TRUE
        BY <1>8, <3>1 DEF FreePush
      <4>6. free' \in List
        BY <2>1, <4>5, Geometry DEF List
      <4> HIDE DEF f
      <4> QED
        BY <1>0, <4>1, <4>4, <4>5, <4>6 DEF f
    <3>2. CASE ~ Full
      <4>1. free' = Append(IF free = <<>> THEN <<0>> ELSE free, blk[t]) /\ UNCHANGED <<table, spilled>>
        BY <1>8, <3>2 DEF FreePush
      <4>2. free \in List /\ Len(free) < Group
        BY <3>2, <1>0, Geometry DEF Full, TypeOK, List
      <4> QED
        BY <1>0, <2>1, <4>1, <4>2, PushedIs DEF TypeOK
    <3> QED
      BY <3>1, <3>2
  <2> QED
    BY <1>8, <2>1, <2>3, <2>4, <2>5, <1>0 DEF FreePush, MarkModified, Unlock, Base, TypeOK
<1>9. ASSUME NEW t \in Thread, UpdateEnter(t) PROVE Base'
  <2>1. pc' \in [Thread -> Pc] /\ InHand' /\ Exclusive'
    BY <1>9, GotoMeans, MovedBase, <1>0 DEF UpdateEnter, Pc, Inside, InHand
  <2> QED
    BY <1>9, <2>1, <1>0 DEF UpdateEnter, Base, TypeOK
<1>10. ASSUME NEW t \in Thread, UpdateLock(t) PROVE Base'
  <2>1. pc' \in [Thread -> Pc] /\ InHand' /\ Exclusive'
    BY <1>10, GotoMeans, MovedBase, <1>0 DEF UpdateLock, TakeLock, Pc, Inside, InHand
  <2> QED
    BY <1>10, <2>1, <1>0 DEF UpdateLock, TakeLock, Base, TypeOK
<1>11. ASSUME NEW t \in Thread, UpdateSave(t) PROVE Base'
  <2>1. flock = t
    BY <1>11, <1>0 DEF UpdateSave, Goto, Inside
  <2>2. pc' \in [Thread -> Pc] /\ InHand' /\ Exclusive'
    BY <1>11, <2>1, GotoMeans, MovedBase, <1>0 DEF UpdateSave, Unlock, Pc, Inside, InHand
  <2> QED
    BY <1>11, <2>2, <1>0 DEF UpdateSave, Saved, Unlock, Base, TypeOK
<1>12. CASE UNCHANGED vars
  BY <1>12, <1>0 DEF vars, Base, TypeOK, InHand, Exclusive
<1> QED
  BY <1>1, <1>2, <1>3, <1>4, <1>5, <1>6, <1>7, <1>8, <1>9, <1>10, <1>11, <1>12 DEF Next, Step

-----------------------------------------------------------------------------
\* LockedMeansInUse and UnmodifiedMeansSaved.

\* The list changes in the hands of the lock's owner only, inside.
LEMMA ListChanges ==
  ASSUME Base, [Next]_vars, free' # free
  PROVE  \E t \in Thread : /\ flock = t /\ pc[t] \in {"alloc", "load", "free"}
                           /\ AllocNoSpace(t) \/ AllocPop(t) \/ AllocLoad(t) \/ FreePush(t)
<1> USE DEF Base, Exclusive, Inside, changes
<1>1. PICK t \in Thread : AllocNoSpace(t) \/ AllocPop(t) \/ AllocLoad(t) \/ FreePush(t)
  BY DEF Next, Step, AllocEnter, AllocClear, FreeEnter, FreeLock, UpdateEnter, UpdateLock,
         UpdateSave, vars
<1>2. pc[t] \in {"alloc", "load", "free"}
  BY <1>1 DEF AllocNoSpace, AllocPop, AllocLoad, FreePush, Goto
<1> QED
  BY <1>1, <1>2

LEMMA LockedStep ==
  ASSUME Base, LockedMeansInUse, [Next]_vars
  PROVE  LockedMeansInUse'
<1> USE DEF changes
<1>1. ASSUME NEW t \in Thread, AllocNoSpace(t) PROVE LockedMeansInUse'
  BY <1>1 DEF AllocNoSpace, LockedMeansInUse
<1>2. ASSUME NEW t \in Thread, AllocPop(t) PROVE LockedMeansInUse'
  <2>1. pc[t] = "alloc" /\ flock = t
    BY <1>2 DEF AllocPop, Goto, Base, Exclusive, Inside
  <2>2. CASE Bottom
    <3>1. flock' = t /\ pc'[t] = "load"
      BY <1>2, <2>1, <2>2, GotoMeans DEF AllocPop, Pc
    <3> QED
      BY <3>1 DEF LockedMeansInUse
  <2>3. CASE ~ Bottom
    BY <1>2, <2>3 DEF AllocPop, LockedMeansInUse
  <2> QED
    BY <2>2, <2>3
<1>3. ASSUME NEW t \in Thread, AllocLoad(t) \/ FreePush(t) \/ UpdateSave(t) PROVE LockedMeansInUse'
  BY <1>3 DEF AllocLoad, FreePush, UpdateSave, Unlock, LockedMeansInUse
<1>4. ASSUME NEW t \in Thread, AllocEnter(t) \/ FreeLock(t) \/ UpdateLock(t) PROVE LockedMeansInUse'
  <2>1. flock' = t /\ pc'[t] \in {"alloc", "free", "save"}
    BY <1>4, GotoMeans DEF AllocEnter, FreeLock, UpdateLock, TakeLock, Pc
  <2> QED
    BY <2>1 DEF LockedMeansInUse
<1>5. ASSUME NEW t \in Thread, AllocClear(t) \/ FreeEnter(t) \/ UpdateEnter(t) PROVE LockedMeansInUse'
  <2>1. UNCHANGED <<flock, free>>
    BY <1>5 DEF AllocClear, FreeEnter, UpdateEnter
  <2>2. \A u \in Thread : pc'[u] = pc[u] \/ pc[u] \in {"clear", "idle"}
    BY <1>5, GotoMeans DEF AllocClear, FreeEnter, UpdateEnter, Pc
  <2> QED
    BY <2>1, <2>2 DEF LockedMeansInUse, Base, TypeOK
<1>6. CASE UNCHANGED vars
  BY <1>6 DEF vars, LockedMeansInUse
<1> QED
  BY <1>1, <1>2, <1>3, <1>4, <1>5, <1>6 DEF Next, Step

\* The owner of s_flock is inside Alloc, Free or Update, or an Alloc has left the
\* lock behind with the list empty (FileSystem.cpp:297): with any number of threads.
THEOREM LockedMeansInUseHolds == Spec => []LockedMeansInUse
<1>1. Init => Base /\ LockedMeansInUse
  BY BaseInit DEF Init, LockedMeansInUse
<1>2. Base /\ LockedMeansInUse /\ [Next]_vars => (Base /\ LockedMeansInUse)'
  BY BaseStep, LockedStep
<1> QED
  BY <1>1, <1>2, PTL DEF Spec

\* UnmodifiedMeansSaved, with the steps of a call between which the list has changed
\* and s_fmod has not: and once the lock is left behind nothing is promised.
SavedUnless ==
  \/ fmod
  \/ \E t \in Thread : pc[t] \in {"load", "clear"}
  \/ flock # NoOne /\ pc[flock] \notin Inside
  \/ saved = free

LEMMA SavedStep ==
  ASSUME Base, SavedUnless, [Next]_vars
  PROVE  SavedUnless'
<1> USE DEF changes
<1>0. flock \in Thread \cup {NoOne} /\ \A u \in Thread : pc[u] \in Inside => flock = u
  BY DEF Base, TypeOK, Exclusive
<1>1. ASSUME NEW t \in Thread, AllocNoSpace(t) PROVE SavedUnless'
  <2>1. flock' = t /\ pc'[t] = "idle"
    BY <1>1, <1>0, GotoMeans DEF AllocNoSpace, Pc, Inside
  <2> QED
    BY <2>1, ThreadAssumption DEF SavedUnless, Inside
<1>2. ASSUME NEW t \in Thread, AllocPop(t) \/ AllocLoad(t) PROVE SavedUnless'
  <2>1. pc'[t] \in {"load", "clear"}
    BY <1>2, GotoMeans DEF AllocPop, AllocLoad, Pc
  <2> QED
    BY <2>1 DEF SavedUnless
<1>3. ASSUME NEW t \in Thread, AllocClear(t) \/ FreePush(t) PROVE SavedUnless'
  BY <1>3 DEF AllocClear, FreePush, MarkModified, SavedUnless
<1>4. ASSUME NEW t \in Thread, FreeEnter(t) PROVE SavedUnless'
  BY <1>4 DEF FreeEnter, MarkModified, SavedUnless
<1>5. ASSUME NEW t \in Thread, UpdateSave(t) PROVE SavedUnless'
  BY <1>5 DEF UpdateSave, Saved, SavedUnless
<1>6. ASSUME NEW t \in Thread, AllocEnter(t) \/ FreeLock(t) \/ UpdateLock(t) PROVE SavedUnless'
  <2>1. flock = NoOne /\ UNCHANGED <<free, saved, fmod>>
    BY <1>6 DEF AllocEnter, FreeLock, UpdateLock, TakeLock
  <2>2. fmod \/ saved = free \/ \E u \in Thread : u # t /\ pc[u] \in {"load", "clear"}
    BY <1>6, <2>1 DEF SavedUnless, AllocEnter, FreeLock, UpdateLock, Goto
  <2>3. \A u \in Thread : u # t => pc'[u] = pc[u]
    BY <1>6, GotoMeans DEF AllocEnter, FreeLock, UpdateLock, Pc
  <2> QED
    BY <2>1, <2>2, <2>3 DEF SavedUnless
<1>7. ASSUME NEW t \in Thread, UpdateEnter(t) PROVE SavedUnless'
  BY <1>7 DEF UpdateEnter, SavedUnless
<1>8. CASE UNCHANGED vars
  BY <1>8 DEF vars, SavedUnless
<1> QED
  BY <1>1, <1>2, <1>3, <1>4, <1>5, <1>6, <1>7, <1>8 DEF Next, Step

\* Update may skip a superblock whose s_fmod is 0: with any number of threads.
THEOREM UnmodifiedMeansSavedHolds == Spec => []UnmodifiedMeansSaved
<1>1. Init => Base /\ SavedUnless
  BY BaseInit DEF Init, SavedUnless
<1>2. Base /\ SavedUnless /\ [Next]_vars => (Base /\ SavedUnless)'
  BY BaseStep, SavedStep
<1>3. Base /\ SavedUnless => UnmodifiedMeansSaved
  BY ThreadAssumption DEF Base, Exclusive, Inside, SavedUnless, UnmodifiedMeansSaved
<1> QED
  BY <1>1, <1>2, <1>3, PTL DEF Spec

-----------------------------------------------------------------------------
\* Where every block is, until Free has written a table.  The tables from the
\* bottom of the list down are as on the formatted disk.

Kept(b) == \A x \in TableBlock : x <= b => table[x] = FormattedTables[x]

\* Above the bottom entry of the list, each block is on the list or handed out.
Stacked ==
  /\ free # <<>> /\ free[1] \in {0} \cup TableBlock /\ Kept(free[1])
  /\ \A j \in 2 .. Len(free) : free[j] \in DataZone /\ free[j] > free[1] /\ free[j] \notin owned
  /\ \A j, k \in 2 .. Len(free) : j # k => free[j] # free[k]
  /\ \A x \in owned : x > free[1]
  /\ \A x \in DataZone \ owned : x > free[1] => \E j \in 2 .. Len(free) : free[j] = x

\* The bottom entry has been taken, and its table not yet loaded.
Loading(t) ==
  /\ pc[t] = "load" /\ free = <<>> /\ blk[t] \in TableBlock /\ Kept(blk[t])
  /\ owned = {x \in DataZone : x >= blk[t]}

\* The end of the chain has been taken, and the lock left behind.
Exhausted ==
  /\ free = <<>> /\ owned = DataZone /\ flock # NoOne
  /\ \A t \in Thread : pc[t] \notin Inside

\* What a thread has in hand has been handed out.
HandedOut == \A t \in Thread : blk[t] # 0 => blk[t] \in owned

Placed ==
  /\ \/ Stacked /\ \A t \in Thread : pc[t] # "load"
     \/ \E t \in Thread : Loading(t)
     \/ Exhausted
  /\ HandedOut /\ OneTaker

LEMMA PlacedInit == Init => Placed
<1> SUFFICES ASSUME Init PROVE Placed
  OBVIOUS
<1>1. Stacked
  <2> DEFINE n == Len(SuperList)
  <2>1. /\ n \in Nat /\ n >= 1 /\ SuperList[1] \in TableBlock /\ SuperList[1] \in Nat
        /\ \A j \in 1 .. n : SuperList[j] = SuperList[1] + (j - 1)
        /\ SuperList[1] + (n - 1) = DataEnd
    BY SuperLists, Geometry DEF List
  <2>2. free = SuperList /\ free # <<>>
    BY <2>1 DEF Init
  <2>3. Kept(free[1])
    BY DEF Init, Kept
  <2> HIDE DEF n
  <2>4. \A j \in 2 .. n : SuperList[j] \in DataZone /\ SuperList[j] > SuperList[1]
    BY <2>1, Geometry
  <2>5. \A j, k \in 2 .. n : j # k => SuperList[j] # SuperList[k]
    BY <2>1
  <2>6. ASSUME NEW x \in DataZone, x > SuperList[1] PROVE \E j \in 2 .. n : SuperList[j] = x
    <3>1. PICK j \in 2 .. n : j = x - SuperList[1] + 1
      BY <2>1, <2>6, Geometry
    <3>2. SuperList[j] = SuperList[1] + (j - 1)
      BY <2>1, <3>1
    <3>3. x \in Nat
      BY Geometry
    <3>4. SuperList[j] = x
      BY <2>1, <3>1, <3>2, <3>3
    <3> QED
      BY <3>4
  <2>7. owned = {}
    BY DEF Init
  <2>8. n = Len(free)
    BY <2>2 DEF n
  <2> QED
    BY <2>1, <2>2, <2>3, <2>4, <2>5, <2>6, <2>7, <2>8 DEF Stacked
<1> QED
  BY <1>1 DEF Init, Placed, HandedOut, OneTaker

\* Where list, handed out blocks and tables stay as they are, so does Stacked.
LEMMA StackedStays ==
  ASSUME Stacked, UNCHANGED <<free, owned>>, \A x \in TableBlock : x <= free[1] => table'[x] = table[x]
  PROVE  Stacked'
BY DEF Stacked, Kept

LEMMA PopPlaced ==
  ASSUME Base, Placed, ~ spilled, NEW t \in Thread, AllocPop(t)
  PROVE  Placed'
<1>1. /\ free # <<>> /\ free' = Popped /\ Top # 0 /\ blk' = [blk EXCEPT ![t] = Top]
      /\ owned' = owned \cup {Top} /\ UNCHANGED table
      /\ Goto(t, "alloc", IF Bottom THEN "load" ELSE "clear")
  BY DEF AllocPop
<1> DEFINE n == Len(free)
<1>2. /\ free \in List /\ n \in 1 .. Group /\ n \in Nat /\ Popped \in List /\ Len(Popped) = n - 1
      /\ \A j \in 1 .. n - 1 : Popped[j] = free[j]
      /\ Top = free[n] /\ Top \in DataZone
  BY <1>1, PoppedIs, Geometry DEF Top, Base, TypeOK
<1>3. /\ pc[t] = "alloc" /\ pc'[t] = (IF Bottom THEN "load" ELSE "clear")
      /\ \A u \in Thread : u # t => pc'[u] = pc[u]
  BY <1>1, GotoMeans DEF Pc
<1>4. /\ blk'[t] = Top /\ \A u \in Thread : u # t => blk'[u] = blk[u]
  BY <1>1, <1>2, BlkMeans
<1>5. \A u \in Thread : u # t => pc[u] # "load"
  BY <1>3 DEF Base, Exclusive, Inside
<1>6. Stacked
  BY <1>1, <1>3 DEF Placed, Loading, Exhausted, Inside
<1>7. Top \notin owned
  <2>1. CASE n = 1
    BY <1>2, <1>6, <2>1, Geometry DEF Stacked, Base, TypeOK
  <2>2. CASE n # 1
    BY <1>2, <1>6, <2>2 DEF Stacked
  <2> QED
    BY <2>1, <2>2
<1>8. HandedOut' /\ OneTaker'
  <2>1. \A u \in Thread : u # t /\ blk[u] # 0 => blk[u] # Top
    BY <1>7 DEF Placed, HandedOut
  <2> QED
    BY <1>1, <1>2, <1>4, <2>1 DEF Placed, HandedOut, OneTaker
<1>9. CASE n = 1
  <2>1. Bottom /\ free' = <<>> /\ Top = free[1]
    BY <1>1, <1>2, <1>9 DEF Bottom, List
  <2> PICK b \in TableBlock : b = Top /\ Kept(b)
    BY <1>1, <1>6, <2>1 DEF Stacked
  <2>3. \A x \in DataZone : x \in owned' <=> x >= b
    BY <1>1, <1>2, <1>6, <1>9, <2>1, Geometry DEF Stacked, Base, TypeOK
  <2>4. owned' = {x \in DataZone : x >= b}
    BY <1>1, <1>2, <2>3 DEF Base, TypeOK
  <2>5. Kept(b)'
    BY <1>1 DEF Kept
  <2>6. Loading(t)'
    BY <1>1, <1>3, <1>4, <2>1, <2>4, <2>5 DEF Loading, Kept
  <2> QED
    BY <1>8, <2>6 DEF Placed
<1>10. CASE n # 1
  <2>1. ~ Bottom /\ free' # <<>> /\ free'[1] = free[1] /\ Len(free') = n - 1
    BY <1>1, <1>2, <1>10 DEF Bottom
  <2>2. \A j \in 2 .. n - 1 : free'[j] = free[j] /\ j \in 2 .. n /\ j # n
    BY <1>1, <1>2
  <2>3. n \in 2 .. n /\ Top > free[1]
    BY <1>2, <1>6, <1>10 DEF Stacked
  <2> HIDE DEF n
  <2>4. \A j \in 2 .. n - 1 : free'[j] \in DataZone /\ free'[j] > free'[1] /\ free'[j] \notin owned'
    BY <1>1, <1>2, <1>6, <2>1, <2>2, <2>3 DEF Stacked, n
  <2>5. \A j, k \in 2 .. n - 1 : j # k => free'[j] # free'[k]
    BY <1>6, <2>2 DEF Stacked, n
  <2>6. \A x \in owned' : x > free'[1]
    BY <1>1, <1>6, <2>1, <2>3 DEF Stacked
  <2>7. ASSUME NEW x \in DataZone \ owned', x > free'[1] PROVE \E j \in 2 .. n - 1 : free'[j] = x
    <3>1. PICK j \in 2 .. n : free[j] = x
      BY <1>1, <1>6, <2>1, <2>7 DEF Stacked, n
    <3>2. j # n
      BY <1>1, <1>2, <2>7, <3>1 DEF n
    <3>3. j \in 2 .. n - 1
      BY <1>2, <3>1, <3>2 DEF n
    <3> QED
      BY <2>2, <3>1, <3>3
  <2>8. Stacked'
    BY <1>1, <1>6, <2>1, <2>4, <2>5, <2>6, <2>7 DEF Stacked, Kept
  <2>9. \A u \in Thread : pc'[u] # "load"
    BY <1>3, <1>5, <2>1
  <2> QED
    BY <1>8, <2>8, <2>9 DEF Placed
<1> QED
  BY <1>9, <1>10

LEMMA LoadPlaced ==
  ASSUME Base, Placed, ~ spilled, NEW t \in Thread, AllocLoad(t)
  PROVE  Placed'
<1>1. /\ pc[t] = "load" /\ pc'[t] = "clear" /\ \A u \in Thread : u # t => pc'[u] = pc[u]
      /\ free' = table[blk[t]] /\ UNCHANGED <<table, blk, owned>>
  BY GotoMeans DEF AllocLoad, Pc
<1>2. \A u \in Thread : pc[u] = "load" => u = t
  BY <1>1 DEF Base, Exclusive, Inside
<1>3. Loading(t)
  <2>1. \A u \in Thread : Loading(u) => u = t
    BY <1>2 DEF Loading
  <2>2. ~ Exhausted
    BY <1>1 DEF Exhausted, Inside
  <2> QED
    BY <1>1, <2>1, <2>2 DEF Placed
<1>4. PICK b \in TableBlock : b = blk[t] /\ Kept(b) /\ owned = {x \in DataZone : x >= b}
  BY <1>3 DEF Loading
<1>5. b \in DataZone /\ b \in Nat
  BY Geometry
<1>6. free' = FormattedTables[b]
  BY <1>1, <1>4, <1>5 DEF Kept
<1>7. /\ free' \in List /\ Len(free') = Group /\ free'[1] \in {0} \cup TableBlock
      /\ IF free'[1] = 0 THEN b - Group < DataStart ELSE free'[1] = b - Group
      /\ \A j \in 2 .. Group : free'[j] = b - Group + (j - 1) /\ free'[j] \in DataZone
  BY <1>6, TableLists
<1>8. free' # <<>>
  BY <1>7, Geometry
<1>9. PICK k \in {0} \cup TableBlock : k = free'[1]
  BY <1>7
<1>17. k < b /\ k \in Nat /\ (\A x \in DataZone : x > k <=> x > b - Group)
  BY <1>5, <1>7, <1>9, Geometry
<1>10. Kept(k)'
  BY <1>1, <1>4, <1>5, <1>17, Geometry DEF Kept
<1>11. \A j \in 2 .. Group : free'[j] > k /\ free'[j] \notin owned'
  <2> SUFFICES ASSUME NEW j \in 2 .. Group PROVE free'[j] > k /\ free'[j] \notin owned'
    OBVIOUS
  <2>1. free'[j] \in DataZone /\ free'[j] = b - Group + (j - 1)
    BY <1>7
  <2>2. free'[j] > b - Group /\ ~ (free'[j] >= b)
    BY <1>5, <2>1, Geometry
  <2> QED
    BY <1>1, <1>4, <1>17, <2>1, <2>2
<1>12. \A i, j \in 2 .. Group : i # j => free'[i] # free'[j]
  BY <1>5, <1>7, Geometry
<1>13. \A x \in owned' : x > k
  BY <1>1, <1>4, <1>5, <1>17, Geometry
<1>14. ASSUME NEW x \in DataZone \ owned', x > k PROVE \E j \in 2 .. Group : free'[j] = x
  <2>1. x > b - Group /\ x < b /\ x \in Nat
    BY <1>1, <1>4, <1>5, <1>17, <1>14, Geometry
  <2>2. x - (b - Group) + 1 \in 2 .. Group
    BY <1>5, <2>1, Geometry
  <2>3. free'[x - (b - Group) + 1] = x
    BY <1>5, <1>7, <2>1, <2>2, Geometry
  <2> QED
    BY <2>2, <2>3
<1>15. Stacked'
  BY <1>7, <1>8, <1>9, <1>10, <1>11, <1>12, <1>13, <1>14 DEF Stacked, Kept
<1>16. \A u \in Thread : pc'[u] # "load"
  BY <1>1, <1>2
<1> QED
  BY <1>1, <1>15, <1>16 DEF Placed, HandedOut, OneTaker

LEMMA ClearPlaced ==
  ASSUME Base, Placed, ~ spilled, NEW t \in Thread, AllocClear(t)
  PROVE  Placed'
<1>1. /\ pc[t] = "clear" /\ pc'[t] = "idle" /\ \A u \in Thread : u # t => pc'[u] = pc[u]
      /\ blk' = [blk EXCEPT ![t] = 0] /\ table' = [table EXCEPT ![blk[t]] = <<>>]
      /\ UNCHANGED <<free, owned, flock>>
  BY GotoMeans DEF AllocClear, Pc
<1>2. blk'[t] = 0 /\ \A u \in Thread : u # t => blk'[u] = blk[u]
  BY <1>1, BlkMeans
<1>3. blk[t] \in DataZone /\ blk[t] \in owned /\ blk[t] # 0
  BY <1>1, InHandBlock, Geometry DEF Placed, HandedOut
<1>4. \A x \in TableBlock : x # blk[t] => table'[x] = table[x]
  BY <1>1, Geometry DEF Base
<1>5. HandedOut' /\ OneTaker'
  BY <1>1, <1>2 DEF Placed, HandedOut, OneTaker
<1>6. CASE Stacked /\ \A u \in Thread : pc[u] # "load"
  <2>1. blk[t] > free[1]
    BY <1>3, <1>6 DEF Stacked
  <2>2. free[1] \in Nat
    <3>1. free[1] \in {0} \cup TableBlock
      BY <1>6 DEF Stacked
    <3>2. {0} \cup TableBlock \subseteq Nat
      BY Geometry
    <3> QED
      BY <3>1, <3>2, Zenon
  <2>3. \A x \in TableBlock : x <= free[1] => x # blk[t]
    BY <1>3, <2>1, <2>2, Geometry
  <2>4. Stacked'
    BY <1>1, <1>4, <1>6, <2>3, StackedStays
  <2> QED
    BY <1>1, <1>5, <1>6, <2>4 DEF Placed
<1>7. ASSUME NEW u \in Thread, Loading(u) PROVE Placed'
  <2>1. u # t /\ blk[u] # blk[t]
    BY <1>1, <1>3, <1>7 DEF Loading, Placed, OneTaker
  <2>2. blk[t] >= blk[u] /\ blk[u] \in Nat /\ blk[t] \in Nat
    BY <1>3, <1>7, Geometry DEF Loading
  <2>3. \A x \in TableBlock : x <= blk[u] => table'[x] = table[x]
    <3> SUFFICES ASSUME NEW x \in TableBlock, x <= blk[u] PROVE x # blk[t]
      BY <1>4
    <3>1. x \in Nat
      BY Geometry
    <3> QED
      BY <2>1, <2>2, <3>1
  <2>4. Kept(blk[u])' /\ blk'[u] = blk[u]
    BY <1>2, <1>7, <2>1, <2>3 DEF Kept, Loading
  <2>5. Loading(u)'
    BY <1>1, <1>7, <2>1, <2>4 DEF Loading
  <2> QED
    BY <1>5, <2>5 DEF Placed
<1>8. CASE Exhausted
  <2>1. Exhausted'
    BY <1>1, <1>8 DEF Exhausted, Inside
  <2> QED
    BY <1>5, <2>1 DEF Placed
<1> QED
  BY <1>6, <1>7, <1>8 DEF Placed

LEMMA PushPlaced ==
  ASSUME Base, Placed, ~ spilled', NEW t \in Thread, FreePush(t)
  PROVE  Placed'
<1>1. /\ pc[t] = "free" /\ pc'[t] = "idle" /\ \A u \in Thread : u # t => pc'[u] = pc[u]
      /\ blk' = [blk EXCEPT ![t] = 0] /\ owned' = owned \ {blk[t]} /\ ~ Full /\ UNCHANGED <<table, spilled>>
      /\ free' = Append(IF free = <<>> THEN <<0>> ELSE free, blk[t])
  BY GotoMeans DEF FreePush, Pc
<1>2. blk'[t] = 0 /\ \A u \in Thread : u # t => blk'[u] = blk[u]
  BY <1>1, BlkMeans
<1>3. /\ blk[t] \in DataZone /\ blk[t] \in owned /\ blk[t] # 0
      /\ \A u \in Thread : u # t => blk[u] # blk[t]
  BY <1>1, InHandBlock, Geometry DEF Placed, HandedOut, OneTaker
<1>4. \A u \in Thread : pc[u] # "load"
  BY <1>1 DEF Base, Exclusive, Inside
<1>5. Stacked
  BY <1>1, <1>4 DEF Placed, Loading, Exhausted, Inside
<1>6. HandedOut' /\ OneTaker'
  BY <1>1, <1>2, <1>3 DEF Placed, HandedOut, OneTaker
<1> DEFINE n == Len(free)
           E == {0} \cup DataZone
<1>7. /\ free \in Seq(E) /\ n \in Nat \ {0} /\ blk[t] \in E /\ free' = Append(free, blk[t])
  BY <1>1, <1>3, <1>5 DEF Base, TypeOK, List, Stacked
<1>8. Len(free') = n + 1 /\ free'[n + 1] = blk[t] /\ \A j \in 1 .. n : free'[j] = free[j]
  <2> HIDE DEF E
  <2> QED
    BY <1>7
<1>9. free' # <<>> /\ free'[1] = free[1]
  BY <1>7, <1>8
<1> DEFINE b == blk[t]
<1>10. b > free[1]
  BY <1>3, <1>5 DEF Stacked
<1> HIDE DEF n, E
<1>11. \A j \in 2 .. n + 1 : \/ j = n + 1 /\ free'[j] = b
                             \/ j \in 2 .. n /\ free'[j] = free[j]
  BY <1>7, <1>8
<1>12. \A j \in 2 .. n + 1 : free'[j] \in DataZone /\ free'[j] > free'[1] /\ free'[j] \notin owned'
  BY <1>1, <1>3, <1>5, <1>9, <1>10, <1>11 DEF Stacked, n
<1>13. \A j, k \in 2 .. n + 1 : j # k => free'[j] # free'[k]
  BY <1>3, <1>5, <1>11 DEF Stacked, n
<1>14. \A x \in owned' : x > free'[1]
  BY <1>1, <1>5, <1>9 DEF Stacked
<1>15. ASSUME NEW x \in DataZone \ owned', x > free'[1] PROVE \E j \in 2 .. n + 1 : free'[j] = x
  <2>1. CASE x = b
    <3>1. n >= 1
      BY <1>7
    <3> QED
      BY <1>7, <1>8, <2>1, <3>1
  <2>2. CASE x # b
    <3>1. PICK j \in 2 .. n : free[j] = x
      BY <1>1, <1>5, <1>9, <1>15, <2>2 DEF Stacked, n
    <3> QED
      BY <1>7, <1>8, <3>1
  <2> QED
    BY <2>1, <2>2
<1>16. Stacked'
  BY <1>1, <1>5, <1>8, <1>9, <1>12, <1>13, <1>14, <1>15 DEF Stacked, Kept
<1> QED
  BY <1>1, <1>4, <1>6, <1>16 DEF Placed

LEMMA PlacedStep ==
  ASSUME Base, ~ spilled => Placed, [Next]_vars
  PROVE  ~ spilled' => Placed'
<1> USE DEF changes
<1> SUFFICES ASSUME ~ spilled' PROVE Placed'
  OBVIOUS
<1>0. ~ spilled
  BY DEF Next, Step, AllocEnter, AllocNoSpace, AllocPop, AllocLoad, AllocClear, FreeEnter,
         FreeLock, FreePush, UpdateEnter, UpdateLock, UpdateSave, vars
<1>1. Placed
  BY <1>0
<1>2. ASSUME NEW t \in Thread, AllocNoSpace(t) PROVE Placed'
  <2>1. /\ pc[t] = "alloc" /\ pc'[t] = "idle" /\ \A u \in Thread : u # t => pc'[u] = pc[u]
        /\ free # <<>> /\ Top = 0 /\ free' = <<>> /\ flock' = t /\ UNCHANGED <<owned, blk>>
    BY <1>2, GotoMeans DEF AllocNoSpace, Pc, Base, Exclusive, Inside
  <2>2. Stacked
    BY <1>1, <2>1 DEF Placed, Loading, Exhausted, Inside
  <2>3. Len(free) = 1
    <3>1. Top = free[Len(free)] /\ Len(free) \in Nat \ {0}
      BY <2>1 DEF Top, Base, TypeOK, List
    <3>2. \A j \in 2 .. Len(free) : free[j] # 0
      BY <2>2, Geometry DEF Stacked
    <3> QED
      BY <2>1, <3>1, <3>2
  <2>4. free[1] = 0
    BY <2>1, <2>3 DEF Top
  <2>5. owned = DataZone
    <3>1. \A x \in DataZone : x > 0
      BY Geometry
    <3>2. DataZone \ owned = {}
      BY <2>2, <2>3, <2>4, <3>1 DEF Stacked
    <3> QED
      BY <3>2 DEF Base, TypeOK
  <2>6. \A u \in Thread : pc'[u] \notin Inside
    BY <2>1 DEF Base, Exclusive, Inside
  <2>7. Exhausted'
    BY <2>1, <2>5, <2>6, ThreadAssumption DEF Exhausted
  <2>8. HandedOut' /\ OneTaker'
    BY <1>0, <1>1, <2>1 DEF Placed, HandedOut, OneTaker
  <2> QED
    BY <2>7, <2>8 DEF Placed
<1>3. ASSUME NEW t \in Thread, FreeEnter(t) PROVE Placed'
  <2>1. CASE UNCHANGED <<free, table, flock, pc, blk, owned>>
    BY <1>0, <1>1, <2>1 DEF Placed, Stacked, Loading, Exhausted, Kept, HandedOut, OneTaker
  <2>2. ASSUME Goto(t, "idle", "freelock"), NEW b \in Freeable, blk' = [blk EXCEPT ![t] = b],
               UNCHANGED <<free, table, flock, owned>>
        PROVE  Placed'
    <3>1. b \in DataZone /\ b \in owned /\ \A u \in Thread : blk[u] # b
      BY DEF Freeable, Base, TypeOK
    <3>2. blk'[t] = b /\ \A u \in Thread : u # t => blk'[u] = blk[u]
      BY <2>2, <3>1, BlkMeans
    <3>3. /\ pc[t] = "idle" /\ pc'[t] = "freelock"
          /\ \A u \in Thread : u # t => pc'[u] = pc[u]
      BY <2>2, GotoMeans DEF Pc
    <3>4. HandedOut' /\ OneTaker'
      BY <1>0, <1>1, <2>2, <3>1, <3>2 DEF Placed, HandedOut, OneTaker
    <3>5. Stacked => Stacked'
      BY <2>2 DEF Stacked, Kept
    <3>6. \A u \in Thread : Loading(u) => Loading(u)'
      BY <2>2, <3>2, <3>3 DEF Loading, Kept
    <3>7. Exhausted => Exhausted'
      BY <2>2, <3>3 DEF Exhausted, Inside
    <3>8. (\A u \in Thread : pc[u] # "load") => \A u \in Thread : pc'[u] # "load"
      BY <3>3
    <3> QED
      BY <1>1, <3>4, <3>5, <3>6, <3>7, <3>8 DEF Placed
  <2> QED
    BY <1>3, <2>1, <2>2 DEF FreeEnter
<1>4. ASSUME NEW t \in Thread,
             \/ AllocEnter(t) \/ FreeLock(t) \/ UpdateEnter(t) \/ UpdateLock(t) \/ UpdateSave(t)
      PROVE  Placed'
  <2>1. UNCHANGED <<free, table, owned, blk>>
    BY <1>4 DEF AllocEnter, FreeLock, UpdateEnter, UpdateLock, UpdateSave
  <2>2. /\ \A u \in Thread : u # t => pc'[u] = pc[u]
        /\ pc[t] # "load" /\ pc'[t] # "load"
    BY <1>4, GotoMeans DEF AllocEnter, FreeLock, UpdateEnter, UpdateLock, UpdateSave, Pc
  <2>3. HandedOut' /\ OneTaker'
    BY <1>0, <1>1, <2>1 DEF Placed, HandedOut, OneTaker
  <2>4. Stacked => Stacked'
    BY <2>1 DEF Stacked, Kept
  <2>5. \A u \in Thread : Loading(u) => Loading(u)'
    BY <2>1, <2>2 DEF Loading, Kept
  <2>6. Exhausted => Exhausted'
    <3> SUFFICES ASSUME Exhausted PROVE Exhausted'
      OBVIOUS
    <3>1. UpdateEnter(t)
      BY <1>4 DEF Exhausted, AllocEnter, FreeLock, UpdateLock, UpdateSave, TakeLock, Goto, Inside
    <3>2. UNCHANGED flock /\ pc'[t] = "updlock"
      BY <3>1, GotoMeans DEF UpdateEnter, Pc
    <3> QED
      BY <2>1, <2>2, <3>2 DEF Exhausted, Inside
  <2> QED
    BY <1>1, <2>2, <2>3, <2>4, <2>5, <2>6 DEF Placed
<1>5. CASE UNCHANGED vars
  BY <1>0, <1>1, <1>5 DEF vars, Placed, Stacked, Loading, Exhausted, Kept, HandedOut, OneTaker
<1> QED
  BY <1>0, <1>1, <1>2, <1>3, <1>4, <1>5, PopPlaced, LoadPlaced, ClearPlaced, PushPlaced
  DEF Next, Step

\* s_free is never overrun and, until Free writes a table, never underrun
\* (FileSystem.cpp:311, 363): for any number of threads and any geometry.
THEOREM ListInvHolds == Spec => []ListInv
<1> DEFINE IInv == Base /\ (~ spilled => Placed)
<1>1. Init => IInv
  BY BaseInit, PlacedInit
<1>2. IInv /\ [Next]_vars => IInv'
  BY BaseStep, PlacedStep
<1>3. IInv => ListInv
  <2> SUFFICES ASSUME IInv, ~ spilled, NEW t \in Thread, pc[t] = "alloc"
               PROVE  Len(free) \in 1 .. Group
    BY DEF ListInv, ListNeverEmpty, Base
  <2>1. flock = t /\ \A u \in Thread : pc[u] # "load"
    BY DEF Base, Exclusive, Inside
  <2>2. free # <<>>
    BY <2>1 DEF Placed, Stacked, Loading, Exhausted, Inside
  <2>3. free \in List
    BY DEF Base, TypeOK
  <2> QED
    BY <2>2, <2>3, PoppedIs
<1> QED
  BY <1>1, <1>2, <1>3, PTL DEF Spec

-----------------------------------------------------------------------------
\* The chain, layer by layer.

Layers(list, tables) ==
  CHOOSE f : f = [k \in 0 .. DataSize |-> IF k = 0 THEN list ELSE Below(f[k - 1], tables)]

LEMMA ChainLayers ==
  ASSUME NEW list, NEW tables
  PROVE  Chain(list, tables) = [k \in 0 .. DataSize \div Group + 1 |-> Layers(list, tables)[k]]
BY DEF Chain, Layers

\* There is such a function: of the ones that are right up to some layer, none is
\* the last.
LEMMA LayersAre ==
  ASSUME NEW list, NEW tables
  PROVE  /\ Layers(list, tables)[0] = list
         /\ \A k \in 1 .. DataSize : Layers(list, tables)[k] = Below(Layers(list, tables)[k - 1], tables)
<1> DEFINE Right(n) == \E f : f = [k \in 0 .. n |-> IF k = 0 THEN list ELSE Below(f[k - 1], tables)]
           S == {n \in Nat : Right(n)}
<1>1. Right(0)
  <2> DEFINE f == [k \in 0 .. 0 |-> list]
  <2>1. f = [k \in 0 .. 0 |-> IF k = 0 THEN list ELSE Below(f[k - 1], tables)]
    OBVIOUS
  <2> QED
    BY <2>1
<1>2. ASSUME NEW n \in Nat, Right(n) PROVE Right(n + 1)
  <2>1. PICK f : f = [k \in 0 .. n |-> IF k = 0 THEN list ELSE Below(f[k - 1], tables)]
    BY <1>2
  <2> DEFINE g == [k \in 0 .. n + 1 |-> IF k = n + 1 THEN Below(f[n], tables) ELSE f[k]]
  <2>2. \A k \in 0 .. n : g[k] = f[k] /\ f[k] = IF k = 0 THEN list ELSE Below(f[k - 1], tables)
    BY <2>1
  <2>3. g[n + 1] = Below(f[n], tables) /\ n \in 0 .. n /\ (n + 1) - 1 = n /\ n + 1 # 0
    OBVIOUS
  <2>4. ASSUME NEW k \in 0 .. n + 1
        PROVE  g[k] = IF k = 0 THEN list ELSE Below(g[k - 1], tables)
    <3>1. CASE k = n + 1
      BY <2>2, <2>3, <3>1
    <3>2. CASE k \in 1 .. n
      <4>1. k \in 0 .. n /\ k - 1 \in 0 .. n /\ k # 0
        BY <3>2
      <4> HIDE DEF g
      <4> QED
        BY <2>2, <4>1
    <3>3. CASE k = 0
      <4>1. 0 \in 0 .. n
        OBVIOUS
      <4> HIDE DEF g
      <4> QED
        BY <2>2, <3>3, <4>1
    <3> QED
      BY <3>1, <3>2, <3>3
  <2>5. g = [k \in 0 .. n + 1 |-> IF k = 0 THEN list ELSE Below(g[k - 1], tables)]
    BY <2>4
  <2> HIDE DEF g
  <2> QED
    BY <2>5
<1>3. Right(DataSize)
  <2> HIDE DEF Right
  <2>1. 0 \in S /\ \A k \in Nat : k \in S => k + 1 \in S
    BY <1>1, <1>2
  <2>2. Nat \subseteq S
    <3> HIDE DEF S
    <3> QED
      BY <2>1, Induction
  <2> QED
    BY <2>2, Geometry
<1> DEFINE f == Layers(list, tables)
<1>4. f = [k \in 0 .. DataSize |-> IF k = 0 THEN list ELSE Below(f[k - 1], tables)]
  BY <1>3 DEF Layers
<1> HIDE DEF f, Right
<1>5. f[0] = list /\ \A k \in 1 .. DataSize : f[k] = Below(f[k - 1], tables)
  BY <1>4, Geometry
<1> QED
  BY <1>5 DEF f

\* A list with blocks above its bottom entry, each once.
Heap(l) ==
  /\ l \in List /\ l # <<>> /\ l[1] \in {0} \cup TableBlock
  /\ \A j \in 2 .. Len(l) : l[j] \in DataZone /\ l[j] > l[1]
  /\ \A j, k \in 2 .. Len(l) : j # k => l[j] # l[k]

\* A list over tables of which some may have been cleared: the chain may end early.
Based(list, tables) ==
  /\ Heap(list)
  /\ \A x \in TableBlock : x <= list[1] => tables[x] \in {FormattedTables[x], <<>>}

LEMMA HeapRange ==
  ASSUME NEW l, Heap(l)
  PROVE  /\ l[1] \in Nat /\ Len(l) \in 1 .. Group
         /\ \A j \in 1 .. Len(l) : l[j] \in Nat /\ l[j] \in {0} \cup DataZone /\ l[j] >= l[1]
         /\ \A j, k \in 1 .. Len(l) : j # k => l[j] # l[k]
<1>1. l[1] \in Nat
  <2>1. {0} \cup TableBlock \subseteq Nat
    BY Geometry
  <2> QED
    BY <2>1 DEF Heap
<1>2. Len(l) \in 1 .. Group
  BY Geometry DEF Heap, List
<1>3. DataZone \subseteq Nat /\ {0} \cup TableBlock \subseteq {0} \cup DataZone
  BY Geometry
<1>4. ASSUME NEW j \in 1 .. Len(l)
      PROVE  l[j] \in Nat /\ l[j] \in {0} \cup DataZone /\ l[j] >= l[1] /\ (j # 1 => l[j] > l[1])
  <2>1. CASE j = 1
    BY <1>1, <1>3, <2>1 DEF Heap
  <2>2. CASE j # 1
    <3>1. j \in 2 .. Len(l)
      BY <1>2, <2>2
    <3>2. l[j] \in DataZone /\ l[j] > l[1]
      BY <3>1 DEF Heap
    <3>3. l[j] \in Nat /\ l[j] \in {0} \cup DataZone
      BY <1>3, <3>2
    <3> QED
      BY <1>1, <3>2, <3>3
  <2> QED
    BY <2>1, <2>2
<1>5. ASSUME NEW j \in 1 .. Len(l), NEW k \in 1 .. Len(l), j # k PROVE l[j] # l[k]
  <2>1. CASE j = 1 \/ k = 1
    BY <1>1, <1>4, <1>5, <2>1
  <2>2. CASE j # 1 /\ k # 1
    <3>1. j \in 2 .. Len(l) /\ k \in 2 .. Len(l)
      BY <1>2, <2>2
    <3> QED
      BY <1>5, <3>1 DEF Heap
  <2> QED
    BY <2>1, <2>2
<1> QED
  BY <1>1, <1>2, <1>4, <1>5

\* A table is such a list, below its own block.
LEMMA TableIsHeap ==
  ASSUME NEW b \in TableBlock, NEW f, f = FormattedTables[b]
  PROVE  /\ Heap(f) /\ f[1] < b /\ (f[1] # 0 => f[1] = b - Group)
         /\ \A j \in 1 .. Len(f) : f[j] < b
         /\ \A x \in DataZone : x < b => x < f[1] \/ \E j \in 1 .. Len(f) : f[j] = x
<1>1. b \in Nat \ {0} /\ b \in DataZone
  BY Geometry
<1>2. /\ f \in List /\ Len(f) = Group /\ f[1] \in {0} \cup TableBlock
      /\ IF f[1] = 0 THEN b - Group < DataStart ELSE f[1] = b - Group
      /\ \A j \in 2 .. Group : f[j] = b - Group + (j - 1) /\ f[j] \in DataZone
  BY TableLists
<1>3. f # <<>> /\ Group \in Nat /\ Group >= 2
  BY <1>2, Geometry
<1>4. f[1] \in Nat /\ f[1] < b
  <2>1. {0} \cup TableBlock \subseteq Nat
    BY Geometry
  <2>2. f[1] \in Nat
    BY <1>2, <2>1, Zenon
  <2> QED
    BY <1>1, <1>2, <1>3, <2>2
<1>5. \A j \in 2 .. Group : f[j] > f[1] /\ f[j] < b
  BY <1>1, <1>2, <1>3, Geometry
<1>6. \A j, k \in 2 .. Group : j # k => f[j] # f[k]
  BY <1>1, <1>2, <1>3
<1>7. Heap(f)
  BY <1>2, <1>3, <1>5, <1>6 DEF Heap
<1>8. \A j \in 1 .. Group : f[j] < b
  <2>1. \A j \in 1 .. Group : j = 1 \/ j \in 2 .. Group
    BY <1>3
  <2> QED
    BY <1>4, <1>5, <2>1
<1>9. ASSUME NEW x \in DataZone, x < b, ~ (x < f[1]) PROVE \E j \in 1 .. Group : f[j] = x
  <2>1. x \in Nat /\ x >= DataStart /\ DataStart \in Nat
    BY Geometry
  <2>2. CASE x = f[1]
    BY <1>3, <2>2
  <2>3. CASE x # f[1]
    <3>1. x > b - Group
      BY <1>1, <1>2, <1>3, <1>4, <1>9, <2>1, <2>3
    <3>2. PICK j \in 2 .. Group : j = x - (b - Group) + 1
      BY <1>1, <1>3, <1>9, <2>1, <3>1
    <3>3. f[j] = b - Group + (j - 1)
      BY <1>2
    <3>4. f[j] = x
      BY <1>1, <1>3, <2>1, <3>2, <3>3
    <3> QED
      BY <1>3, <3>4
  <2> QED
    BY <2>2, <2>3
<1> QED
  BY <1>2, <1>4, <1>7, <1>8, <1>9

\* A layer is empty, or such a list; the bottom entry is a group further down in
\* every layer.
LEMMA LayerIs ==
  ASSUME NEW list, NEW tables, Based(list, tables), NEW L, L = Layers(list, tables)
  PROVE  \A k \in 0 .. DataSize :
           \/ L[k] = <<>>
           \/ /\ Heap(L[k]) /\ L[k][1] <= list[1] /\ (L[k][1] # 0 => L[k][1] + k * Group <= list[1])
              /\ k # 0 => /\ L[k - 1] # <<>> /\ L[k - 1][1] \in TableBlock
                          /\ L[k] = FormattedTables[L[k - 1][1]]
<1> DEFINE Is(k) ==
             \/ L[k] = <<>>
             \/ /\ Heap(L[k]) /\ L[k][1] <= list[1] /\ (L[k][1] # 0 => L[k][1] + k * Group <= list[1])
                /\ k # 0 => /\ L[k - 1] # <<>> /\ L[k - 1][1] \in TableBlock
                            /\ L[k] = FormattedTables[L[k - 1][1]]
           S == {k \in 0 .. DataSize : Is(k)}
<1>1. L[0] = list /\ \A k \in 1 .. DataSize : L[k] = Below(L[k - 1], tables)
  BY LayersAre
<1>2. Heap(list) /\ list[1] \in Nat /\ Group \in Nat /\ DataSize \in Nat
  BY HeapRange, Geometry DEF Based
<1>3. 0 \in S
  <2>1. list[1] + 0 * Group = list[1]
    BY <1>2
  <2> QED
    BY <1>1, <1>2, <2>1
<1>4. ASSUME NEW k \in 0 .. DataSize - 1, k \in S PROVE k + 1 \in S
  <2>1. k + 1 \in 1 .. DataSize /\ (k + 1) - 1 = k /\ k \in Nat
    BY <1>2
  <2>2. L[k + 1] = Below(L[k], tables)
    BY <1>1, <2>1
  <2>3. CASE L[k + 1] = <<>>
    BY <2>1, <2>3
  <2>4. CASE L[k + 1] # <<>>
    <3>1. L[k] # <<>> /\ Head(L[k]) # 0 /\ L[k + 1] = tables[Head(L[k])]
      BY <2>2, <2>4 DEF Below
    <3>2. Heap(L[k]) /\ L[k][1] <= list[1] /\ (L[k][1] # 0 => L[k][1] + k * Group <= list[1])
      BY <1>4, <3>1
    <3>3. Head(L[k]) = L[k][1]
      BY <3>1, <3>2 DEF Heap, List
    <3>4. PICK b \in TableBlock : b = L[k][1]
      BY <3>1, <3>2, <3>3 DEF Heap
    <3>5. L[k + 1] = FormattedTables[b]
      BY <2>4, <3>1, <3>2, <3>3, <3>4 DEF Based
    <3>6. /\ Heap(L[k + 1]) /\ L[k + 1][1] < b /\ (L[k + 1][1] # 0 => L[k + 1][1] = b - Group)
      BY <3>5, TableIsHeap
    <3>7. b \in Nat \ {0} /\ L[k + 1][1] \in Nat
      BY <3>6, HeapRange, Geometry
    <3>8. L[k + 1][1] <= list[1]
      BY <1>2, <3>2, <3>4, <3>6, <3>7
    <3>9. L[k + 1][1] # 0 => L[k + 1][1] + (k + 1) * Group <= list[1]
      <4>1. (k + 1) * Group = k * Group + Group /\ k * Group \in Nat
        BY <1>2, <2>1
      <4> QED
        BY <1>2, <3>2, <3>4, <3>6, <3>7, <4>1
    <3> QED
      BY <2>1, <3>1, <3>4, <3>5, <3>6, <3>8, <3>9
  <2> QED
    BY <2>3, <2>4
<1>5. \A k \in 0 .. DataSize : k \in S
  <2> HIDE DEF S
  <2> QED
    BY <1>2, <1>3, <1>4, InductionTo
<1> QED
  BY <1>5

\* Each layer lies below the bottom entries of the layers above it.
LEMMA LayersApart ==
  ASSUME NEW list, NEW tables, Based(list, tables), NEW L, L = Layers(list, tables)
  PROVE  \A k \in 0 .. DataSize : \A i \in 0 .. k - 1 :
           L[k] # <<>> => L[i] # <<>> /\ \A j \in 1 .. Len(L[k]) : L[k][j] < L[i][1]
<1> DEFINE Under(k) == \A i \in 0 .. k - 1 :
             L[k] # <<>> => L[i] # <<>> /\ \A j \in 1 .. Len(L[k]) : L[k][j] < L[i][1]
           S == {k \in 0 .. DataSize : Under(k)}
<1>0. DataSize \in Nat
  BY Geometry
<1>1. 0 \in S
  BY <1>0
<1>2. ASSUME NEW k \in 0 .. DataSize - 1, k \in S PROVE k + 1 \in S
  <2>1. k + 1 \in 0 .. DataSize /\ k + 1 # 0 /\ (k + 1) - 1 = k /\ k \in 0 .. DataSize
    BY <1>0
  <2>2. SUFFICES ASSUME L[k + 1] # <<>>, NEW i \in 0 .. k
                 PROVE  L[i] # <<>> /\ \A j \in 1 .. Len(L[k + 1]) : L[k + 1][j] < L[i][1]
    BY <2>1
  <2>3. L[k] # <<>> /\ L[k][1] \in TableBlock /\ L[k + 1] = FormattedTables[L[k][1]]
    BY <2>1, <2>2, LayerIs
  <2>4. Heap(L[k + 1]) /\ \A j \in 1 .. Len(L[k + 1]) : L[k + 1][j] < L[k][1]
    BY <2>3, TableIsHeap
  <2>5. CASE i = k
    BY <2>3, <2>4, <2>5
  <2>6. CASE i # k
    <3>1. i \in 0 .. k - 1
      BY <2>6
    <3>2. Heap(L[k])
      BY <2>1, <2>3, LayerIs
    <3>3. 1 \in 1 .. Len(L[k])
      BY <3>2, HeapRange
    <3>4. L[i] # <<>> /\ L[k][1] < L[i][1]
      BY <1>2, <2>3, <3>1, <3>3
    <3>5. Heap(L[i])
      <4>1. i \in 0 .. DataSize
        BY <1>0, <2>1, <3>1
      <4> QED
        BY <3>4, <4>1, LayerIs
    <3>6. L[i][1] \in Nat /\ L[k][1] \in Nat /\ \A j \in 1 .. Len(L[k + 1]) : L[k + 1][j] \in Nat
      BY <2>4, <3>2, <3>5, HeapRange
    <3> QED
      BY <2>4, <3>4, <3>6
  <2> QED
    BY <2>5, <2>6
<1>3. \A k \in 0 .. DataSize : k \in S
  <2> HIDE DEF S
  <2> QED
    BY <1>0, <1>1, <1>2, InductionTo
<1> QED
  BY <1>3

\* Over tables that are as formatted, the layers so far have every block from the
\* bottom entry of the last one up.
LEMMA LayersCover ==
  ASSUME NEW list, NEW tables, Heap(list),
         \A x \in TableBlock : x <= list[1] => tables[x] = FormattedTables[x],
         NEW L, L = Layers(list, tables)
  PROVE  \A k \in 0 .. DataSize : \A x \in DataZone :
           x <= list[1] => \/ \E m \in 0 .. k : \E j \in 1 .. Len(L[m]) : L[m][j] = x
                           \/ L[k] # <<>> /\ x < L[k][1]
<1> DEFINE Cover(k) == \A x \in DataZone :
             x <= list[1] => \/ \E m \in 0 .. k : \E j \in 1 .. Len(L[m]) : L[m][j] = x
                             \/ L[k] # <<>> /\ x < L[k][1]
           S == {k \in 0 .. DataSize : Cover(k)}
<1>0. /\ DataSize \in Nat /\ Based(list, tables)
      /\ L[0] = list /\ \A k \in 1 .. DataSize : L[k] = Below(L[k - 1], tables)
  BY Geometry, LayersAre DEF Based
<1>1. 0 \in S
  <2> SUFFICES ASSUME NEW x \in DataZone, x <= list[1]
               PROVE  \/ \E m \in 0 .. 0 : \E j \in 1 .. Len(L[m]) : L[m][j] = x
                      \/ L[0] # <<>> /\ x < L[0][1]
    BY <1>0
  <2>1. list # <<>> /\ list[1] \in Nat /\ x \in Nat /\ 1 \in 1 .. Len(list)
    BY HeapRange, Geometry DEF Heap
  <2>2. CASE x < list[1]
    BY <1>0, <2>1, <2>2
  <2>3. CASE x = list[1]
    BY <1>0, <2>1, <2>3
  <2> QED
    BY <2>1, <2>2, <2>3
<1>2. ASSUME NEW k \in 0 .. DataSize - 1, k \in S PROVE k + 1 \in S
  <2>1. k + 1 \in 1 .. DataSize /\ (k + 1) - 1 = k /\ k \in 0 .. DataSize
    BY <1>0
  <2>2. SUFFICES ASSUME NEW x \in DataZone, x <= list[1]
                 PROVE  \/ \E m \in 0 .. k + 1 : \E j \in 1 .. Len(L[m]) : L[m][j] = x
                        \/ L[k + 1] # <<>> /\ x < L[k + 1][1]
    BY <2>1
  <2>3. CASE \E m \in 0 .. k : \E j \in 1 .. Len(L[m]) : L[m][j] = x
    BY <2>1, <2>3
  <2>4. CASE L[k] # <<>> /\ x < L[k][1]
    <3>1. Heap(L[k]) /\ L[k][1] <= list[1] /\ L[k][1] \in {0} \cup TableBlock
      BY <2>1, <2>4, <1>0, LayerIs DEF Heap
    <3>2. L[k][1] # 0 /\ Head(L[k]) = L[k][1]
      <4>1. x \in Nat
        BY Geometry
      <4> QED
        BY <2>4, <3>1, <4>1 DEF Heap, List
    <3>3. PICK b \in TableBlock : b = L[k][1]
      BY <3>1, <3>2
    <3>4. L[k + 1] = FormattedTables[b]
      BY <1>0, <2>1, <2>4, <3>1, <3>2, <3>3 DEF Below
    <3>5. /\ Heap(L[k + 1])
          /\ x < L[k + 1][1] \/ \E j \in 1 .. Len(L[k + 1]) : L[k + 1][j] = x
      BY <2>4, <3>3, <3>4, TableIsHeap
    <3>6. k + 1 \in 0 .. k + 1
      BY <2>1
    <3> QED
      BY <3>5, <3>6 DEF Heap
  <2> QED
    BY <1>2, <2>2, <2>3, <2>4
<1>3. \A k \in 0 .. DataSize : k \in S
  <2> HIDE DEF S
  <2> QED
    BY <1>0, <1>1, <1>2, InductionTo
<1> QED
  BY <1>3

\* The last layer that Chain looks at.
Last == DataSize \div Group + 1

LEMMA LastIs ==
  Last \in 0 .. DataSize /\ Last \in Nat /\ Last * Group \in Nat /\ Last * Group > DataSize
<1> DEFINE q == DataSize \div Group
           r == DataSize % Group
<1>1. Group \in Nat \ {0} /\ Group >= 2 /\ DataSize \in Nat /\ DataSize >= Group
  BY Geometry
<1>2. DataSize = Group * q + r /\ q \in Nat /\ r \in 0 .. Group - 1
  BY <1>1, DivMod
<1>3. Last = q + 1
  BY DEF Last
<1> HIDE DEF q, r
<1>4. Group * q \in Nat /\ (q + 1) * Group = Group * q + Group
  BY <1>1, <1>2
<1>5. q >= 1
  <2>1. q = 0 => Group * q = 0
    BY <1>1
  <2> QED
    BY <1>1, <1>2, <2>1
<1>6. 2 * q <= Group * q
  <2>1. PICK d \in Nat : Group = d + 2
    BY <1>1
  <2>2. (d + 2) * q = d * q + 2 * q /\ d * q \in Nat
    BY <1>2, <2>1
  <2> QED
    BY <1>2, <2>1, <2>2
<1> QED
  BY <1>1, <1>2, <1>3, <1>4, <1>5, <1>6

\* It goes down to the end of the data zone.
LEMMA LastLayer ==
  ASSUME NEW list, NEW tables, Based(list, tables), NEW L, L = Layers(list, tables),
         L[Last] # <<>>
  PROVE  L[Last][1] = 0
<1>1. /\ Heap(L[Last]) /\ L[Last][1] \in {0} \cup TableBlock
      /\ L[Last][1] # 0 => L[Last][1] + Last * Group <= list[1]
  BY LastIs, LayerIs DEF Heap
<1> SUFFICES ASSUME L[Last][1] # 0 PROVE FALSE
  OBVIOUS
<1>2. PICK b \in TableBlock : b = L[Last][1]
  BY <1>1
<1>3. b >= DataStart /\ b \in Nat
  BY Geometry
<1>4. list[1] <= DataEnd /\ list[1] \in Nat
  <2>1. list[1] \in {0} \cup TableBlock /\ list[1] \in Nat
    BY HeapRange DEF Based, Heap
  <2> QED
    BY <2>1, Geometry
<1> QED
  BY <1>1, <1>2, <1>3, <1>4, LastIs, Geometry

\* What Chain lists, and where.
LEMMA ChainBlocks ==
  ASSUME NEW list, NEW tables, Based(list, tables), NEW L, L = Layers(list, tables),
         NEW C, C = Chain(list, tables)
  PROVE  /\ \A p : p \in Places(C) <=> \E k \in 0 .. Last : \E j \in 1 .. Len(L[k]) : p = <<k, j>>
         /\ \A x : x \in Blocks(C) <=> \E k \in 0 .. Last : \E j \in 1 .. Len(L[k]) : x = L[k][j]
<1>1. C = [k \in 0 .. Last |-> L[k]]
  BY ChainLayers DEF Last
<1>2. \A k \in 0 .. Last : k \in 0 .. DataSize
  BY LastIs, Geometry
<1>3. \A k \in 0 .. Last : C[k] = L[k] /\ DOMAIN C[k] = 1 .. Len(L[k])
  <2> SUFFICES ASSUME NEW k \in 0 .. Last PROVE DOMAIN L[k] = 1 .. Len(L[k])
    BY <1>1
  <2>1. L[k] = <<>> \/ L[k] \in Seq({0} \cup DataZone)
    BY <1>2, LayerIs DEF Heap, List
  <2> QED
    BY <2>1
<1>4. DOMAIN C = 0 .. Last
  BY <1>1
<1>5. \A p : p \in Places(C) <=> \E k \in 0 .. Last : \E j \in 1 .. Len(L[k]) : p = <<k, j>>
  <2>1. ASSUME NEW p \in Places(C)
        PROVE  \E k \in 0 .. Last : \E j \in 1 .. Len(L[k]) : p = <<k, j>>
    <3>1. PICK k \in DOMAIN C : p \in {<<k, j>> : j \in DOMAIN C[k]}
      BY <2>1 DEF Places
    <3> QED
      BY <1>3, <1>4, <3>1
  <2>2. ASSUME NEW k \in 0 .. Last, NEW j \in 1 .. Len(L[k])
        PROVE  <<k, j>> \in Places(C)
    <3>1. k \in DOMAIN C /\ j \in DOMAIN C[k]
      BY <1>3, <1>4
    <3> QED
      BY <3>1 DEF Places
  <2> QED
    BY <2>1, <2>2
<1>6. \A k \in 0 .. Last : \A j \in 1 .. Len(L[k]) :
         <<k, j>> \in Places(C) /\ C[<<k, j>>[1]][<<k, j>>[2]] = L[k][j]
  BY <1>3, <1>5
<1>7. ASSUME NEW x \in Blocks(C)
      PROVE  \E k \in 0 .. Last : \E j \in 1 .. Len(L[k]) : x = L[k][j]
  <2>1. PICK p \in Places(C) : x = C[p[1]][p[2]]
    BY <1>7 DEF Blocks
  <2>2. PICK k \in 0 .. Last : \E j \in 1 .. Len(L[k]) : p = <<k, j>>
    BY <1>5, <2>1
  <2> QED
    BY <1>6, <2>1, <2>2
<1>8. ASSUME NEW k \in 0 .. Last, NEW j \in 1 .. Len(L[k]) PROVE L[k][j] \in Blocks(C)
  BY <1>6, Zenon DEF Blocks
<1> QED
  BY <1>5, <1>7, <1>8

\* It lists no block twice.
LEMMA ChainOnce ==
  ASSUME NEW list, NEW tables, Based(list, tables), NEW C, C = Chain(list, tables)
  PROVE  Cardinality(Places(C)) = Cardinality(Blocks(C)) /\ Blocks(C) \subseteq {0} \cup DataZone
<1> DEFINE L == Layers(list, tables)
           f == [p \in Places(C) |-> L[p[1]][p[2]]]
<1>1. /\ \A p : p \in Places(C) <=> \E k \in 0 .. Last : \E j \in 1 .. Len(L[k]) : p = <<k, j>>
      /\ \A x : x \in Blocks(C) <=> \E k \in 0 .. Last : \E j \in 1 .. Len(L[k]) : x = L[k][j]
  BY ChainBlocks
<1>2. \A k \in 0 .. Last : k \in 0 .. DataSize /\ k \in Nat
  BY LastIs, Geometry
<1>3. ASSUME NEW k \in 0 .. Last, NEW j \in 1 .. Len(L[k])
      PROVE  L[k] # <<>> /\ Heap(L[k])
  <2>1. L[k] = <<>> => 1 .. Len(L[k]) = {}
    OBVIOUS
  <2> QED
    BY <1>2, <2>1, LayerIs
<1> HIDE DEF L
<1>4. ASSUME NEW k \in 0 .. Last, NEW j \in 1 .. Len(L[k]),
             NEW l \in 0 .. Last, NEW i \in 1 .. Len(L[l]), <<k, j>> # <<l, i>>
      PROVE  L[k][j] # L[l][i]
  <2>1. CASE k = l
    BY <1>3, <1>4, <2>1, HeapRange
  <2>2. CASE k < l
    <3>1. k \in 0 .. l - 1
      BY <1>2, <2>2
    <3>2. L[l][i] < L[k][1]
      BY <1>2, <1>3, <3>1, LayersApart DEF L
    <3>3. L[k][j] >= L[k][1] /\ L[k][1] \in Nat /\ L[k][j] \in Nat /\ L[l][i] \in Nat
      BY <1>3, HeapRange
    <3> QED
      BY <3>2, <3>3
  <2>3. CASE l < k
    <3>1. l \in 0 .. k - 1
      BY <1>2, <2>3
    <3>2. L[k][j] < L[l][1]
      BY <1>2, <1>3, <3>1, LayersApart DEF L
    <3>3. L[l][i] >= L[l][1] /\ L[l][1] \in Nat /\ L[k][j] \in Nat /\ L[l][i] \in Nat
      BY <1>3, HeapRange
    <3> QED
      BY <3>2, <3>3
  <2> QED
    BY <1>2, <2>1, <2>2, <2>3
<1>5. \A k \in 0 .. Last : \A j \in 1 .. Len(L[k]) :
         <<k, j>> \in Places(C) /\ f[<<k, j>>] = L[k][j]
  BY <1>1
<1>6. f \in [Places(C) -> Blocks(C)]
  <2> SUFFICES ASSUME NEW p \in Places(C) PROVE f[p] \in Blocks(C)
    OBVIOUS
  <2>1. PICK k \in 0 .. Last : \E j \in 1 .. Len(L[k]) : p = <<k, j>>
    BY <1>1
  <2>2. PICK j \in 1 .. Len(L[k]) : p = <<k, j>>
    BY <2>1
  <2>3. f[p] = L[k][j]
    BY <1>5, <2>2
  <2> HIDE DEF f
  <2> QED
    BY <1>1, <2>3
<1> HIDE DEF f
<1>7. ASSUME NEW p \in Places(C), NEW q \in Places(C), f[p] = f[q] PROVE p = q
  <2>1. PICK k \in 0 .. Last : \E j \in 1 .. Len(L[k]) : p = <<k, j>>
    BY <1>1
  <2>2. PICK j \in 1 .. Len(L[k]) : p = <<k, j>>
    BY <2>1
  <2>3. PICK l \in 0 .. Last : \E i \in 1 .. Len(L[l]) : q = <<l, i>>
    BY <1>1
  <2>4. PICK i \in 1 .. Len(L[l]) : q = <<l, i>>
    BY <2>3
  <2> QED
    BY <1>4, <1>5, <1>7, <2>2, <2>4
<1>8. ASSUME NEW x \in Blocks(C) PROVE \E p \in Places(C) : f[p] = x
  <2>1. PICK k \in 0 .. Last : \E j \in 1 .. Len(L[k]) : x = L[k][j]
    BY <1>1
  <2>2. PICK j \in 1 .. Len(L[k]) : x = L[k][j]
    BY <2>1
  <2> QED
    BY <1>5, <2>2
<1>9. Blocks(C) \subseteq {0} \cup DataZone
  BY <1>1, <1>3, HeapRange
<1>10. IsFiniteSet(Blocks(C))
  <2>1. DataStart \in Int /\ DataEnd \in Int /\ DataZone = DataStart .. DataEnd
    BY Geometry
  <2>2. IsFiniteSet(DataZone)
    BY <2>1, FS_Interval
  <2>3. IsFiniteSet(DataZone \cup {0})
    BY <2>2, FS_AddElement
  <2>4. Blocks(C) \in SUBSET (DataZone \cup {0})
    BY <1>9
  <2> QED
    BY <2>3, <2>4, FS_Subset
<1>11. f \in Injection(Places(C), Blocks(C)) /\ f \in Surjection(Places(C), Blocks(C))
  BY <1>6, <1>7, <1>8 DEF Injection, Surjection, IsInjective
<1>12. Cardinality(Places(C)) = Cardinality(Blocks(C))
  BY <1>10, <1>11, FS_Injection
<1> QED
  BY <1>9, <1>12

\* It lists what its first list has, and of the rest only blocks below it: all of
\* them where the tables are as formatted.
LEMMA ChainLists ==
  ASSUME NEW list, NEW tables, Based(list, tables), NEW B, B = Blocks(Chain(list, tables))
  PROVE  /\ \A j \in 1 .. Len(list) : list[j] \in B
         /\ \A x \in B : x < list[1] \/ \E j \in 1 .. Len(list) : list[j] = x
         /\ (\A x \in TableBlock : x <= list[1] => tables[x] = FormattedTables[x]) =>
               \A x \in DataZone : x <= list[1] => x \in B
<1> DEFINE L == Layers(list, tables)
<1>1. \A x : x \in B <=> \E k \in 0 .. Last : \E j \in 1 .. Len(L[k]) : x = L[k][j]
  BY ChainBlocks
<1>2. 0 \in 0 .. Last /\ L[0] = list /\ Heap(list)
  BY LastIs, LayersAre DEF Based
<1>3. \A k \in 0 .. Last : k \in 0 .. DataSize /\ (k # 0 => 0 \in 0 .. k - 1)
  BY LastIs, Geometry
<1>4. \A k \in 0 .. DataSize : L[k] = <<>> \/ Heap(L[k])
  BY LayerIs
<1>5. \A k \in 0 .. DataSize : \A i \in 0 .. k - 1 :
        L[k] # <<>> => \A j \in 1 .. Len(L[k]) : L[k][j] < L[i][1]
  BY LayersApart
<1>6. ASSUME \A x \in TableBlock : x <= list[1] => tables[x] = FormattedTables[x]
      PROVE  \A x \in DataZone : x <= list[1] => x \in B
  <2> SUFFICES ASSUME NEW x \in DataZone, x <= list[1] PROVE x \in B
    OBVIOUS
  <2>1. Last \in 0 .. DataSize
    BY LastIs
  <2>2. \/ \E m \in 0 .. Last : \E j \in 1 .. Len(L[m]) : L[m][j] = x
        \/ L[Last] # <<>> /\ x < L[Last][1]
    BY <1>2, <1>6, <2>1, LayersCover
  <2>3. ~ (L[Last] # <<>> /\ x < L[Last][1])
    <3>1. L[Last] # <<>> => L[Last][1] = 0
      BY LastLayer
    <3>2. ~ (x < 0)
      BY Geometry
    <3> QED
      BY <3>1, <3>2
  <2> HIDE DEF L
  <2> QED
    BY <1>1, <2>2, <2>3
<1> HIDE DEF L
<1>7. ASSUME NEW x \in B PROVE x < list[1] \/ \E j \in 1 .. Len(list) : list[j] = x
  <2>1. PICK k \in 0 .. Last : \E j \in 1 .. Len(L[k]) : x = L[k][j]
    BY <1>1
  <2>2. PICK j \in 1 .. Len(L[k]) : x = L[k][j]
    BY <2>1
  <2>3. L[k] # <<>>
    <3>1. L[k] = <<>> => 1 .. Len(L[k]) = {}
      OBVIOUS
    <3> QED
      BY <2>2, <3>1
  <2> QED
    BY <1>2, <1>3, <1>5, <2>2, <2>3
<1> QED
  BY <1>1, <1>2, <1>6, <1>7

\* What init_disk leaves on the disk: the superblock's list and the chain of
\* tables below it have the whole data zone, each block once.
LEMMA FormattedChain ==
  ChainIs(Chain(SuperList, FormattedTables), DataZone)
<1> PICK s : s = SuperList
  OBVIOUS
<1> PICK n : n = Len(s)
  OBVIOUS
<1>1. /\ s \in List /\ n \in Nat /\ n >= 1 /\ s[1] \in TableBlock /\ s[1] \in DataZone
      /\ \A j \in 1 .. n : s[j] = s[1] + (j - 1)
      /\ s[1] + (n - 1) = DataEnd
  BY SuperLists, Geometry DEF List
<1>2. DataZone \subseteq Nat /\ 0 \notin DataZone /\ DataZone = DataStart .. DataEnd /\ s[1] \in Nat
  BY <1>1, Geometry
<1>3. Heap(s)
  <2>1. \A j \in 2 .. n : s[j] \in DataZone /\ s[j] > s[1]
    BY <1>1, <1>2, Geometry
  <2>2. \A j, k \in 2 .. n : j # k => s[j] # s[k]
    BY <1>1, <1>2
  <2>3. s # <<>>
    BY <1>1
  <2> QED
    BY <1>1, <2>1, <2>2, <2>3 DEF Heap
<1>4. Based(s, FormattedTables)
  BY <1>3 DEF Based
<1> PICK B : B = Blocks(Chain(s, FormattedTables))
  OBVIOUS
<1>5. /\ \A j \in 1 .. n : s[j] \in B
      /\ \A x \in DataZone : x <= s[1] => x \in B
  BY <1>4, ChainLists
<1>6. Cardinality(Places(Chain(s, FormattedTables))) = Cardinality(B) /\ B \subseteq {0} \cup DataZone
  BY <1>4, ChainOnce
<1>7. ASSUME NEW x \in DataZone PROVE x \in B
  <2>1. CASE x <= s[1]
    BY <1>5, <2>1
  <2>2. CASE ~ x <= s[1]
    <3>1. x - s[1] + 1 \in 1 .. n /\ s[1] + ((x - s[1] + 1) - 1) = x
      BY <1>1, <1>2, <2>2, Geometry
    <3> QED
      BY <1>1, <1>5, <3>1
  <2> QED
    BY <2>1, <2>2
<1>8. B \ {0} = DataZone
  BY <1>2, <1>6, <1>7
<1> QED
  BY <1>6, <1>8 DEF ChainIs

LEMMA EmptyChain ==
  ASSUME NEW tables, NEW C, C = Chain(<<>>, tables)
  PROVE  Places(C) = {} /\ Blocks(C) = {}
<1> DEFINE L == Layers(<<>>, tables)
           S == {k \in 0 .. DataSize : L[k] = <<>>}
<1>1. DataSize \in Nat /\ L[0] = <<>> /\ \A k \in 1 .. DataSize : L[k] = Below(L[k - 1], tables)
  BY LayersAre, Geometry
<1> HIDE DEF L
<1>2. 0 \in S
  BY <1>1
<1>3. ASSUME NEW k \in 0 .. DataSize - 1, k \in S PROVE k + 1 \in S
  <2>1. k + 1 \in 1 .. DataSize /\ (k + 1) - 1 = k
    BY <1>1
  <2> QED
    BY <1>1, <1>3, <2>1 DEF Below
<1>4. \A k \in 0 .. DataSize : L[k] = <<>>
  <2>1. \A k \in 0 .. DataSize : k \in S
    <3> HIDE DEF S
    <3> QED
      BY <1>1, <1>2, <1>3, InductionTo
  <2> QED
    BY <2>1
<1>5. DOMAIN C = 0 .. Last /\ \A k \in 0 .. Last : C[k] = L[k]
  BY ChainLayers DEF Last, L
<1>6. \A k \in 0 .. Last : DOMAIN C[k] = {}
  <2>1. \A k \in 0 .. Last : k \in 0 .. DataSize
    BY LastIs, <1>1
  <2>2. DOMAIN <<>> = {}
    OBVIOUS
  <2> QED
    BY <1>4, <1>5, <2>1, <2>2
<1>7. Places(C) = {}
  <2> SUFFICES ASSUME NEW p \in Places(C) PROVE FALSE
    OBVIOUS
  <2>1. PICK k \in DOMAIN C : p \in {<<k, j>> : j \in DOMAIN C[k]}
    BY DEF Places
  <2> QED
    BY <1>5, <1>6, <2>1
<1> QED
  BY <1>7 DEF Blocks

LEMMA ConservedIs ==
  ASSUME Base, Placed, \A t \in Thread : pc[t] # "load"
  PROVE  ChainIs(Chain(free, table), DataZone \ owned)
<1> DEFINE C == Chain(free, table)
<1>1. CASE Exhausted
  <2>1. Places(C) = {} /\ Blocks(C) = {}
    BY <1>1, EmptyChain DEF Exhausted
  <2>2. DataZone \ owned = {}
    BY <1>1 DEF Exhausted
  <2> QED
    BY <2>1, <2>2 DEF ChainIs
<1>2. CASE Stacked
  <2>1. Heap(free)
    BY <1>2 DEF Stacked, Heap, Base, TypeOK
  <2>2. Based(free, table)
    BY <1>2, <2>1 DEF Stacked, Kept, Based
  <2>3. \A x \in TableBlock : x <= free[1] => table[x] = FormattedTables[x]
    BY <1>2 DEF Stacked, Kept
  <2> DEFINE B == Blocks(C)
  <2>4. /\ \A j \in 1 .. Len(free) : free[j] \in B
        /\ \A x \in B : x < free[1] \/ \E j \in 1 .. Len(free) : free[j] = x
        /\ \A x \in DataZone : x <= free[1] => x \in B
    BY <2>2, <2>3, ChainLists
  <2>5. Cardinality(Places(C)) = Cardinality(B) /\ B \subseteq {0} \cup DataZone
    BY <2>2, ChainOnce
  <2> HIDE DEF B
  <2>6. free[1] \in Nat /\ Len(free) \in Nat /\ DataZone \subseteq Nat /\ owned \subseteq DataZone
    BY <2>1, HeapRange, Geometry DEF Base, TypeOK
  <2>7. ASSUME NEW x \in B, x # 0 PROVE x \in DataZone \ owned
    <3>1. x \in DataZone /\ x \in Nat
      BY <2>5, <2>6, <2>7
    <3>2. ASSUME x \in owned PROVE FALSE
      <4>1. x > free[1]
        BY <1>2, <3>2 DEF Stacked
      <4>2. PICK j \in 1 .. Len(free) : free[j] = x
        BY <2>4, <2>6, <3>1, <4>1
      <4>3. j = 1 \/ j \in 2 .. Len(free)
        BY <2>6
      <4> QED
        BY <1>2, <2>6, <3>1, <3>2, <4>1, <4>2, <4>3 DEF Stacked
    <3> QED
      BY <3>1, <3>2
  <2>8. ASSUME NEW x \in DataZone \ owned PROVE x \in B /\ x # 0
    <3>1. x \in Nat /\ x # 0
      BY Geometry
    <3>2. CASE x <= free[1]
      BY <2>4, <3>1, <3>2
    <3>3. CASE x > free[1]
      <4>1. PICK j \in 2 .. Len(free) : free[j] = x
        BY <1>2, <3>3 DEF Stacked
      <4>2. j \in 1 .. Len(free)
        BY <2>6
      <4> QED
        BY <2>4, <3>1, <4>1, <4>2
    <3> QED
      BY <2>6, <3>1, <3>2, <3>3
  <2>9. B \ {0} = DataZone \ owned
    BY <2>7, <2>8
  <2> QED
    BY <2>5, <2>9 DEF ChainIs, B
<1> QED
  BY <1>1, <1>2 DEF Placed, Loading

\* No block is lost, none is on the list and handed out, none is in two threads' hands
\* (FileSystem.cpp:284): with any number of threads and any geometry, until Free
\* writes a table.
THEOREM BlocksInvHolds == Spec => []BlocksInv
<1> DEFINE IInv == Base /\ (~ spilled => Placed)
<1>1. Init => IInv
  BY BaseInit, PlacedInit
<1>2. IInv /\ [Next]_vars => IInv'
  BY BaseStep, PlacedStep
<1>3. IInv => BlocksInv
  <2>1. IInv => BlocksConserved
    BY ConservedIs DEF BlocksConserved
  <2>2. IInv => OneTaker
    BY DEF Placed, OneTaker
  <2> QED
    BY <2>1, <2>2 DEF BlocksInv
<1> QED
  BY <1>1, <1>2, <1>3, PTL DEF Spec

-----------------------------------------------------------------------------
\* What the image's list is worth.  Only blocks handed out since the save may have
\* lost their table, and what that list does not have is handed out or given back.
Recent ==
  /\ Heap(saved)
  /\ \A x \in TableBlock :
        x <= saved[1] => /\ table[x] \in {FormattedTables[x], <<>>}
                         /\ x \notin out => table[x] = FormattedTables[x]
  /\ \A x \in owned : \/ x > saved[1] /\ \A j \in 1 .. Len(saved) : saved[j] # x
                      \/ x \in out
  /\ \A x \in DataZone \ owned :
        x > saved[1] => x \in got \/ \E j \in 1 .. Len(saved) : saved[j] = x

\* The list in memory is such a list while nobody is between the pop of its bottom
\* entry and the load of the next table.
LEMMA StackedIsRecent ==
  ASSUME Base, Stacked, saved' = free, UNCHANGED <<owned, table>>
  PROVE  Recent'
<1>1. Heap(free)
  BY DEF Stacked, Heap, Base, TypeOK
<1>2. /\ free[1] \in Nat /\ Len(free) \in Nat /\ owned \subseteq DataZone /\ DataZone \subseteq Nat
  BY <1>1, HeapRange, Geometry DEF Base, TypeOK
<1>3. \A j \in 1 .. Len(free) : j = 1 \/ j \in 2 .. Len(free)
  BY <1>2
<1>4. ASSUME NEW x \in owned PROVE x > free[1] /\ \A j \in 1 .. Len(free) : free[j] # x
  <2>1. x > free[1] /\ x \in Nat
    BY <1>2 DEF Stacked
  <2> QED
    BY <1>2, <1>3, <2>1 DEF Stacked
<1>5. ASSUME NEW x \in DataZone \ owned, x > free[1] PROVE \E j \in 1 .. Len(free) : free[j] = x
  <2>1. PICK j \in 2 .. Len(free) : free[j] = x
    BY <1>5 DEF Stacked
  <2> QED
    BY <1>2, <2>1
<1>6. \A x \in TableBlock : x <= free[1] => table[x] = FormattedTables[x]
  BY DEF Stacked, Kept
<1> QED
  BY <1>1, <1>4, <1>5, <1>6 DEF Recent

LEMMA RecentInit == Init => Recent
<1> SUFFICES ASSUME Init PROVE Recent
  OBVIOUS
<1>1. SuperList \in List /\ SuperList # <<>> /\ SuperList[1] \in TableBlock
      /\ \A j \in 1 .. Len(SuperList) : SuperList[j] = SuperList[1] + (j - 1)
      /\ SuperList[1] + (Len(SuperList) - 1) = DataEnd /\ Len(SuperList) \in Nat
      /\ SuperList[1] \in Nat /\ SuperList[1] >= DataStart
  BY SuperLists, Geometry DEF List
<1>2. \A j \in 2 .. Len(SuperList) : SuperList[j] \in DataZone /\ SuperList[j] > SuperList[1]
  BY <1>1, Geometry
<1>3. \A j, k \in 2 .. Len(SuperList) : j # k => SuperList[j] # SuperList[k]
  BY <1>1
<1>4. Heap(SuperList)
  BY <1>1, <1>2, <1>3 DEF Heap
<1>5. ASSUME NEW x \in DataZone, x > SuperList[1]
      PROVE  \E j \in 1 .. Len(SuperList) : SuperList[j] = x
  <2>1. x \in Nat /\ x <= DataEnd
    BY Geometry
  <2>2. PICK j \in 1 .. Len(SuperList) : j = x - SuperList[1] + 1
    BY <1>1, <1>5, <2>1, Geometry
  <2>3. SuperList[j] = SuperList[1] + (j - 1)
    BY <1>1
  <2>4. SuperList[j] = x
    BY <1>1, <2>1, <2>2, <2>3
  <2> QED
    BY <2>4
<1> QED
  BY <1>4, <1>5 DEF Init, Recent

LEMMA RecentStep ==
  ASSUME Base, ~ spilled => Placed /\ Recent, [Next]_vars
  PROVE  ~ spilled' => Recent'
<1> USE DEF changes
<1> SUFFICES ASSUME ~ spilled' PROVE Recent'
  OBVIOUS
<1>0. ~ spilled
  BY DEF Next, Step, AllocEnter, AllocNoSpace, AllocPop, AllocLoad, AllocClear, FreeEnter,
         FreeLock, FreePush, UpdateEnter, UpdateLock, UpdateSave, vars
<1>1. Placed /\ Recent
  BY <1>0
<1>2. ASSUME NEW t \in Thread, AllocPop(t) PROVE Recent'
  <2>1. /\ owned' = owned \cup {Top} /\ out' = out \cup {Top} /\ UNCHANGED <<table, saved, got>>
    BY <1>2 DEF AllocPop
  <2> QED
    BY <1>1, <2>1 DEF Recent
<1>3. ASSUME NEW t \in Thread, AllocClear(t) PROVE Recent'
  <2>1. /\ table' = [table EXCEPT ![blk[t]] = <<>>] /\ UNCHANGED <<saved, owned, out, got>>
    BY <1>3 DEF AllocClear
  <2>2. blk[t] \in owned /\ blk[t] \in DataZone
    <3>1. pc[t] = "clear"
      BY <1>3 DEF AllocClear, Goto
    <3> QED
      BY <1>1, <3>1 DEF Base, InHand, TypeOK, Placed, HandedOut
  <2>3. \A x \in TableBlock : x # blk[t] => table'[x] = table[x]
    BY <2>1, <2>2, Geometry DEF Base
  <2>4. table'[blk[t]] = <<>>
    BY <2>1, <2>2 DEF Base
  <2>5. blk[t] \in out \/ blk[t] > saved[1]
    BY <1>1, <2>2 DEF Recent
  <2>6. saved[1] \in Nat /\ blk[t] \in Nat
    BY <1>1, <2>2, HeapRange, Geometry DEF Recent
  <2>7. ASSUME NEW x \in TableBlock, x <= saved[1]
        PROVE  /\ table'[x] \in {FormattedTables[x], <<>>}
               /\ x \notin out => table'[x] = FormattedTables[x]
    BY <1>1, <2>3, <2>4, <2>5, <2>6, <2>7 DEF Recent
  <2> QED
    BY <1>1, <2>1, <2>7 DEF Recent
<1>4. ASSUME NEW t \in Thread, FreePush(t) PROVE Recent'
  <2>1. /\ owned' = owned \ {blk[t]} /\ got' = got \cup {blk[t]}
        /\ UNCHANGED <<table, saved, out>>
    BY <1>4 DEF FreePush
  <2> QED
    BY <1>1, <2>1 DEF Recent
<1>5. ASSUME NEW t \in Thread, UpdateSave(t) PROVE Recent'
  <2>1. pc[t] = "save" /\ flock = t
    BY <1>5 DEF UpdateSave, Goto, Base, Exclusive, Inside
  <2>2. Stacked
    BY <1>1, <2>1 DEF Placed, Loading, Exhausted, Inside, Base, Exclusive
  <2>3. saved' = free /\ UNCHANGED <<owned, table>>
    BY <1>5 DEF UpdateSave, Saved
  <2> QED
    BY <2>2, <2>3, StackedIsRecent
<1>6. ASSUME NEW t \in Thread,
             \/ AllocEnter(t) \/ AllocNoSpace(t) \/ AllocLoad(t) \/ FreeEnter(t)
             \/ FreeLock(t) \/ UpdateEnter(t) \/ UpdateLock(t)
      PROVE  Recent'
  <2>1. UNCHANGED <<saved, table, owned, out, got>>
    BY <1>6 DEF AllocEnter, AllocNoSpace, AllocLoad, FreeEnter, FreeLock, UpdateEnter, UpdateLock
  <2> QED
    BY <1>1, <2>1 DEF Recent
<1>7. CASE UNCHANGED vars
  BY <1>1, <1>7 DEF vars, Recent
<1> QED
  BY <1>2, <1>3, <1>4, <1>5, <1>6, <1>7 DEF Next, Step

\* A kill costs at most what was handed out and given back since Update last saved the
\* list, whichever of the zeros had reached the image (SystemCall.cpp:76): with any
\* number of threads and any geometry, until Free writes a table.
THEOREM SaveIsRecentHolds == Spec => []SaveIsRecent
<1> DEFINE IInv == Base /\ (~ spilled => Placed /\ Recent)
<1>1. Init => IInv
  BY BaseInit, PlacedInit, RecentInit
<1>2. IInv /\ [Next]_vars => IInv'
  BY BaseStep, PlacedStep, RecentStep
<1>3. IInv => SaveIsRecent
  <2> SUFFICES ASSUME IInv, ~ spilled, NEW lost \in SUBSET out,
                      NEW tables, tables = [s \in DataZone |-> IF s \in out \ lost THEN FormattedTables[s] ELSE table[s]],
                      NEW listed, listed = Blocks(Chain(saved, tables))
               PROVE  /\ listed \cap owned \subseteq out
                      /\ (\A s \in lost : FormattedTables[s] = <<>>) =>
                            DataZone \ owned \subseteq listed \cup got
    BY DEF SaveIsRecent
  <2>1. Recent /\ Heap(saved) /\ saved[1] \in Nat /\ DataZone \subseteq Nat /\ owned \subseteq DataZone
    BY HeapRange, Geometry DEF Recent, Base, TypeOK
  <2>2. \A x \in TableBlock : x \in DataZone
    BY Geometry
  <2>3. Based(saved, tables)
    BY <2>1, <2>2 DEF Recent, Based
  <2>4. /\ \A j \in 1 .. Len(saved) : saved[j] \in listed
        /\ \A x \in listed : x < saved[1] \/ \E j \in 1 .. Len(saved) : saved[j] = x
        /\ (\A x \in TableBlock : x <= saved[1] => tables[x] = FormattedTables[x]) =>
               \A x \in DataZone : x <= saved[1] => x \in listed
    BY <2>3, ChainLists
  <2>5. ASSUME NEW x \in listed, x \in owned PROVE x \in out
    <3>1. x \in Nat
      BY <2>1, <2>5
    <3> QED
      BY <2>1, <2>4, <2>5, <3>1 DEF Recent
  <2>6. ASSUME \A s \in lost : FormattedTables[s] = <<>>, NEW x \in DataZone \ owned
        PROVE  x \in listed \cup got
    <3>1. \A s \in TableBlock : FormattedTables[s] # <<>>
      BY TableIsHeap DEF Heap
    <3>2. \A s \in TableBlock : s <= saved[1] => tables[s] = FormattedTables[s]
      BY <2>1, <2>2, <2>6, <3>1 DEF Recent
    <3>3. CASE x <= saved[1]
      BY <2>4, <3>2, <3>3
    <3>4. CASE x > saved[1]
      BY <2>1, <2>4, <3>4 DEF Recent
    <3> QED
      BY <2>1, <3>3, <3>4
  <2> QED
    BY <2>5, <2>6
<1> QED
  BY <1>1, <1>2, <1>3, PTL DEF Spec

================================================================================
