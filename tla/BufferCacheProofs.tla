---------------------------- MODULE BufferCacheProofs ----------------------------
(***************************************************************************)
(* Proofs about BufferCache, for any number of buffers, any disk and any   *)
(* sector contents.                                                        *)
(***************************************************************************)
EXTENDS BufferCache, SequenceTheorems, TLAPS

-----------------------------------------------------------------------------
(***************************************************************************)
(* What Bflush does to the list.                                           *)
(***************************************************************************)

\* Three parts one after the other.
LEMMA Concat3 ==
  ASSUME NEW p \in Seq(Buf), NEW r \in Seq(Buf), NEW e \in Buf,
         NEW c, c = p \o r \o <<e>>
  PROVE  /\ c \in Seq(Buf)
         /\ Len(c) = Len(p) + Len(r) + 1
         /\ \A j \in 1 .. Len(p) : c[j] = p[j]
         /\ \A j \in 1 .. Len(r) : c[Len(p) + j] = r[j]
         /\ c[Len(p) + Len(r) + 1] = e
<1> DEFINE l == p \o r
<1>1. /\ l \in Seq(Buf)
      /\ Len(l) = Len(p) + Len(r)
      /\ \A j \in 1 .. Len(p) + Len(r) : l[j] = IF j <= Len(p) THEN p[j] ELSE r[j - Len(p)]
  BY ConcatProperties
<1>2. <<e>> \in Seq(Buf) /\ Len(<<e>>) = 1 /\ <<e>>[1] = e
  OBVIOUS
<1>3. Len(p) \in Nat /\ Len(r) \in Nat
  OBVIOUS
<1> HIDE DEF l
<1>4. /\ c \in Seq(Buf)
      /\ Len(c) = Len(l) + 1
      /\ \A j \in 1 .. Len(l) + 1 : c[j] = IF j <= Len(l) THEN l[j] ELSE <<e>>[j - Len(l)]
  <2>1. c = l \o <<e>>
    BY DEF l
  <2> QED
    BY ConcatProperties, <1>1, <1>2, <2>1
<1>5. \A j \in 1 .. Len(p) : c[j] = p[j]
  BY <1>1, <1>3, <1>4
<1>6. \A j \in 1 .. Len(r) : c[Len(p) + j] = r[j]
  BY <1>1, <1>3, <1>4
<1>7. c[Len(p) + Len(r) + 1] = e
  BY <1>1, <1>2, <1>3, <1>4
<1> QED
  BY <1>1, <1>4, <1>5, <1>6, <1>7

\* Where the j-th buffer of the list comes from when the i-th is moved last.
Kept(q, s, i) == IF q[i] \in s THEN 0 ELSE i - 1

Origin(q, s, i, j) ==
  IF j <= Kept(q, s, i) THEN j
  ELSE IF j = Kept(q, s, i) + Len(q) - i + 1 THEN i
  ELSE j - Kept(q, s, i) + i

\* Bflush's list, position by position: a prefix that is all or none of what
\* was in front, then what was behind, then the moved buffer.
LEMMA RequeuedPositions ==
  ASSUME NEW q \in Seq(Buf), NEW s, NEW i \in DOMAIN q
  PROVE  /\ Requeued(q, s, i) \in Seq(Buf)
         /\ Len(Requeued(q, s, i)) = Kept(q, s, i) + Len(q) - i + 1
         /\ \A j \in DOMAIN Requeued(q, s, i) :
              /\ Origin(q, s, i, j) \in DOMAIN q
              /\ Requeued(q, s, i)[j] = q[Origin(q, s, i, j)]
<1> DEFINE rest == SubSeq(q, i + 1, Len(q))
           front == Before(q, s, i)
<1>1. i \in 1 .. Len(q) /\ Len(q) \in Nat /\ q[i] \in Buf
  OBVIOUS
<1>2. /\ rest \in Seq(Buf)
      /\ Len(rest) = Len(q) - i
      /\ \A j \in 1 .. Len(q) - i : rest[j] = q[i + j]
  BY <1>1
<1>3. PICK k \in 0 .. i - 1 : k = Kept(q, s, i)
  BY <1>1 DEF Kept
<1>4. /\ front \in Seq(Buf)
      /\ Len(front) = k
      /\ \A j \in 1 .. k : front[j] = q[j]
  BY <1>1, <1>3 DEF Before, Kept
<1>5. Requeued(q, s, i) = front \o rest \o <<q[i]>>
  BY DEF Requeued
<1> HIDE DEF rest, front
<1>6. PICK c : c = Requeued(q, s, i)
  OBVIOUS
<1>7. /\ c \in Seq(Buf)
      /\ Len(c) = k + (Len(q) - i) + 1
      /\ \A j \in 1 .. k : c[j] = q[j]
      /\ \A j \in 1 .. Len(q) - i : c[k + j] = q[i + j]
      /\ c[k + (Len(q) - i) + 1] = q[i]
  <2>1. c = front \o rest \o <<q[i]>>
    BY <1>5, <1>6
  <2>2. /\ c \in Seq(Buf)
        /\ Len(c) = Len(front) + Len(rest) + 1
        /\ \A j \in 1 .. Len(front) : c[j] = front[j]
        /\ \A j \in 1 .. Len(rest) : c[Len(front) + j] = rest[j]
        /\ c[Len(front) + Len(rest) + 1] = q[i]
    <3>1. front \in Seq(Buf) /\ rest \in Seq(Buf) /\ q[i] \in Buf
      BY <1>1, <1>2, <1>4
    <3> QED
      BY ONLY <2>1, <3>1, Concat3
  <2> QED
    BY <1>2, <1>4, <2>2
<1>8. ASSUME NEW j \in DOMAIN c
      PROVE  /\ Origin(q, s, i, j) \in DOMAIN q
             /\ c[j] = q[Origin(q, s, i, j)]
  <2>1. j \in 1 .. k + (Len(q) - i) + 1
    BY <1>7
  <2>2. CASE j <= k
    BY <1>1, <1>3, <1>7, <2>1, <2>2 DEF Origin
  <2>3. CASE j = k + (Len(q) - i) + 1
    BY <1>1, <1>3, <1>7, <2>1, <2>3 DEF Origin
  <2>4. CASE k < j /\ j <= k + (Len(q) - i)
    <3>1. j - k \in 1 .. Len(q) - i /\ k + (j - k) = j /\ i + (j - k) = j - k + i
      BY <1>1, <2>1, <2>4
    <3>2. c[j] = q[j - k + i]
      BY <1>7, <3>1
    <3>3. Origin(q, s, i, j) = j - k + i
      BY <1>1, <1>3, <2>1, <2>4 DEF Origin
    <3> QED
      BY <1>1, <3>1, <3>2, <3>3
  <2> QED
    BY <1>1, <2>1, <2>2, <2>3, <2>4
<1> QED
  BY <1>1, <1>3, <1>6, <1>7, <1>8

\* The move never links a buffer twice.
LEMMA RequeuedInjective ==
  ASSUME NEW q \in Seq(Buf), NEW s, NEW i \in DOMAIN q, Injective(q)
  PROVE  Injective(Requeued(q, s, i))
<1> DEFINE k == Kept(q, s, i)
           q2 == Requeued(q, s, i)
<1>1. i \in 1 .. Len(q) /\ Len(q) \in Nat /\ k \in {0, i - 1}
  BY DEF Kept
<1>2. /\ DOMAIN q2 = 1 .. k + Len(q) - i + 1
      /\ \A j \in DOMAIN q2 : /\ Origin(q, s, i, j) \in DOMAIN q
                              /\ q2[j] = q[Origin(q, s, i, j)]
  BY <1>1, RequeuedPositions
<1> HIDE DEF q2
<1>3. ASSUME NEW j \in DOMAIN q2, NEW l \in DOMAIN q2, q2[j] = q2[l]
      PROVE  j = l
  <2>1. Origin(q, s, i, j) = Origin(q, s, i, l)
    BY <1>2, <1>3 DEF Injective
  <2> HIDE DEF k
  <2>2. j \in 1 .. k + Len(q) - i + 1 /\ l \in 1 .. k + Len(q) - i + 1
    BY <1>2
  <2> QED
    BY <1>1, <2>1, <2>2 DEF Origin, k
<1> QED
  BY <1>3 DEF Injective, q2

\* A buffer behind the moved one that a search stopped at, the search still
\* stops at: nothing gets in front of it.
LEMMA RequeuedKeepsFirst ==
  ASSUME NEW q \in Seq(Buf), NEW s, NEW i \in DOMAIN q, Injective(q),
         NEW S, NEW j \in DOMAIN q, i < j, FirstIn(q, q[j], S)
  PROVE  FirstIn(Requeued(q, s, i), q[j], S)
<1>1. i \in 1 .. Len(q) /\ j \in 1 .. Len(q) /\ Len(q) \in Nat
  OBVIOUS
<1> PICK k \in {0, i - 1} : k = Kept(q, s, i)
  BY DEF Kept
<1> DEFINE q2 == Requeued(q, s, i)
           j2 == k + j - i
<1>2. /\ DOMAIN q2 = 1 .. k + Len(q) - i + 1
      /\ \A l \in DOMAIN q2 : /\ Origin(q, s, i, l) \in DOMAIN q
                              /\ q2[l] = q[Origin(q, s, i, l)]
  BY <1>1, RequeuedPositions
<1>3. q[j] \in S /\ \A l \in DOMAIN q : l < j => q[l] \notin S
  BY DEF FirstIn, Injective
<1> HIDE DEF q2
<1>4. j2 \in DOMAIN q2 /\ Origin(q, s, i, j2) = j
  <2>1. j2 \in 1 .. k + Len(q) - i + 1 /\ ~ j2 <= k /\ j2 # k + Len(q) - i + 1
    BY <1>1
  <2>2. Origin(q, s, i, j2) = j2 - k + i
    BY <2>1 DEF Origin
  <2> QED
    BY <1>1, <1>2, <2>1, <2>2
<1>5. ASSUME NEW l \in DOMAIN q2, l < j2
      PROVE  q2[l] \notin S
  <2>1. Origin(q, s, i, l) < j
    <3>1. l \in 1 .. k + Len(q) - i + 1 /\ l < k + j - i
      BY <1>2, <1>5
    <3>2. CASE l <= k
      <4>1. Origin(q, s, i, l) = l
        BY <3>2 DEF Origin
      <4> QED
        BY <1>1, <3>1, <3>2, <4>1
    <3>3. CASE ~ l <= k
      <4>1. l # k + Len(q) - i + 1
        BY <1>1, <3>1
      <4>2. Origin(q, s, i, l) = l - k + i
        BY <3>3, <4>1 DEF Origin
      <4> QED
        BY <1>1, <3>1, <4>2
    <3> QED
      BY <3>2, <3>3
  <2> QED
    BY <1>2, <1>3, <2>1
<1> QED
  BY <1>2, <1>3, <1>4, <1>5 DEF FirstIn, q2

-----------------------------------------------------------------------------
(***************************************************************************)
(* Type correctness.                                                       *)
(***************************************************************************)

LEMMA BootQueueType ==
  /\ BootQueue \in Seq(Buf)
  /\ Injective(BootQueue)
<1>1. NBUF \in Nat
  BY NBUFAssumption
<1>2. \A i \in 1 .. NBUF : NBUF - i \in Buf
  BY <1>1 DEF Buf
<1>3. BootQueue \in Seq(Buf)
  BY <1>1, <1>2 DEF BootQueue
<1> QED
  BY <1>1, <1>3 DEF BootQueue, Injective

\* Whatever BufferManager does, the list holds buffers, every buffer has a
\* sector number and a sector's worth of data, and only the two flags are set.
THEOREM TypeCorrect == Spec => []TypeOK
<1>1. Init => TypeOK
  BY BootQueueType, CacheAssumption DEF Init, TypeOK, Use
<1>2. TypeOK /\ [Next]_vars => TypeOK'
  <2> SUFFICES ASSUME TypeOK, [Next]_vars PROVE TypeOK'
    OBVIOUS
  <2> USE DEF TypeOK, Flag, Use, KeepList
  <2>1. ASSUME NEW b \in Buf, NEW n \in Block, GetBlkHit(b, n) PROVE TypeOK'
    BY <2>1 DEF GetBlkHit, CheckOut
  <2>2. ASSUME NEW b \in Buf, NEW n \in Block, GetBlkMiss(b, n) PROVE TypeOK'
    BY <2>2 DEF GetBlkMiss, CheckOut, Claim
  <2>3. ASSUME NEW b \in Buf, NEW n \in Block, BreadHit(b, n) PROVE TypeOK'
    BY <2>3 DEF BreadHit, CheckOut
  <2>4. ASSUME NEW b \in Buf, NEW n \in Block, BreadMiss(b, n) PROVE TypeOK'
    <3>1. disk' \in [Block -> Data]
      BY <2>4 DEF BreadMiss, Claim
    <3> QED
      BY <2>4, <3>1 DEF BreadMiss, CheckOut, Claim
  <2>5. ASSUME NEW b \in Buf, Brelse(b) PROVE TypeOK'
    BY <2>5 DEF Brelse
  <2>6. ASSUME NEW b \in Buf, NEW d \in Data, Bwrite(b, d) PROVE TypeOK'
    BY <2>6 DEF Bwrite, Fill
  <2>7. ASSUME NEW b \in Buf, NEW d \in Data, Bdwrite(b, d) PROVE TypeOK'
    BY <2>7 DEF Bdwrite, Fill
  <2>8. CASE Bflush
    <3>1. PICK i \in DOMAIN queue :
            /\ Requeue(i)
            /\ disk' = [disk EXCEPT ![blkno[queue[i]]] = data[queue[i]]]
            /\ flags' = [flags EXCEPT ![queue[i]] = @ \ {"DONE", "DELWRI"}]
      BY <2>8 DEF Bflush
    <3>2. queue[i] \in Buf
      OBVIOUS
    <3>3. queue' \in Seq(Buf)
      BY <3>1, RequeuedPositions DEF Requeue
    <3>4. Elements(queue') \subseteq Buf
      BY <3>3 DEF Elements
    <3>5. stale' \subseteq Buf
      BY <3>1, <3>4 DEF Requeue, StaleAfter
    <3>6. disk' \in [Block -> Data] /\ flags' \in [Buf -> SUBSET Flag]
      BY <3>1, <3>2
    <3> QED
      BY <2>8, <3>3, <3>5, <3>6 DEF Bflush
  <2>9. CASE Crash
    BY <2>9, BootQueueType, CacheAssumption DEF Crash
  <2>10. CASE UNCHANGED vars
    BY <2>10 DEF vars
  <2> QED
    BY <2>1, <2>2, <2>3, <2>4, <2>5, <2>6, <2>7, <2>8, <2>9, <2>10 DEF Next
<1> QED
  BY <1>1, <1>2, PTL DEF Spec

-----------------------------------------------------------------------------
(***************************************************************************)
(* The cache invariant.                                                    *)
(***************************************************************************)

\* Two buffers that a search for the same block stops at are one.
LEMMA FirstInUnique ==
  ASSUME NEW q \in Seq(Buf), NEW b, NEW c, NEW S, FirstIn(q, b, S), FirstIn(q, c, S)
  PROVE  b = c
<1>1. PICK i \in DOMAIN q : q[i] = b /\ b \in S /\ \A l \in DOMAIN q : l < i => q[l] \notin S
  BY DEF FirstIn
<1>2. PICK j \in DOMAIN q : q[j] = c /\ c \in S /\ \A l \in DOMAIN q : l < j => q[l] \notin S
  BY DEF FirstIn
<1>3. i \in Nat /\ j \in Nat /\ ~ i < j /\ ~ j < i
  BY <1>1, <1>2
<1> QED
  BY <1>1, <1>2, <1>3

\* Checking a free buffer out or in, or writing it, without moving it or giving
\* it another block, keeps the invariant if it ends up current.
LEMMA SameBlock ==
  ASSUME CacheInv, TypeOK', UNCHANGED <<queue, blkno>>,
         NEW b \in Buf, Hit(b, blkno[b]),
         \A c \in Buf \ {b} : /\ use'[c] = use[c]
                              /\ flags'[c] = flags[c]
                              /\ data'[c] = data[c],
         ("DONE" \in flags'[b]) <=> ("DELWRI" \in flags'[b]),
         use'[b] = "read" /\ "DELWRI" \notin flags'[b] => data'[b] = disk'[blkno[b]],
         \A n \in Block \ {blkno[b]} : disk'[n] = disk[n],
         disk'[blkno[b]] = disk[blkno[b]] \/ b \in Held
  PROVE  CacheInv'
<1> USE DEF CacheInv
<1>1. QueueInjective'
  BY DEF QueueInjective
<1>2. LiveFound'
  <2> SUFFICES ASSUME NEW c \in Buf, Live(c)' PROVE Hit(c, blkno[c])'
    BY DEF LiveFound
  <2>1. Hit(c, blkno[c])
    <3>1. CASE c = b
      BY <3>1
    <3>2. CASE c # b
      BY <3>2 DEF Live, Held, Dirty, LiveFound
    <3> QED
      BY <3>1, <3>2
  <2> QED
    BY <2>1 DEF Hit, Caching
<1>3. DoneMeansDelayed'
  BY DEF DoneMeansDelayed, Dirty
<1>4. ReadCurrent'
  <2> SUFFICES ASSUME NEW c \in Buf, use'[c] = "read", ~ Dirty(c)'
               PROVE  data'[c] = disk'[blkno[c]]
    BY DEF ReadCurrent
  <2>1. CASE c = b
    BY <2>1 DEF Dirty
  <2>2. CASE c # b
    <3>1. use[c] = "read" /\ data'[c] = data[c] /\ data[c] = disk[blkno[c]]
      BY <2>2 DEF ReadCurrent, Dirty
    <3>2. c \in Held
      BY <3>1 DEF Held
    <3>3. blkno[c] \in Block
      BY DEF TypeOK
    <3>4. CASE blkno[c] # blkno[b]
      BY <3>1, <3>3, <3>4
    <3>5. CASE blkno[c] = blkno[b]
      <4>1. Hit(c, blkno[b])
        BY <3>2, <3>5 DEF LiveFound, Live
      <4>2. c = b
        BY <4>1, FirstInUnique DEF Hit, TypeOK
      <4> QED
        BY <2>2, <4>2
    <3> QED
      BY <3>4, <3>5
  <2> QED
    BY <2>1, <2>2
<1> QED
  BY <1>1, <1>2, <1>3, <1>4

\* Giving a victim to another block writes its delayed write back first and
\* takes no other live buffer's place in a search.
LEMMA NewBlock ==
  ASSUME CacheInv, TypeOK', UNCHANGED queue,
         NEW b \in Buf, NEW n \in Block, Claim(b, n), use[b] = "free",
         \A c \in Buf \ {b} : use'[c] = use[c] /\ data'[c] = data[c],
         use'[b] = "read" => data'[b] = disk'[n]
  PROVE  CacheInv'
<1> USE DEF CacheInv
<1>1. QueueInjective'
  BY DEF QueueInjective
<1>2. /\ blkno' = [blkno EXCEPT ![b] = n]
      /\ flags' = [flags EXCEPT ![b] = {}]
      /\ Caching(n) \cap Linked = {}
      /\ FirstIn(queue, b, Buf \ Held)
  BY DEF Claim, Victim
<1>3. LiveFound'
  <2> SUFFICES ASSUME NEW c \in Buf, Live(c)' PROVE Hit(c, blkno[c])'
    BY DEF LiveFound
  <2>1. CASE c = b
    <3>1. \A j \in DOMAIN queue : queue[j] \in Caching(n)' => queue[j] = b
      BY <1>2 DEF Caching, Linked, Elements, TypeOK
    <3>2. PICK i \in DOMAIN queue : queue[i] = b
      BY <1>2 DEF FirstIn
    <3>3. \A j \in DOMAIN queue : j < i => queue[j] \notin Caching(n)'
      BY <3>1, <3>2 DEF QueueInjective, Injective, TypeOK
    <3>4. b \in Caching(n)' /\ blkno'[b] = n
      BY <1>2 DEF Caching, TypeOK
    <3> QED
      BY <2>1, <3>2, <3>3, <3>4 DEF Hit, FirstIn
  <2>2. CASE c # b
    <3>1. Live(c) /\ blkno'[c] = blkno[c]
      BY <1>2, <2>2 DEF Live, Held, Dirty, TypeOK
    <3>2. FirstIn(queue, c, Caching(blkno[c]))
      BY <3>1 DEF LiveFound, Hit
    <3>3. c \in Linked /\ c \in Caching(blkno[c])
      BY <3>2 DEF FirstIn, Linked, Elements
    <3>4. blkno[c] # n
      BY <1>2, <3>3
    <3>5. c \in Caching(blkno[c])' /\ Caching(blkno[c])' \subseteq Caching(blkno[c])
      BY <1>2, <3>1, <3>4 DEF Caching, TypeOK
    <3> QED
      BY <3>2, <3>5 DEF Hit, FirstIn
  <2> QED
    BY <2>1, <2>2
<1>4. DoneMeansDelayed'
  BY <1>2 DEF DoneMeansDelayed, Dirty, TypeOK
<1>5. ReadCurrent'
  <2> SUFFICES ASSUME NEW c \in Buf, use'[c] = "read", ~ Dirty(c)'
               PROVE  data'[c] = disk'[blkno'[c]]
    BY DEF ReadCurrent
  <2>1. CASE c = b
    BY <1>2, <2>1 DEF TypeOK
  <2>2. CASE c # b
    <3>1. use[c] = "read" /\ ~ Dirty(c) /\ blkno'[c] = blkno[c] /\ data'[c] = data[c]
      BY <1>2, <2>2 DEF Dirty, TypeOK
    <3>2. data[c] = disk[blkno[c]]
      BY <3>1 DEF ReadCurrent
    <3>3. Live(c)
      BY <3>1 DEF Live, Held
    <3>4. ASSUME Dirty(b) PROVE blkno[b] # blkno[c]
      <4>1. Hit(b, blkno[b]) /\ Hit(c, blkno[c])
        BY <3>3, <3>4 DEF LiveFound, Live
      <4> QED
        BY <2>2, <4>1, FirstInUnique DEF Hit, TypeOK
    <3>5. disk'[blkno[c]] = disk[blkno[c]]
      BY <3>4 DEF Claim, TypeOK
    <3> QED
      BY <3>1, <3>2, <3>5
  <2> QED
    BY <2>1, <2>2
<1> QED
  BY <1>1, <1>3, <1>4, <1>5

\* Bflush moves and cleans the first delayed write; the others are behind it
\* and stay where a search stops, and the buffers it drops are not live.
LEMMA FlushKeepsInv ==
  ASSUME CacheInv, TypeOK', Bflush
  PROVE  CacheInv'
<1> USE DEF CacheInv
<1>1. PICK i \in DOMAIN queue :
        /\ FirstIn(queue, queue[i], DirtyBuf)
        /\ Requeue(i)
        /\ disk' = [disk EXCEPT ![blkno[queue[i]]] = data[queue[i]]]
        /\ flags' = [flags EXCEPT ![queue[i]] = @ \ {"DONE", "DELWRI"}]
  BY DEF Bflush
<1>2. Held = {} /\ UNCHANGED <<blkno, data, use>>
  BY DEF Bflush
<1>3. queue \in Seq(Buf) /\ queue[i] \in Buf /\ Injective(queue)
  BY DEF TypeOK, QueueInjective
<1>4. queue' = Requeued(queue, stale, i)
  BY <1>1 DEF Requeue
<1>5. QueueInjective'
  BY <1>3, <1>4, RequeuedInjective DEF QueueInjective
<1>6. LiveFound'
  <2> SUFFICES ASSUME NEW c \in Buf, Live(c)' PROVE Hit(c, blkno[c])'
    BY DEF LiveFound
  <2>1. Dirty(c) /\ c # queue[i]
    BY <1>1, <1>2, <1>3 DEF Live, Held, Dirty, TypeOK
  <2>2. FirstIn(queue, c, Caching(blkno[c]))
    BY <2>1 DEF LiveFound, Live, Hit
  <2>3. PICK j \in DOMAIN queue : queue[j] = c
    BY <2>2 DEF FirstIn
  <2>4. i < j
    <3>1. \A l \in DOMAIN queue : l < i => queue[l] \notin DirtyBuf
      BY <1>1, <1>3 DEF FirstIn, Injective
    <3>2. queue[j] \in DirtyBuf
      BY <2>1, <2>3 DEF DirtyBuf
    <3>3. i \in Int /\ j \in Int /\ i # j
      BY <1>3, <2>1, <2>3
    <3> QED
      BY <3>1, <3>2, <3>3
  <2>5. FirstIn(queue', c, Caching(blkno[c]))
    BY <1>3, <1>4, <2>2, <2>3, <2>4, RequeuedKeepsFirst
  <2> QED
    BY <1>2, <2>5 DEF Hit, Caching
<1>7. DoneMeansDelayed'
  BY <1>1, <1>3 DEF DoneMeansDelayed, Dirty, TypeOK
<1>8. ReadCurrent'
  BY <1>2 DEF ReadCurrent, Held
<1> QED
  BY <1>5, <1>6, <1>7, <1>8

\* A sector always reads as it was last written: buffers with delayed writes,
\* and buffers in use, are in the list, are found first, agree with the image
\* when they are clean, and have B_DONE only for a delayed write.
THEOREM CacheCorrect == Spec => []CacheInv
<1>1. Init => CacheInv
  <2> SUFFICES ASSUME Init PROVE CacheInv
    OBVIOUS
  <2>1. TypeOK
    BY BootQueueType, CacheAssumption DEF Init, TypeOK, Use
  <2>2. QueueInjective
    BY BootQueueType DEF Init, QueueInjective
  <2>3. \A b \in Buf : ~ Live(b)
    BY DEF Init, Live, Held, Dirty
  <2> QED
    BY <2>1, <2>2, <2>3
    DEF CacheInv, Init, LiveFound, DoneMeansDelayed, ReadCurrent, Dirty
<1>2. CacheInv /\ TypeOK' /\ [Next]_vars => CacheInv'
  <2> SUFFICES ASSUME CacheInv, TypeOK', [Next]_vars PROVE CacheInv'
    OBVIOUS
  <2>0. TypeOK
    BY DEF CacheInv
  <2> USE DEF KeepList
  <2>1. ASSUME NEW b \in Buf, NEW n \in Block, GetBlkHit(b, n) PROVE CacheInv'
    <3>1. blkno[b] = n
      BY <2>1 DEF GetBlkHit, Hit, FirstIn, Caching
    <3>2. Hit(b, blkno[b])
      BY <2>1, <3>1 DEF GetBlkHit
    <3>3. use'[b] # "read"
      BY <2>0, <2>1 DEF GetBlkHit, CheckOut, TypeOK
    <3>4. ("DONE" \in flags'[b]) <=> ("DELWRI" \in flags'[b])
      BY <2>1 DEF GetBlkHit, CacheInv, DoneMeansDelayed, Dirty
    <3> QED
      BY <2>0, <2>1, <3>2, <3>3, <3>4, SameBlock DEF GetBlkHit, CheckOut, TypeOK
  <2>2. ASSUME NEW b \in Buf, NEW n \in Block, GetBlkMiss(b, n) PROVE CacheInv'
    <3>1. use'[b] # "read" /\ use[b] = "free"
      BY <2>0, <2>2 DEF GetBlkMiss, CheckOut, TypeOK
    <3>2. \A c \in Buf \ {b} : use'[c] = use[c] /\ data'[c] = data[c]
      BY <2>0, <2>2 DEF GetBlkMiss, CheckOut, TypeOK
    <3> QED
      BY <2>2, <3>1, <3>2, NewBlock DEF GetBlkMiss, CheckOut
  <2>3. ASSUME NEW b \in Buf, NEW n \in Block, BreadHit(b, n) PROVE CacheInv'
    <3>1. blkno[b] = n
      BY <2>3 DEF BreadHit, Hit, FirstIn, Caching
    <3>2. Hit(b, blkno[b])
      BY <2>3, <3>1 DEF BreadHit
    <3>3. "DELWRI" \notin flags'[b] => data'[b] = disk'[blkno[b]]
      BY <2>0, <2>3, <3>1 DEF BreadHit, CacheInv, DoneMeansDelayed, Dirty, TypeOK
    <3>4. \A c \in Buf \ {b} : use'[c] = use[c] /\ flags'[c] = flags[c] /\ data'[c] = data[c]
      BY <2>0, <2>3 DEF BreadHit, CheckOut, TypeOK
    <3>5. ("DONE" \in flags'[b]) <=> ("DELWRI" \in flags'[b])
      BY <2>3 DEF BreadHit, CacheInv, DoneMeansDelayed, Dirty
    <3> QED
      BY <2>3, <3>2, <3>3, <3>4, <3>5, SameBlock DEF BreadHit, CheckOut
  <2>4. ASSUME NEW b \in Buf, NEW n \in Block, BreadMiss(b, n) PROVE CacheInv'
    <3>1. data'[b] = disk'[n] /\ use[b] = "free"
      BY <2>0, <2>4 DEF BreadMiss, CheckOut, TypeOK
    <3>2. \A c \in Buf \ {b} : use'[c] = use[c] /\ data'[c] = data[c]
      BY <2>0, <2>4 DEF BreadMiss, CheckOut, TypeOK
    <3> QED
      BY <2>4, <3>1, <3>2, NewBlock DEF BreadMiss, CheckOut
  <2>5. ASSUME NEW b \in Buf, b \in Held, use'[b] = "free", UNCHANGED <<queue, blkno>>,
               \A c \in Buf \ {b} : /\ use'[c] = use[c]
                                    /\ flags'[c] = flags[c]
                                    /\ data'[c] = data[c],
               ("DONE" \in flags'[b]) <=> ("DELWRI" \in flags'[b]),
               \A n \in Block \ {blkno[b]} : disk'[n] = disk[n]
        PROVE  CacheInv'
    <3>1. Hit(b, blkno[b])
      BY <2>5 DEF CacheInv, LiveFound, Live
    <3> QED
      BY <2>5, <3>1, SameBlock
  <2>6. ASSUME NEW b \in Buf, Brelse(b) PROVE CacheInv'
    <3>1. b \in Held /\ use'[b] = "free" /\ \A c \in Buf \ {b} : use'[c] = use[c]
      BY <2>0, <2>6 DEF Brelse, Held, TypeOK
    <3>2. ("DONE" \in flags'[b]) <=> ("DELWRI" \in flags'[b])
      BY <2>6 DEF Brelse, CacheInv, DoneMeansDelayed, Dirty
    <3> QED
      BY <2>5, <2>6, <3>1, <3>2 DEF Brelse
  <2>7. ASSUME NEW b \in Buf, NEW d \in Data, Bwrite(b, d) PROVE CacheInv'
    <3>1. /\ b \in Held /\ use'[b] = "free" /\ UNCHANGED <<queue, blkno>>
          /\ \A c \in Buf \ {b} : use'[c] = use[c] /\ flags'[c] = flags[c] /\ data'[c] = data[c]
      BY <2>0, <2>7 DEF Bwrite, Fill, TypeOK
    <3>2. "DONE" \notin flags'[b] /\ "DELWRI" \notin flags'[b]
      BY <2>0, <2>7 DEF Bwrite, TypeOK
    <3>3. \A n \in Block \ {blkno[b]} : disk'[n] = disk[n]
      BY <2>0, <2>7 DEF Bwrite, TypeOK
    <3> QED
      BY <2>5, <3>1, <3>2, <3>3
  <2>8. ASSUME NEW b \in Buf, NEW d \in Data, Bdwrite(b, d) PROVE CacheInv'
    <3>1. /\ b \in Held /\ use'[b] = "free" /\ UNCHANGED <<queue, blkno>>
          /\ \A c \in Buf \ {b} : use'[c] = use[c] /\ flags'[c] = flags[c] /\ data'[c] = data[c]
      BY <2>0, <2>8 DEF Bdwrite, Fill, TypeOK
    <3>2. "DONE" \in flags'[b] /\ "DELWRI" \in flags'[b] /\ disk' = disk
      BY <2>0, <2>8 DEF Bdwrite, TypeOK
    <3> QED
      BY <2>5, <3>1, <3>2
  <2>9. CASE Bflush
    BY <2>9, FlushKeepsInv
  <2>10. CASE Crash
    <3>1. QueueInjective'
      BY <2>10, BootQueueType DEF Crash, QueueInjective
    <3>2. \A b \in Buf : ~ Live(b)'
      BY <2>10 DEF Crash, Live, Held, Dirty
    <3>3. DoneMeansDelayed' /\ ReadCurrent'
      BY <2>10 DEF Crash, DoneMeansDelayed, ReadCurrent, Dirty
    <3> QED
      BY <3>1, <3>2, <3>3 DEF CacheInv, LiveFound
  <2>11. CASE UNCHANGED vars
    BY <2>11 DEF vars, CacheInv, TypeOK, QueueInjective, LiveFound, Live, Held,
                 Dirty, Hit, Caching, DoneMeansDelayed, ReadCurrent
  <2> QED
    BY <2>1, <2>2, <2>3, <2>4, <2>6, <2>7, <2>8, <2>9, <2>10, <2>11 DEF Next
<1> QED
  BY <1>1, <1>2, TypeCorrect, PTL DEF Spec

\* What Bflush and GetBlk rely on: every buffer in use or with a delayed write
\* is in the list, and is the first there that has its block.
THEOREM LiveAlwaysFound == Spec => []LiveFound
<1>1. CacheInv => LiveFound
  BY DEF CacheInv
<1> QED
  BY <1>1, CacheCorrect, PTL

-----------------------------------------------------------------------------
(* BufferCache implements BlockStore *)

\* What the refinement mapping says of a block, by the one live buffer it has.
Views ==
  /\ \A b \in Buf : Dirty(b) => Written(blkno[b]) = data[b]
  /\ \A n \in Block : (\A b \in DirtyBuf : blkno[b] # n) => Written(n) = disk[n]
  /\ \A b \in Held :
       Seen(blkno[b]) = IF use[b] = "read" THEN data[b] ELSE Unread
  /\ \A n \in Block : (\A b \in Held : blkno[b] # n) => Seen(n) = Absent
  /\ \A n \in Block : Written(n) \in Data

LEMMA CacheViews == CacheInv => Views
<1> SUFFICES ASSUME CacheInv PROVE Views
  OBVIOUS
<1> USE DEF CacheInv
<1>1. ASSUME NEW b \in Buf, NEW c \in Buf, Live(b), Live(c), blkno[b] = blkno[c]
      PROVE  b = c
  BY <1>1, FirstInUnique DEF LiveFound, Hit, TypeOK
<1>2. \A b \in Buf : Dirty(b) => Written(blkno[b]) = data[b]
  <2> SUFFICES ASSUME NEW b \in Buf, Dirty(b) PROVE Written(blkno[b]) = data[b]
    OBVIOUS
  <2> DEFINE c == CHOOSE c \in DirtyBuf : blkno[c] = blkno[b]
  <2>1. c \in DirtyBuf /\ blkno[c] = blkno[b]
    BY DEF DirtyBuf
  <2>2. c = b
    BY <1>1, <2>1 DEF Live, DirtyBuf
  <2> QED
    BY <2>1, <2>2 DEF Written
<1>3. \A n \in Block : (\A b \in DirtyBuf : blkno[b] # n) => Written(n) = disk[n]
  BY DEF Written
<1>4. \A b \in Held : Seen(blkno[b]) = IF use[b] = "read" THEN data[b] ELSE Unread
  <2> SUFFICES ASSUME NEW b \in Held
               PROVE  Seen(blkno[b]) = IF use[b] = "read" THEN data[b] ELSE Unread
    OBVIOUS
  <2> DEFINE c == CHOOSE c \in Held : blkno[c] = blkno[b]
  <2>1. c \in Held /\ blkno[c] = blkno[b]
    OBVIOUS
  <2>2. c = b
    BY <1>1, <2>1 DEF Live, Held
  <2> QED
    BY <2>1, <2>2 DEF Seen
<1>5. \A n \in Block : (\A b \in Held : blkno[b] # n) => Seen(n) = Absent
  BY DEF Seen
<1>6. \A n \in Block : Written(n) \in Data
  <2> SUFFICES ASSUME NEW n \in Block PROVE Written(n) \in Data
    OBVIOUS
  <2>1. CASE \E b \in DirtyBuf : blkno[b] = n
    BY <1>2, <2>1 DEF DirtyBuf, TypeOK
  <2>2. CASE ~ \E b \in DirtyBuf : blkno[b] = n
    BY <1>3, <2>2 DEF TypeOK
  <2> QED
    BY <2>1, <2>2
<1> QED
  BY <1>2, <1>3, <1>4, <1>5, <1>6 DEF Views

LEMMA CacheViewsNext == CacheInv' => Views'
BY CacheViews, PTL

\* A block has one live buffer.
LEMMA LiveUnique ==
  ASSUME CacheInv, NEW b \in Buf, NEW c \in Buf, Live(c), Hit(b, blkno[c])
  PROVE  b = c
BY FirstInUnique DEF CacheInv, LiveFound, Hit, TypeOK

StoreMap == [n \in Block |-> Written(n)]

ViewMap == [n \in Block |-> Seen(n)]

\* Checking block n out in buffer b.
LEMMA CheckOutView ==
  ASSUME CacheInv, CacheInv', NEW b \in Buf, NEW n \in Block,
         use[b] = "free", use'[b] # "free", blkno'[b] = n,
         \A c \in Buf \ {b} : use'[c] = use[c],
         \A c \in Buf \ {b} : blkno'[c] = blkno[c] /\ data'[c] = data[c],
         \A c \in Held : blkno[c] # n
  PROVE  /\ ViewMap[n] = Absent
         /\ ViewMap' = [ViewMap EXCEPT ![n] = IF use'[b] = "read" THEN data'[b] ELSE Unread]
<1>1. Views /\ Views'
  BY CacheViews, CacheViewsNext
<1>2. use \in [Buf -> Use]
  BY DEF CacheInv, TypeOK
<1>3. Held' = Held \cup {b} /\ b \notin Held
  BY <1>2 DEF Held
<1>4. ViewMap[n] = Absent
  BY <1>1 DEF Views, ViewMap
<1>5. ASSUME NEW m \in Block
      PROVE  Seen(m)' = IF m = n THEN (IF use'[b] = "read" THEN data'[b] ELSE Unread)
                                 ELSE Seen(m)
  <2>1. CASE m = n
    BY <1>1, <1>2, <1>3, <2>1 DEF Views
  <2>2. CASE m # n /\ \E c \in Held : blkno[c] = m
    <3>1. PICK c \in Held : blkno[c] = m
      BY <2>2
    <3>2. c \in Held' /\ c # b /\ c \in Buf /\ use'[c] = use[c]
      BY <1>2, <1>3 DEF Held
    <3>3. blkno'[c] = m /\ data'[c] = data[c]
      BY <3>1, <3>2
    <3>4. Seen(m) = IF use[c] = "read" THEN data[c] ELSE Unread
      BY <1>1, <3>1 DEF Views
    <3>5. Seen(m)' = IF use'[c] = "read" THEN data'[c] ELSE Unread
      BY <1>1, <3>2, <3>3 DEF Views
    <3> QED
      BY <2>2, <3>2, <3>3, <3>4, <3>5
  <2>3. CASE m # n /\ ~ \E c \in Held : blkno[c] = m
    <3>1. \A c \in Held' : blkno'[c] # m
      BY <1>3, <2>3 DEF Held
    <3> QED
      BY <1>1, <2>3, <3>1 DEF Views
  <2> QED
    BY <2>1, <2>2, <2>3
<1> QED
  BY <1>4, <1>5 DEF ViewMap

\* Handing buffer b back.
LEMMA ReturnView ==
  ASSUME CacheInv, CacheInv', NEW b \in Held,
         use' = [use EXCEPT ![b] = "free"], blkno' = blkno,
         \A c \in Buf \ {b} : data'[c] = data[c]
  PROVE  /\ ViewMap[blkno[b]] = IF use[b] = "read" THEN data[b] ELSE Unread
         /\ ViewMap' = [ViewMap EXCEPT ![blkno[b]] = Absent]
<1>1. Views /\ Views'
  BY CacheViews, CacheViewsNext
<1>2. use \in [Buf -> Use] /\ b \in Buf /\ blkno[b] \in Block
  BY DEF CacheInv, TypeOK, Held
<1>3. Held' = Held \ {b}
  BY <1>2 DEF Held
<1>4. ViewMap[blkno[b]] = IF use[b] = "read" THEN data[b] ELSE Unread
  BY <1>1, <1>2 DEF Views, ViewMap
<1>5. \A c \in Held : blkno[c] = blkno[b] => c = b
  BY <1>2, LiveUnique DEF CacheInv, LiveFound, Live, Held
<1>6. ASSUME NEW m \in Block
      PROVE  Seen(m)' = IF m = blkno[b] THEN Absent ELSE Seen(m)
  <2>1. CASE m = blkno[b]
    <3>1. \A c \in Held' : blkno'[c] # m
      BY <1>3, <1>5, <2>1
    <3> QED
      BY <1>1, <2>1, <3>1 DEF Views
  <2>2. CASE m # blkno[b] /\ \E c \in Held : blkno[c] = m
    <3>1. PICK c \in Held : blkno[c] = m
      BY <2>2
    <3>2. c \in Held' /\ c # b /\ c \in Buf /\ use'[c] = use[c] /\ data'[c] = data[c]
      BY <1>2, <1>3, <2>2, <3>1 DEF Held
    <3>3. Seen(m) = IF use[c] = "read" THEN data[c] ELSE Unread
      BY <1>1, <3>1 DEF Views
    <3>4. Seen(m)' = IF use'[c] = "read" THEN data'[c] ELSE Unread
      BY <1>1, <3>1, <3>2 DEF Views
    <3> QED
      BY <2>2, <3>2, <3>3, <3>4
  <2>3. CASE m # blkno[b] /\ ~ \E c \in Held : blkno[c] = m
    <3>1. \A c \in Held' : blkno'[c] # m
      BY <1>3, <2>3
    <3> QED
      BY <1>1, <2>3, <3>1 DEF Views
  <2> QED
    BY <2>1, <2>2, <2>3
<1> QED
  BY <1>4, <1>6 DEF ViewMap

\* Reading and releasing leave every block as it was written.
LEMMA SameStore ==
  ASSUME CacheInv, CacheInv', UNCHANGED <<blkno, flags, disk>>,
         \A c \in Buf : Dirty(c) => data'[c] = data[c]
  PROVE  StoreMap' = StoreMap
<1>1. Views /\ Views' /\ DirtyBuf' = DirtyBuf
  BY CacheViews, CacheViewsNext DEF DirtyBuf, Dirty
<1>2. ASSUME NEW m \in Block PROVE Written(m)' = Written(m)
  <2>1. CASE \E c \in DirtyBuf : blkno[c] = m
    BY <1>1, <2>1 DEF Views, DirtyBuf, Dirty
  <2>2. CASE ~ \E c \in DirtyBuf : blkno[c] = m
    BY <1>1, <2>2 DEF Views
  <2> QED
    BY <2>1, <2>2
<1> QED
  BY <1>2 DEF StoreMap

\* A delayed write that goes to the image (a victim's, or Bflush's) leaves every
\* block as it was written.
LEMMA WriteBackStore ==
  ASSUME CacheInv, CacheInv', NEW b \in Buf, Dirty(b),
         DirtyBuf' = DirtyBuf \ {b},
         \A c \in DirtyBuf' : blkno'[c] = blkno[c] /\ data'[c] = data[c],
         disk' = [disk EXCEPT ![blkno[b]] = data[b]]
  PROVE  /\ StoreMap' = StoreMap
         /\ blkno[b] \in Block
         /\ disk' = [disk EXCEPT ![blkno[b]] = StoreMap[blkno[b]]]
<1>1. Views /\ Views'
  BY CacheViews, CacheViewsNext
<1>2. disk \in [Block -> Data] /\ blkno[b] \in Block
  BY DEF CacheInv, TypeOK
<1>3. Written(blkno[b]) = data[b]
  BY <1>1 DEF Views
<1>4. \A c \in DirtyBuf : blkno[c] = blkno[b] => c = b
  BY LiveUnique DEF CacheInv, LiveFound, Live, DirtyBuf
<1>5. ASSUME NEW m \in Block PROVE Written(m)' = Written(m)
  <2>1. CASE m = blkno[b]
    <3>1. \A c \in DirtyBuf' : blkno'[c] # m
      BY <1>4, <2>1
    <3> QED
      BY <1>1, <1>2, <1>3, <2>1, <3>1 DEF Views
  <2>2. CASE m # blkno[b] /\ \E c \in DirtyBuf : blkno[c] = m
    <3>1. PICK c \in DirtyBuf : blkno[c] = m
      BY <2>2
    <3>2. c \in DirtyBuf' /\ Dirty(c) /\ Dirty(c)' /\ c \in Buf
      BY <2>2, <3>1 DEF DirtyBuf
    <3>3. Written(m) = data[c]
      BY <1>1, <3>1, <3>2 DEF Views
    <3>4. Written(m)' = data'[c]
      BY <1>1, <3>1, <3>2 DEF Views
    <3> QED
      BY <3>2, <3>3, <3>4
  <2>3. CASE m # blkno[b] /\ ~ \E c \in DirtyBuf : blkno[c] = m
    <3>1. \A c \in DirtyBuf' : blkno'[c] # m
      BY <2>3
    <3>2. disk'[m] = disk[m]
      BY <1>2, <2>3
    <3> QED
      BY <1>1, <2>3, <3>1, <3>2 DEF Views
  <2> QED
    BY <2>1, <2>2, <2>3
<1> QED
  BY <1>2, <1>3, <1>5 DEF StoreMap

\* Bwrite and Bdwrite change the block they write, and no other.
LEMMA WriteStore ==
  ASSUME CacheInv, CacheInv', NEW b \in Held, NEW d \in Data,
         data' = [data EXCEPT ![b] = d], blkno' = blkno,
         \A c \in Buf \ {b} : flags'[c] = flags[c],
         \A m \in Block \ {blkno[b]} : disk'[m] = disk[m],
         ~ Dirty(b)' => disk'[blkno[b]] = d
  PROVE  StoreMap' = [StoreMap EXCEPT ![blkno[b]] = d]
<1>1. Views /\ Views'
  BY CacheViews, CacheViewsNext
<1>2. b \in Buf /\ blkno[b] \in Block /\ data'[b] = d
  BY DEF CacheInv, TypeOK, Held
<1>3. \A c \in Buf \ {b} : data'[c] = data[c] /\ (Dirty(c)' <=> Dirty(c))
  BY <1>2 DEF CacheInv, TypeOK, Dirty
<1>4. \A c \in DirtyBuf : blkno[c] = blkno[b] => c = b
  BY <1>2, LiveUnique DEF CacheInv, LiveFound, Live, DirtyBuf
<1>5. ASSUME NEW m \in Block
      PROVE  Written(m)' = IF m = blkno[b] THEN d ELSE Written(m)
  <2>1. CASE m = blkno[b] /\ Dirty(b)'
    BY <1>1, <1>2, <2>1 DEF Views
  <2>2. CASE m = blkno[b] /\ ~ Dirty(b)'
    <3>1. \A c \in DirtyBuf' : blkno'[c] # m
      BY <1>3, <1>4, <2>2 DEF DirtyBuf
    <3> QED
      BY <1>1, <2>2, <3>1 DEF Views
  <2>3. CASE m # blkno[b] /\ \E c \in DirtyBuf : blkno[c] = m
    <3>1. PICK c \in DirtyBuf : blkno[c] = m
      BY <2>3
    <3>2. c \in Buf \ {b} /\ Dirty(c) /\ Dirty(c)'
      BY <1>3, <2>3, <3>1 DEF DirtyBuf
    <3>3. Written(m) = data[c]
      BY <1>1, <3>1, <3>2 DEF Views
    <3>4. Written(m)' = data'[c]
      BY <1>1, <3>1, <3>2 DEF Views
    <3> QED
      BY <1>3, <2>3, <3>2, <3>3, <3>4
  <2>4. CASE m # blkno[b] /\ ~ \E c \in DirtyBuf : blkno[c] = m
    <3>1. \A c \in DirtyBuf' : blkno'[c] # m
      BY <1>3, <2>4 DEF DirtyBuf
    <3> QED
      BY <1>1, <2>4, <3>1 DEF Views
  <2> QED
    BY <2>1, <2>2, <2>3, <2>4
<1> QED
  BY <1>5 DEF StoreMap

-----------------------------------------------------------------------------
(***************************************************************************)
(* Every call is a step of the block store.                                *)
(***************************************************************************)

\* A hit: the buffer found is the block's only live one.
LEMMA HitStep ==
  ASSUME CacheInv, NEW b \in Buf, NEW n \in Block, Hit(b, n), use[b] = "free"
  PROVE  /\ blkno[b] = n
         /\ \A c \in Held : blkno[c] # n
         /\ \A c \in DirtyBuf : blkno[c] = n => c = b
<1>1. blkno[b] = n
  BY DEF Hit, FirstIn, Caching
<1>2. ASSUME NEW c \in Buf, Live(c), blkno[c] = n PROVE c = b
  BY <1>2, LiveUnique
<1> QED
  BY <1>1, <1>2 DEF Live, Held, DirtyBuf

\* A miss: nothing live has the block, and what is written back on the way is
\* the victim's block.
LEMMA MissStep ==
  ASSUME CacheInv, CacheInv', NEW b \in Buf, NEW n \in Block, Claim(b, n), use[b] = "free",
         \A c \in Buf \ {b} : data'[c] = data[c]
  PROVE  /\ blkno'[b] = n
         /\ \A c \in Buf \ {b} : blkno'[c] = blkno[c]
         /\ \A c \in Held : blkno[c] # n
         /\ StoreMap' = StoreMap
         /\ StoreMap[n] = disk'[n]
         /\ \/ disk' = disk
            \/ \E m \in Block : disk' = [disk EXCEPT ![m] = StoreMap[m]]
<1>1. /\ blkno' = [blkno EXCEPT ![b] = n]
      /\ flags' = [flags EXCEPT ![b] = {}]
      /\ Caching(n) \cap Linked = {}
      /\ b \in Linked
  BY DEF Claim, Victim, FirstIn, Linked, Elements
<1>2. TypeOK
  BY DEF CacheInv
<1>3. blkno'[b] = n /\ \A c \in Buf \ {b} : blkno'[c] = blkno[c]
  BY <1>1, <1>2 DEF TypeOK
<1>4. ASSUME NEW c \in Buf, Live(c) PROVE blkno[c] # n
  <2>1. c \in Linked
    BY <1>4 DEF CacheInv, LiveFound, Hit, FirstIn, Linked, Elements
  <2> QED
    BY <1>1, <2>1 DEF Caching
<1>5. blkno[b] # n
  BY <1>1 DEF Caching
<1>6. Views
  BY CacheViews
<1>7. StoreMap[n] = disk[n]
  BY <1>4, <1>6 DEF Views, StoreMap, Live, DirtyBuf
<1>8. DirtyBuf' = DirtyBuf \ {b}
  BY <1>1, <1>2 DEF DirtyBuf, Dirty, TypeOK
<1>9. CASE Dirty(b)
  <2>1. disk' = [disk EXCEPT ![blkno[b]] = data[b]]
    BY <1>9 DEF Claim
  <2>2. \A c \in DirtyBuf' : blkno'[c] = blkno[c] /\ data'[c] = data[c]
    BY <1>3, <1>8 DEF DirtyBuf
  <2>3. /\ StoreMap' = StoreMap
        /\ \E m \in Block : disk' = [disk EXCEPT ![m] = StoreMap[m]]
    BY <1>8, <1>9, <2>1, <2>2, WriteBackStore
  <2>4. disk'[n] = disk[n]
    BY <1>2, <1>5, <2>1 DEF TypeOK
  <2> QED
    BY <1>3, <1>4, <1>7, <2>3, <2>4 DEF Live, Held
<1>10. CASE ~ Dirty(b)
  <2>1. disk' = disk /\ DirtyBuf' = DirtyBuf
    BY <1>8, <1>10 DEF Claim, DirtyBuf
  <2>2. Views'
    BY CacheViewsNext
  <2>3. \A c \in DirtyBuf : c \in Buf \ {b} /\ Dirty(c) /\ Dirty(c)'
    BY <1>8, <2>1 DEF DirtyBuf
  <2>4. ASSUME NEW m \in Block PROVE Written(m)' = Written(m)
    <3>1. CASE \E c \in DirtyBuf : blkno[c] = m
      BY <1>3, <1>6, <2>2, <2>3, <3>1 DEF Views
    <3>2. CASE ~ \E c \in DirtyBuf : blkno[c] = m
      <4>1. \A c \in DirtyBuf' : blkno'[c] # m
        BY <1>3, <2>1, <2>3, <3>2
      <4> QED
        BY <1>6, <2>1, <2>2, <3>2, <4>1 DEF Views
    <3> QED
      BY <3>1, <3>2
  <2> QED
    BY <1>3, <1>4, <1>7, <2>1, <2>4 DEF StoreMap, Live, Held
<1> QED
  BY <1>9, <1>10

\* A block always reads as it was last written, delayed or not, through hits,
\* victims, write-backs, any number of Bflush calls and crashes, which cost
\* delayed writes and nothing else.
THEOREM CacheImplementsStore == Spec => ImplementsStore
<1>1. Init => Store!Init
  <2> SUFFICES ASSUME Init PROVE Store!Init
    OBVIOUS
  <2>1. disk \in [Block -> Data]
    BY DEF Init
  <2>2. \A n \in Block : Written(n) = disk[n] /\ Seen(n) = Absent
    BY DEF Init, Written, Seen, DirtyBuf, Dirty, Held
  <2> QED
    BY <2>1, <2>2 DEF Store!Init
<1>2. CacheInv /\ CacheInv' /\ [Next]_vars => [Store!Next]_(Store!vars)
  <2> SUFFICES ASSUME CacheInv, CacheInv', [Next]_vars
               PROVE  [Store!Next]_(Store!vars)
    OBVIOUS
  <2> DEFINE S == StoreMap
             V == ViewMap
  <2>0. TypeOK
    BY DEF CacheInv
  <2> USE DEF KeepList
  <2>1. ASSUME NEW b \in Buf, NEW n \in Block, GetBlkHit(b, n) PROVE Store!Take(n)
    <3>1. use[b] = "free" /\ use' = [use EXCEPT ![b] = "raw"] /\ Hit(b, n)
      BY <2>1 DEF GetBlkHit, CheckOut
    <3>2. blkno[b] = n /\ \A c \in Held : blkno[c] # n
      BY <3>1, HitStep
    <3>3. UNCHANGED <<blkno, flags, data, disk>>
      BY <2>1 DEF GetBlkHit
    <3>4. V[n] = Absent /\ V' = [V EXCEPT ![n] = Unread]
      <4>1. use'[b] = "raw" /\ \A c \in Buf \ {b} : use'[c] = use[c]
        BY <2>0, <3>1 DEF TypeOK
      <4>2. /\ use[b] = "free" /\ blkno'[b] = n
            /\ \A c \in Buf \ {b} : blkno'[c] = blkno[c] /\ data'[c] = data[c]
            /\ \A c \in Held : blkno[c] # n
        BY <3>1, <3>2, <3>3
      <4>3. /\ ViewMap[n] = Absent
            /\ ViewMap' = [ViewMap EXCEPT ![n] = IF use'[b] = "read" THEN data'[b] ELSE Unread]
        BY <4>1, <4>2, CheckOutView
      <4> QED
        BY <3>1, <3>2, <3>3, <4>1, <4>3
    <3>5. S' = S
      BY <3>3, SameStore
    <3> QED
      BY <3>3, <3>4, <3>5 DEF Store!Take, Store!CheckOut, Store!WriteBack, StoreMap, ViewMap
  <2>2. ASSUME NEW b \in Buf, NEW n \in Block, GetBlkMiss(b, n) PROVE Store!Take(n)
    <3>1. use[b] = "free" /\ use' = [use EXCEPT ![b] = "raw"] /\ Claim(b, n) /\ data' = data
      BY <2>2 DEF GetBlkMiss, CheckOut
    <3>2. /\ blkno'[b] = n
          /\ \A c \in Buf \ {b} : blkno'[c] = blkno[c]
          /\ \A c \in Held : blkno[c] # n
          /\ S' = S
          /\ \/ disk' = disk
             \/ \E m \in Block : disk' = [disk EXCEPT ![m] = S[m]]
      BY <3>1, MissStep
    <3>3. V[n] = Absent /\ V' = [V EXCEPT ![n] = Unread]
      <4>1. use'[b] = "raw" /\ \A c \in Buf \ {b} : use'[c] = use[c]
        BY <2>0, <3>1 DEF TypeOK
      <4>2. /\ use[b] = "free" /\ blkno'[b] = n
            /\ \A c \in Buf \ {b} : blkno'[c] = blkno[c] /\ data'[c] = data[c]
            /\ \A c \in Held : blkno[c] # n
        BY <3>1, <3>2
      <4>3. /\ ViewMap[n] = Absent
            /\ ViewMap' = [ViewMap EXCEPT ![n] = IF use'[b] = "read" THEN data'[b] ELSE Unread]
        BY <4>1, <4>2, CheckOutView
      <4> QED
        BY <3>1, <3>2, <4>1, <4>3
    <3> QED
      BY <3>2, <3>3 DEF Store!Take, Store!CheckOut, Store!WriteBack, StoreMap, ViewMap
  <2>3. ASSUME NEW b \in Buf, NEW n \in Block, BreadHit(b, n) PROVE Store!Read(n)
    <3>1. use[b] = "free" /\ use' = [use EXCEPT ![b] = "read"] /\ Hit(b, n)
      BY <2>3 DEF BreadHit, CheckOut
    <3>2. /\ blkno[b] = n
          /\ \A c \in Held : blkno[c] # n
          /\ \A c \in DirtyBuf : blkno[c] = n => c = b
      BY <3>1, HitStep
    <3>3. UNCHANGED <<blkno, flags, disk>>
      BY <2>3 DEF BreadHit
    <3>4. data' = IF Dirty(b) THEN data ELSE [data EXCEPT ![b] = disk[n]]
      BY <2>3 DEF BreadHit, CacheInv, DoneMeansDelayed
    <3>5. \A c \in Buf \ {b} : data'[c] = data[c]
      BY <2>0, <3>4 DEF TypeOK
    <3>6. V[n] = Absent /\ V' = [V EXCEPT ![n] = data'[b]]
      <4>1. use'[b] = "read" /\ \A c \in Buf \ {b} : use'[c] = use[c]
        BY <2>0, <3>1 DEF TypeOK
      <4>2. /\ use[b] = "free" /\ blkno'[b] = n
            /\ \A c \in Buf \ {b} : blkno'[c] = blkno[c] /\ data'[c] = data[c]
            /\ \A c \in Held : blkno[c] # n
        BY <3>1, <3>2, <3>3, <3>5
      <4>3. /\ ViewMap[n] = Absent
            /\ ViewMap' = [ViewMap EXCEPT ![n] = IF use'[b] = "read" THEN data'[b] ELSE Unread]
        BY <4>1, <4>2, CheckOutView
      <4> QED
        BY <3>1, <3>2, <3>3, <3>5, <4>1, <4>3
    <3>7. S' = S
      BY <3>3, <3>4, <3>5, SameStore
    <3>8. data'[b] = S[n]
      <4>1. Views
        BY CacheViews
      <4>2. CASE Dirty(b)
        BY <3>2, <3>4, <4>1, <4>2 DEF Views, StoreMap
      <4>3. CASE ~ Dirty(b)
        <5>1. \A c \in DirtyBuf : blkno[c] # n
          BY <3>2, <4>3 DEF DirtyBuf
        <5>2. S[n] = disk[n]
          BY <4>1, <5>1 DEF Views, StoreMap
        <5> QED
          BY <2>0, <3>4, <4>3, <5>2 DEF TypeOK
      <4> QED
        BY <4>2, <4>3
    <3> QED
      BY <3>3, <3>6, <3>7, <3>8 DEF Store!Read, Store!CheckOut, Store!WriteBack, StoreMap, ViewMap
  <2>4. ASSUME NEW b \in Buf, NEW n \in Block, BreadMiss(b, n) PROVE Store!Read(n)
    <3>1. /\ use[b] = "free" /\ use' = [use EXCEPT ![b] = "read"] /\ Claim(b, n)
          /\ data' = [data EXCEPT ![b] = disk'[n]]
      BY <2>4 DEF BreadMiss, CheckOut
    <3>2. data'[b] = disk'[n] /\ \A c \in Buf \ {b} : data'[c] = data[c]
      BY <2>0, <3>1 DEF TypeOK
    <3>3. /\ blkno'[b] = n
          /\ \A c \in Buf \ {b} : blkno'[c] = blkno[c]
          /\ \A c \in Held : blkno[c] # n
          /\ S' = S
          /\ S[n] = disk'[n]
          /\ \/ disk' = disk
             \/ \E m \in Block : disk' = [disk EXCEPT ![m] = S[m]]
      BY <3>1, <3>2, MissStep
    <3>4. V[n] = Absent /\ V' = [V EXCEPT ![n] = S[n]]
      <4>1. use'[b] = "read" /\ \A c \in Buf \ {b} : use'[c] = use[c]
        BY <2>0, <3>1 DEF TypeOK
      <4>2. /\ use[b] = "free" /\ blkno'[b] = n
            /\ \A c \in Buf \ {b} : blkno'[c] = blkno[c] /\ data'[c] = data[c]
            /\ \A c \in Held : blkno[c] # n
        BY <3>1, <3>2, <3>3
      <4>3. /\ ViewMap[n] = Absent
            /\ ViewMap' = [ViewMap EXCEPT ![n] = IF use'[b] = "read" THEN data'[b] ELSE Unread]
        BY <4>1, <4>2, CheckOutView
      <4> QED
        BY <3>1, <3>2, <3>3, <4>1, <4>3
    <3> QED
      BY <3>3, <3>4 DEF Store!Read, Store!CheckOut, Store!WriteBack, StoreMap, ViewMap
  <2>5. ASSUME NEW b \in Buf, Brelse(b) PROVE \E n \in Block : Store!Return(n)
    <3>1. /\ use[b] = "read" /\ use' = [use EXCEPT ![b] = "free"] /\ b \in Held
          /\ UNCHANGED <<blkno, flags, data, disk>>
      BY <2>5 DEF Brelse, Held
    <3>2. V[blkno[b]] = data[b] /\ V' = [V EXCEPT ![blkno[b]] = Absent]
      BY <3>1, ReturnView
    <3>3. S' = S
      BY <3>1, SameStore
    <3>4. blkno[b] \in Block /\ data[b] \in Data
      BY <2>0 DEF TypeOK
    <3> QED
      BY <3>1, <3>2, <3>3, <3>4 DEF Store!Return, StoreMap, ViewMap
  <2>6. ASSUME NEW b \in Buf, NEW d \in Data, Bwrite(b, d)
        PROVE  \E n \in Block : Store!WriteThrough(n, d)
    <3>1. /\ b \in Held /\ use' = [use EXCEPT ![b] = "free"] /\ blkno' = blkno
          /\ data' = [data EXCEPT ![b] = d]
          /\ disk' = [disk EXCEPT ![blkno[b]] = d]
          /\ \A c \in Buf \ {b} : flags'[c] = flags[c] /\ data'[c] = data[c]
      BY <2>0, <2>6 DEF Bwrite, Fill, TypeOK
    <3>2. blkno[b] \in Block /\ data[b] \in Data
      BY <2>0 DEF TypeOK
    <3>3. /\ V[blkno[b]] = IF use[b] = "read" THEN data[b] ELSE Unread
          /\ V' = [V EXCEPT ![blkno[b]] = Absent]
      BY <3>1, ReturnView
    <3>4. V[blkno[b]] # Absent
      BY <3>2, <3>3, CacheAssumption
    <3>5. disk'[blkno[b]] = d /\ \A m \in Block \ {blkno[b]} : disk'[m] = disk[m]
      BY <2>0, <3>1, <3>2 DEF TypeOK
    <3>6. S' = [S EXCEPT ![blkno[b]] = d]
      <4>1. /\ data' = [data EXCEPT ![b] = d] /\ blkno' = blkno /\ b \in Held
            /\ \A c \in Buf \ {b} : flags'[c] = flags[c]
            /\ \A m \in Block \ {blkno[b]} : disk'[m] = disk[m]
            /\ ~ Dirty(b)' => disk'[blkno[b]] = d
        BY <3>1, <3>5
      <4> QED
        BY <4>1, WriteStore
    <3> QED
      BY <3>1, <3>2, <3>3, <3>4, <3>6 DEF Store!WriteThrough, Store!Write, StoreMap, ViewMap
  <2>7. ASSUME NEW b \in Buf, NEW d \in Data, Bdwrite(b, d)
        PROVE  \E n \in Block : Store!WriteDelayed(n, d)
    <3>1. /\ b \in Held /\ use' = [use EXCEPT ![b] = "free"] /\ blkno' = blkno
          /\ data' = [data EXCEPT ![b] = d]
          /\ disk' = disk
          /\ \A c \in Buf \ {b} : flags'[c] = flags[c] /\ data'[c] = data[c]
          /\ Dirty(b)'
      BY <2>0, <2>7 DEF Bdwrite, Fill, TypeOK, Dirty
    <3>2. blkno[b] \in Block /\ data[b] \in Data
      BY <2>0 DEF TypeOK
    <3>3. /\ V[blkno[b]] = IF use[b] = "read" THEN data[b] ELSE Unread
          /\ V' = [V EXCEPT ![blkno[b]] = Absent]
      BY <3>1, ReturnView
    <3>4. V[blkno[b]] # Absent
      BY <3>2, <3>3, CacheAssumption
    <3>5. S' = [S EXCEPT ![blkno[b]] = d]
      <4>1. ~ Dirty(b)' => disk'[blkno[b]] = d
        BY <3>1
      <4>2. \A m \in Block \ {blkno[b]} : disk'[m] = disk[m]
        BY <3>1
      <4> QED
        BY <3>1, <4>1, <4>2, WriteStore
    <3> QED
      BY <3>1, <3>2, <3>3, <3>4, <3>5 DEF Store!WriteDelayed, Store!Write, StoreMap, ViewMap
  <2>8. CASE Bflush
    <3>1. PICK i \in DOMAIN queue :
            /\ FirstIn(queue, queue[i], DirtyBuf)
            /\ disk' = [disk EXCEPT ![blkno[queue[i]]] = data[queue[i]]]
            /\ flags' = [flags EXCEPT ![queue[i]] = @ \ {"DONE", "DELWRI"}]
      BY <2>8 DEF Bflush
    <3>2. UNCHANGED <<blkno, data, use>>
      BY <2>8 DEF Bflush
    <3>3. queue[i] \in Buf /\ Dirty(queue[i])
      BY <2>0, <3>1 DEF TypeOK, FirstIn, DirtyBuf
    <3>4. DirtyBuf' = DirtyBuf \ {queue[i]}
      BY <2>0, <3>1, <3>3 DEF DirtyBuf, Dirty, TypeOK
    <3>5. /\ S' = S
          /\ blkno[queue[i]] \in Block
          /\ disk' = [disk EXCEPT ![blkno[queue[i]]] = S[blkno[queue[i]]]]
      BY <3>1, <3>2, <3>3, <3>4, WriteBackStore
    <3>6. V' = V
      BY <3>2 DEF ViewMap, Seen, Held
    <3> QED
      BY <3>5, <3>6 DEF Store!Next, Store!Flush, Store!WriteBack, StoreMap, ViewMap
  <2>9. CASE Crash
    <3>1. \A n \in Block : Written(n)' = disk[n] /\ Seen(n)' = Absent
      BY <2>9 DEF Crash, Written, Seen, DirtyBuf, Dirty, Held
    <3>2. disk \in [Block -> Data] /\ disk' = disk
      BY <2>0, <2>9 DEF TypeOK, Crash
    <3> QED
      BY <3>1, <3>2 DEF Store!Next, Store!Crash
  <2>10. CASE UNCHANGED vars
    <3>1. S' = S /\ V' = V /\ disk' = disk
      BY <2>10 DEF vars, StoreMap, ViewMap, Written, Seen, DirtyBuf, Dirty, Held
    <3> QED
      BY <3>1 DEF Store!vars, StoreMap, ViewMap
  <2> QED
    BY <2>1, <2>2, <2>3, <2>4, <2>5, <2>6, <2>7, <2>8, <2>9, <2>10 DEF Next, Store!Next
<1> QED
  BY <1>1, <1>2, CacheCorrect, PTL DEF Spec, ImplementsStore, Store!Spec

=============================================================================
