----------------------------- MODULE StartUpProofs -----------------------------
(***************************************************************************)
(* Proofs about StartUp, for any number of buffers, any geometry of the    *)
(* disk and any place where a write may be cut off.                        *)
(***************************************************************************)
EXTENDS StartUp, SequenceTheorems, FiniteSetTheorems, WellFoundedInduction, TLAPS

Buf == List!Buf

Head0 == List!bFreeList

-----------------------------------------------------------------------------
(***************************************************************************)
(* The list of buffers as a sequence.                                      *)
(***************************************************************************)

\* The node at position j of the ring: the head in front of q and behind it.
At(q, j) == IF j \in 1 .. Len(q) THEN q[j] ELSE Head0

\* b_forw leads through q and back to the head; b_back of the head is the last
\* buffer, and that of a buffer the one in front of it or, wrongly, the head.
Threaded(q) ==
  /\ q \in Seq(Buf) /\ Queue!Injective(q) /\ Len(q) <= built
  /\ \A j \in 1 .. Len(q) : q[j] < built
  /\ \A j \in 0 .. Len(q) : forw[At(q, j)] = At(q, j + 1)
  /\ back[Head0] = At(q, Len(q))
  /\ \A j \in 1 .. Len(q) : back[q[j]] \in {At(q, j - 1), Head0}

\* The inductive invariant of the list.
Ringed == List!TypeOK /\ \E q \in Seq(Buf) : Threaded(q)

LEMMA Nodes ==
  /\ NBUF \in Nat \ {0}
  /\ Buf = 0 .. NBUF - 1
  /\ Head0 = NBUF /\ Head0 \notin Buf
  /\ List!Node = 0 .. NBUF
BY StartUpAssumption DEF Buf, Head0, List!Buf, List!bFreeList, List!Node

\* A set that has 0, and with a number its successor, has them all.
LEMMA InductionTo ==
  ASSUME NEW n \in Nat, NEW S, 0 \in S, \A k \in 0 .. n - 1 : k \in S => k + 1 \in S
  PROVE  \A k \in 0 .. n : k \in S
<1> DEFINE Bad == {k \in 0 .. n : k \notin S}
<1> SUFFICES ASSUME Bad # {} PROVE FALSE
  OBVIOUS
<1>1. PICK m \in Bad : \A k \in Bad : ~ (<<k, m>> \in OpToRel(<, Nat))
  <2>1. Bad \in SUBSET Nat
    OBVIOUS
  <2> HIDE DEF Bad
  <2> QED
    BY <2>1, NatLessThanWellFounded, WFMin, Zenon
<1>2. m \in 1 .. n /\ m \notin S
  OBVIOUS
<1>3. m - 1 \notin Bad
  <2>1. <<m - 1, m>> \in {p \in Nat \X Nat : p[1] < p[2]}
    BY <1>2
  <2>2. <<m - 1, m>> \in OpToRel(<, Nat)
    BY <2>1, Zenon DEF OpToRel
  <2> QED
    BY <1>1, <2>2
<1>4. m - 1 \in S /\ (m - 1) + 1 = m /\ m - 1 \in 0 .. n - 1
  BY <1>2, <1>3
<1> QED
  BY <1>2, <1>4

\* What a definition by recursion along f asks for is there.
Walk(s, h, f, N) == s = [n \in 0 .. N |-> IF n = 0 THEN h ELSE f[s[n - 1]]]

LEMMA Iterates ==
  ASSUME NEW h, NEW f, NEW N \in Nat
  PROVE  \E s : Walk(s, h, f, N)
<1> DEFINE Right(k) == \E s : s = [n \in 0 .. k |-> IF n = 0 THEN h ELSE f[s[n - 1]]]
           S == {k \in Nat : Right(k)}
<1>1. Right(0)
  <2> DEFINE s == [n \in 0 .. 0 |-> h]
  <2>1. s = [n \in 0 .. 0 |-> IF n = 0 THEN h ELSE f[s[n - 1]]]
    OBVIOUS
  <2> QED
    BY <2>1
<1>2. ASSUME NEW k \in Nat, Right(k) PROVE Right(k + 1)
  <2>1. PICK s : s = [n \in 0 .. k |-> IF n = 0 THEN h ELSE f[s[n - 1]]]
    BY <1>2
  <2> DEFINE g == [n \in 0 .. k + 1 |-> IF n = k + 1 THEN f[s[k]] ELSE s[n]]
  <2>2. \A n \in 0 .. k : g[n] = s[n] /\ s[n] = IF n = 0 THEN h ELSE f[s[n - 1]]
    BY <2>1
  <2>3. g[k + 1] = f[s[k]] /\ k \in 0 .. k /\ (k + 1) - 1 = k /\ k + 1 # 0
    OBVIOUS
  <2>4. ASSUME NEW n \in 0 .. k + 1
        PROVE  g[n] = IF n = 0 THEN h ELSE f[g[n - 1]]
    <3>1. CASE n = k + 1
      BY <2>2, <2>3, <3>1
    <3>2. CASE n \in 1 .. k
      <4>1. n \in 0 .. k /\ n - 1 \in 0 .. k /\ n # 0
        BY <3>2
      <4> HIDE DEF g
      <4> QED
        BY <2>2, <4>1
    <3>3. CASE n = 0
      <4>1. 0 \in 0 .. k
        OBVIOUS
      <4> HIDE DEF g
      <4> QED
        BY <2>2, <3>3, <4>1
    <3> QED
      BY <3>1, <3>2, <3>3
  <2>5. g = [n \in 0 .. k + 1 |-> IF n = 0 THEN h ELSE f[g[n - 1]]]
    BY <2>4
  <2> HIDE DEF g
  <2> QED
    BY <2>5
<1> HIDE DEF Right
<1>3. 0 \in S /\ \A k \in 0 .. N - 1 : k \in S => k + 1 \in S
  BY <1>1, <1>2
<1>4. \A k \in 0 .. N : k \in S
  <2> HIDE DEF S
  <2> QED
    BY <1>3, InductionTo
<1>5. Right(N)
  BY <1>4
<1> QED
  BY <1>5 DEF Right, Walk

LEMMA StepIs ==
  /\ List!Step[0] = Head0
  /\ \A n \in 1 .. NBUF + 1 : List!Step[n] = forw[List!Step[n - 1]]
<1> DEFINE h == List!bFreeList
<1>1. NBUF + 1 \in Nat
  BY StartUpAssumption
<1>2. \E s : s = [n \in 0 .. NBUF + 1 |-> IF n = 0 THEN h ELSE forw[s[n - 1]]]
  <2>1. PICK f : f = forw
    OBVIOUS
  <2>2. PICK b : b = h
    OBVIOUS
  <2>3. \E s : s = [n \in 0 .. NBUF + 1 |-> IF n = 0 THEN b ELSE f[s[n - 1]]]
    <3> DEFINE N == NBUF + 1
    <3>1. N \in Nat
      BY <1>1
    <3> HIDE DEF N
    <3>2. \E s : Walk(s, b, f, N)
      BY <3>1, Iterates
    <3> QED
      BY <3>2 DEF N, Walk
  <2> QED
    BY <2>1, <2>2, <2>3
<1> DEFINE st == List!Step
<1>3. st = [n \in 0 .. NBUF + 1 |-> IF n = 0 THEN h ELSE forw[st[n - 1]]]
  BY <1>2 DEF List!Step
<1> HIDE DEF st
<1>4. st[0] = h /\ \A n \in 1 .. NBUF + 1 : st[n] = forw[st[n - 1]]
  <2>1. 0 \in 0 .. NBUF + 1 /\ \A n \in 1 .. NBUF + 1 : n \in 0 .. NBUF + 1 /\ n # 0
    BY <1>1
  <2> HIDE DEF h
  <2> QED
    BY <1>3, <2>1
<1> QED
  BY <1>4 DEF st, Head0

\* The loop over b_forw visits what q says, and stops.
LEMMA ThreadedIs ==
  ASSUME NEW q \in Seq(Buf), Threaded(q), List!TypeOK
  PROVE  /\ \A n \in 0 .. Len(q) + 1 : List!Step[n] = At(q, n)
         /\ List!Length = Len(q)
         /\ List!Chain = q
         /\ List!Linked = {q[j] : j \in 1 .. Len(q)}
<1>1. Len(q) \in 0 .. NBUF /\ Len(q) \in Nat /\ NBUF \in Nat /\ DOMAIN q = 1 .. Len(q)
  <2>1. built \in 0 .. NBUF /\ Len(q) <= built /\ NBUF \in Nat
    BY Nodes DEF Threaded, List!TypeOK
  <2>2. Len(q) \in Nat /\ DOMAIN q = 1 .. Len(q)
    OBVIOUS
  <2> QED
    BY <2>1, <2>2
<1>2. \A n \in 0 .. Len(q) + 1 : List!Step[n] = At(q, n)
  <2> DEFINE S == {n \in Nat : List!Step[n] = At(q, n)}
  <2>1. 0 \in S
    BY <1>1, StepIs DEF At
  <2>2. ASSUME NEW k \in 0 .. Len(q), k \in S PROVE k + 1 \in S
    <3>1. k + 1 \in 1 .. NBUF + 1 /\ (k + 1) - 1 = k
      BY <1>1
    <3>2. List!Step[k + 1] = forw[List!Step[k]]
      BY <3>1, StepIs
    <3> QED
      BY <2>2, <3>2 DEF Threaded
  <2>3. \A n \in 0 .. Len(q) + 1 : n \in S
    <3>1. (Len(q) + 1) - 1 = Len(q) /\ Len(q) + 1 \in Nat
      BY <1>1
    <3> HIDE DEF S
    <3> QED
      BY <2>1, <2>2, <3>1, InductionTo
  <2> QED
    BY <2>3
<1>3. /\ List!Step[Len(q) + 1] = Head0
      /\ \A n \in 1 .. Len(q) : List!Step[n] = q[n] /\ q[n] # Head0
  BY <1>1, <1>2, Nodes DEF At
<1>4. List!Length = Len(q)
  <2> DEFINE P(n) == List!Step[n + 1] = Head0 /\ \A m \in 1 .. n : List!Step[m] # Head0
  <2>1. P(Len(q))
    BY <1>3
  <2>2. ASSUME NEW n \in 0 .. NBUF, P(n) PROVE n = Len(q)
    <3>1. ~ n < Len(q)
      <4> SUFFICES ASSUME n < Len(q) PROVE FALSE
        OBVIOUS
      <4>1. n + 1 \in 1 .. Len(q)
        BY <1>1
      <4> QED
        BY <1>3, <2>2, <4>1
    <3>2. ~ n > Len(q)
      <4> SUFFICES ASSUME n > Len(q) PROVE FALSE
        OBVIOUS
      <4>1. Len(q) + 1 \in 1 .. n
        BY <1>1
      <4> QED
        BY <1>3, <2>2, <4>1
    <3>3. n \in Nat /\ Len(q) \in Nat
      BY <1>1, <2>2
    <3> QED
      BY <3>1, <3>2, <3>3
  <2>3. List!Length = CHOOSE n \in 0 .. NBUF : P(n)
    BY DEF List!Length, Head0
  <2> HIDE DEF P
  <2> QED
    BY <1>1, <2>1, <2>2, <2>3
<1>5. List!Chain = q
  <2>1. List!Chain = [n \in 1 .. Len(q) |-> q[n]]
    BY <1>3, <1>4 DEF List!Chain
  <2>2. q = [n \in 1 .. Len(q) |-> q[n]]
    BY <1>1
  <2> QED
    BY <2>1, <2>2
<1>6. List!Linked = {q[j] : j \in 1 .. Len(q)}
  BY <1>1, <1>5 DEF List!Linked
<1> QED
  BY <1>2, <1>4, <1>5, <1>6

-----------------------------------------------------------------------------
\* What b_back says of the first buffer is right; of another it is stale or not.
LEMMA StaleIs ==
  ASSUME NEW q \in Seq(Buf), Threaded(q), List!TypeOK
  PROVE  List!StaleBack = {q[j] : j \in {k \in 2 .. Len(q) : back[q[k]] = Head0}}
<1>1. Len(q) \in Nat /\ \A j \in 1 .. Len(q) : q[j] \in Buf /\ q[j] # Head0
  BY Nodes
<1>2. forw[Head0] = At(q, 1)
  <2>1. 0 \in 0 .. Len(q) /\ 0 + 1 = 1 /\ At(q, 0) = Head0
    BY <1>1 DEF At
  <2> QED
    BY <2>1 DEF Threaded
<1>3. \A j \in 1 .. Len(q) : q[j] = forw[Head0] <=> j = 1
  BY <1>1, <1>2 DEF At, Threaded, Queue!Injective
<1>4. List!StaleBack = {b \in {q[j] : j \in 1 .. Len(q)} : back[b] = Head0 /\ forw[Head0] # b}
  BY ThreadedIs DEF List!StaleBack, Head0
<1>5. \A j \in 1 .. Len(q) : j = 1 \/ j \in 2 .. Len(q)
  BY <1>1
<1>6. \A j \in 2 .. Len(q) : j \in 1 .. Len(q) /\ j # 1
  BY <1>1
<1> QED
  BY <1>3, <1>4, <1>5, <1>6

\* The instance's name for it.
LEMMA SameCardinality ==
  ASSUME NEW S
  PROVE  List!Cardinality(S) = Cardinality(S)
BY Zenon DEF List!Cardinality, Cardinality

\* A list that is a sequence is a ring.
LEMMA RingedCloses ==
  Ringed => List!Ring
<1> SUFFICES ASSUME Ringed PROVE List!Ring
  OBVIOUS
<1>1. PICK q \in Seq(Buf) : Threaded(q)
  BY DEF Ringed
<1>2. Len(q) \in Nat /\ List!TypeOK
  BY DEF Ringed
<1>3. List!Step[Len(q) + 1] = Head0 /\ List!Step[Len(q)] = At(q, Len(q))
  BY <1>1, <1>2, ThreadedIs DEF At
<1>4. Cardinality({q[j] : j \in 1 .. Len(q)}) = Len(q)
  <2>1. q \in Bijection(1 .. Len(q), {q[j] : j \in 1 .. Len(q)})
    BY <1>1, <1>2 DEF Bijection, Injection, Surjection, IsInjective, Threaded, Queue!Injective
  <2>2. ExistsBijection(1 .. Len(q), {q[j] : j \in 1 .. Len(q)})
    BY <2>1 DEF ExistsBijection
  <2> QED
    BY <1>2, <2>2, FS_CountingElements, Zenon
<1>5. List!Length = Len(q) /\ List!Linked = {q[j] : j \in 1 .. Len(q)}
  BY <1>1, <1>2, ThreadedIs
<1>6. back[Head0] = At(q, Len(q))
  BY <1>1 DEF Threaded
<1>7. List!Step[List!Length + 1] = Head0 /\ List!Step[List!Length] = back[Head0]
  BY <1>3, <1>5, <1>6
<1>8. Cardinality(List!Linked) = List!Length
  BY <1>4, <1>5
<1> QED
  BY <1>7, <1>8, SameCardinality DEF List!Ring, Head0

\* Memory that is zero-filled is the empty list.
LEMMA EmptyList ==
  ASSUME List!Init
  PROVE  Ringed /\ List!Chain = <<>> /\ List!StaleBack = {}
<1>1. List!TypeOK
  BY Nodes DEF List!Init, List!TypeOK, Head0
<1>2. << >> \in Seq(Buf) /\ Len(<< >>) = 0
  OBVIOUS
<1>3. Threaded(<< >>)
  BY <1>2, Nodes DEF Threaded, At, Queue!Injective, List!Init, Head0
<1>4. List!Chain = <<>>
  BY <1>1, <1>2, <1>3, ThreadedIs
<1>5. List!StaleBack = {}
  <2>1. {k \in 2 .. Len(<<>>) : back[<<>>[k]] = Head0} = {}
    BY <1>2
  <2> QED
    BY <1>1, <1>2, <1>3, <2>1, StaleIs
<1> QED
  BY <1>1, <1>2, <1>3, <1>4, <1>5 DEF Ringed

\* Initialize's turn puts a buffer in front.
LEMMA Inserted ==
  ASSUME NEW q \in Seq(Buf), Threaded(q), List!TypeOK, List!InitializeBuf
  PROVE  /\ List!TypeOK'
         /\ built \in Buf /\ built \notin {q[j] : j \in 1 .. Len(q)}
         /\ \E q2 \in Seq(Buf) :
              /\ q2 = <<built>> \o q /\ Len(q2) = Len(q) + 1
              /\ q2[1] = built /\ \A j \in 1 .. Len(q) : q2[j + 1] = q[j]
              /\ Threaded(q2)'
              /\ \A j \in 2 .. Len(q2) : back'[q2[j]] = Head0 <=> j > 2 /\ back[q2[j]] = Head0
<1> PICK bp : bp = built
  OBVIOUS
<1> DEFINE q2 == <<bp>> \o q
           f1 == [forw EXCEPT ![bp] = forw[Head0]]
           b1 == [back EXCEPT ![bp] = Head0]
<1>1. /\ bp \in Buf /\ bp # Head0 /\ bp \in List!Node /\ Head0 \in List!Node
      /\ built' = bp + 1 /\ bp \in Nat
      /\ back' = [b1 EXCEPT ![f1[Head0]] = bp]
      /\ forw' = [f1 EXCEPT ![Head0] = bp]
  BY Nodes DEF List!InitializeBuf, List!MoreBuffers, List!TypeOK, Head0
<1>2. Len(q) \in Nat /\ \A j \in 1 .. Len(q) : q[j] \in Buf /\ q[j] # Head0 /\ q[j] \in List!Node /\ q[j] # bp
  BY <1>1, Nodes DEF Threaded
<1>3. q2 \in Seq(Buf) /\ Len(q2) = Len(q) + 1 /\ q2[1] = bp /\ \A j \in 2 .. Len(q) + 1 : q2[j] = q[j - 1]
  <2>1. <<bp>> \in Seq(Buf) /\ Len(<<bp>>) = 1 /\ <<bp>>[1] = bp
    BY <1>1
  <2> QED
    BY <1>2, <2>1, ConcatProperties
<1>4. /\ forw \in [List!Node -> List!Node] /\ back \in [List!Node -> List!Node]
      /\ built \in 0 .. NBUF
  BY DEF List!TypeOK
<1>5. forw[Head0] = At(q, 1) /\ At(q, 1) \in List!Node /\ At(q, 1) # bp
  <2>1. 0 \in 0 .. Len(q) /\ 0 + 1 = 1 /\ At(q, 0) = Head0
    BY <1>2 DEF At
  <2> QED
    BY <1>1, <1>2, <2>1 DEF Threaded, At
<1> HIDE DEF q2
<1>6. List!TypeOK'
  <2>1. f1 \in [List!Node -> List!Node] /\ b1 \in [List!Node -> List!Node]
    BY <1>1, <1>4
  <2>2. f1[Head0] \in List!Node
    BY <1>1, <2>1
  <2> HIDE DEF f1, b1
  <2>3. forw' \in [List!Node -> List!Node] /\ back' \in [List!Node -> List!Node]
    BY <1>1, <2>1, <2>2
  <2>4. built' \in 0 .. NBUF
    <3>1. bp \in 0 .. NBUF - 1 /\ NBUF \in Nat /\ built' = bp + 1
      BY <1>1, Nodes
    <3> QED
      BY <3>1
  <2> QED
    BY <2>3, <2>4 DEF List!TypeOK
<1>7. /\ forw'[Head0] = bp /\ forw'[bp] = At(q, 1)
      /\ \A j \in 1 .. Len(q) : forw'[q[j]] = forw[q[j]]
  BY <1>1, <1>2, <1>4, <1>5
<1>8. /\ back'[At(q, 1)] = bp /\ back'[bp] = Head0
      /\ \A x \in List!Node : x # bp /\ x # At(q, 1) => back'[x] = back[x]
  BY <1>1, <1>2, <1>4, <1>5
<1>9. At(q2, 0) = Head0 /\ At(q2, 1) = bp /\ \A j \in 2 .. Len(q) + 2 : At(q2, j) = At(q, j - 1)
  <2>1. \A j \in 2 .. Len(q) + 2 : At(q2, j) = At(q, j - 1)
    BY <1>2, <1>3 DEF At
  <2> QED
    BY <1>2, <1>3, <2>1 DEF At
<1>10. Queue!Injective(q2) /\ \A j \in 1 .. Len(q2) : q2[j] < built'
  <2>1. \A j \in 1 .. Len(q) : q[j] < bp
    BY DEF Threaded
  <2>2. \A j \in 1 .. Len(q2) : j = 1 \/ (j \in 2 .. Len(q) + 1 /\ j - 1 \in 1 .. Len(q))
    BY <1>2, <1>3
  <2>3. ASSUME NEW j \in 1 .. Len(q2) PROVE q2[j] < built'
    <3>1. bp < bp + 1 /\ bp \in Nat /\ built' = bp + 1
      BY <1>1
    <3>2. CASE j = 1
      BY <1>3, <3>1, <3>2
    <3>3. CASE j - 1 \in 1 .. Len(q) /\ j \in 2 .. Len(q) + 1
      <4>1. q2[j] < bp /\ q2[j] \in 0 .. NBUF - 1
        BY <1>2, <1>3, <2>1, <3>3, Nodes
      <4> QED
        BY <3>1, <4>1
    <3> QED
      BY <2>2, <3>2, <3>3
  <2>4. ASSUME NEW j \in 1 .. Len(q2), NEW l \in 1 .. Len(q2), q2[j] = q2[l] PROVE j = l
    <3>1. CASE j = 1 \/ l = 1
      BY <1>2, <1>3, <2>2, <2>4, <3>1
    <3>2. CASE j # 1 /\ l # 1
      <4>1. q[j - 1] = q[l - 1] /\ j - 1 \in 1 .. Len(q) /\ l - 1 \in 1 .. Len(q)
        BY <1>3, <2>2, <2>4, <3>2
      <4>2. j - 1 = l - 1
        BY <4>1 DEF Threaded, Queue!Injective
      <4> QED
        BY <4>2, <1>2, <1>3
    <3> QED
      BY <3>1, <3>2
  <2> QED
    BY <1>3, <2>3, <2>4 DEF Queue!Injective
<1>11. ASSUME NEW j \in 0 .. Len(q2) PROVE forw'[At(q2, j)] = At(q2, j + 1)
  <2>1. CASE j = 0
    BY <1>7, <1>9, <2>1
  <2>2. CASE j = 1
    BY <1>2, <1>7, <1>9, <2>2
  <2>3. CASE j \in 2 .. Len(q) + 1
    <3>1. At(q2, j) = At(q, j - 1) /\ At(q2, j + 1) = At(q, j)
      BY <1>2, <1>9, <2>3
    <3>2. j - 1 \in 1 .. Len(q) /\ (j - 1) + 1 = j
      BY <1>2, <2>3
    <3>3. forw[At(q, j - 1)] = At(q, j) /\ At(q, j - 1) = q[j - 1]
      BY <3>2 DEF Threaded, At
    <3> QED
      BY <1>7, <3>1, <3>2, <3>3
  <2> QED
    BY <1>2, <1>3, <2>1, <2>2, <2>3
<1>12. back'[Head0] = At(q2, Len(q2))
  <2>1. CASE Len(q) = 0
    BY <1>2, <1>3, <1>8, <1>9, <2>1 DEF At
  <2>2. CASE Len(q) # 0
    <3>1. At(q, 1) = q[1] /\ At(q2, Len(q2)) = At(q, Len(q))
      BY <1>2, <1>3, <1>9, <2>2 DEF At
    <3>2. Head0 # At(q, 1)
      BY <1>2, <2>2, <3>1
    <3> QED
      BY <1>1, <1>8, <3>1, <3>2 DEF Threaded
  <2> QED
    BY <2>1, <2>2
<1>13. ASSUME NEW j \in 1 .. Len(q2) PROVE back'[q2[j]] \in {At(q2, j - 1), Head0}
  <2>1. CASE j = 1
    BY <1>3, <1>8, <2>1
  <2>2. CASE j = 2
    BY <1>2, <1>3, <1>8, <1>9, <2>2 DEF At
  <2>3. CASE j \in 3 .. Len(q) + 1
    <3>1. q2[j] = q[j - 1] /\ At(q2, j - 1) = At(q, j - 2) /\ j - 1 \in 1 .. Len(q) /\ j - 1 # 1 /\ (j - 1) - 1 = j - 2
      BY <1>2, <1>3, <1>9, <2>3
    <3>2. q[j - 1] # At(q, 1)
      BY <1>2, <3>1 DEF At, Threaded, Queue!Injective
    <3> QED
      BY <1>2, <1>8, <3>1, <3>2 DEF Threaded
  <2> QED
    BY <1>2, <1>3, <2>1, <2>2, <2>3
<1>14. Len(q2) <= built'
  BY <1>1, <1>2, <1>3, <1>4 DEF Threaded
<1>15. (Threaded(q2))'
  BY <1>3, <1>10, <1>11, <1>12, <1>13, <1>14 DEF Threaded
<1>16. ASSUME NEW j \in 2 .. Len(q2)
       PROVE  back'[q2[j]] = Head0 <=> j > 2 /\ back[q2[j]] = Head0
  <2>1. q2[j] = q[j - 1] /\ j - 1 \in 1 .. Len(q) /\ j \in Nat
    BY <1>2, <1>3
  <2>2. CASE j = 2
    <3>1. back'[q2[j]] = bp
      BY <1>2, <1>8, <2>1, <2>2 DEF At
    <3> QED
      BY <1>1, <2>2, <3>1
  <2>3. CASE j # 2
    <3>1. q[j - 1] # At(q, 1) /\ j > 2
      BY <1>2, <2>1, <2>3 DEF At, Threaded, Queue!Injective
    <3>2. back'[q2[j]] = back[q2[j]]
      BY <1>2, <1>8, <2>1, <3>1
    <3> QED
      BY <3>1, <3>2
  <2> QED
    BY <2>2, <2>3
<1>17. \A j \in 1 .. Len(q) : q2[j + 1] = q[j]
  <2> SUFFICES ASSUME NEW j \in 1 .. Len(q) PROVE q2[j + 1] = q[j]
    OBVIOUS
  <2>1. j + 1 \in 2 .. Len(q) + 1 /\ (j + 1) - 1 = j
    BY <1>2
  <2> QED
    BY <1>3, <2>1
<1>18. bp \notin {q[j] : j \in 1 .. Len(q)} /\ q2 = <<bp>> \o q
  BY <1>2 DEF q2
<1>19. \E r \in Seq(Buf) :
         /\ r = <<bp>> \o q /\ Len(r) = Len(q) + 1
         /\ r[1] = bp /\ \A j \in 1 .. Len(q) : r[j + 1] = q[j]
         /\ Threaded(r)'
         /\ \A j \in 2 .. Len(r) : back'[r[j]] = Head0 <=> j > 2 /\ back[r[j]] = Head0
  BY <1>3, <1>15, <1>16, <1>17, <1>18
<1> QED
  BY <1>1, <1>6, <1>18, <1>19

LEMMA Concat3 ==
  ASSUME NEW p \in Seq(Buf), NEW r \in Seq(Buf), NEW e \in Buf,
         NEW c, c = p \o r \o <<e>>
  PROVE  /\ c \in Seq(Buf)
         /\ Len(c) = Len(p) + Len(r) + 1
         /\ \A j \in 1 .. Len(p) : c[j] = p[j]
         /\ \A j \in 1 .. Len(r) : c[Len(p) + j] = r[j]
         /\ c[Len(p) + Len(r) + 1] = e
<1> DEFINE l == p \o r
<1>1. /\ l \in Seq(Buf)
      /\ Len(l) = Len(p) + Len(r)
      /\ \A j \in 1 .. Len(p) + Len(r) : l[j] = IF j <= Len(p) THEN p[j] ELSE r[j - Len(p)]
  BY ConcatProperties
<1>2. <<e>> \in Seq(Buf) /\ Len(<<e>>) = 1 /\ <<e>>[1] = e
  OBVIOUS
<1>3. Len(p) \in Nat /\ Len(r) \in Nat
  OBVIOUS
<1> HIDE DEF l
<1>4. /\ c \in Seq(Buf)
      /\ Len(c) = Len(l) + 1
      /\ \A j \in 1 .. Len(l) + 1 : c[j] = IF j <= Len(l) THEN l[j] ELSE <<e>>[j - Len(l)]
  <2>1. c = l \o <<e>>
    BY DEF l
  <2> QED
    BY ConcatProperties, <1>1, <1>2, <2>1
<1>5. \A j \in 1 .. Len(p) : c[j] = p[j]
  BY <1>1, <1>3, <1>4
<1>6. \A j \in 1 .. Len(r) : c[Len(p) + j] = r[j]
  BY <1>1, <1>3, <1>4
<1>7. c[Len(p) + Len(r) + 1] = e
  BY <1>1, <1>2, <1>3, <1>4
<1> QED
  BY <1>1, <1>4, <1>5, <1>6, <1>7

\* What Bflush makes of the list, position by position: all or none of what was in
\* front, then what was behind, then the moved buffer.
Requeuing(q, s, k, kept, q2) ==
  kept = (IF q[k] \in s THEN 0 ELSE k - 1) /\ q2 = Queue!Requeued(q, s, k)

PutLast(q, k, kept, q2) ==
  /\ q2 \in Seq(Buf)
  /\ Len(q2) = kept + Len(q) - k + 1
  /\ \A j \in 1 .. kept : q2[j] = q[j]
  /\ \A j \in k + 1 .. Len(q) : q2[kept + j - k] = q[j]
  /\ q2[kept + Len(q) - k + 1] = q[k]

LEMMA RequeuedIs ==
  ASSUME NEW q \in Seq(Buf), NEW s, NEW k \in 1 .. Len(q), NEW kept, NEW q2,
         Requeuing(q, s, k, kept, q2)
  PROVE  PutLast(q, k, kept, q2)
<1> USE DEF Requeuing
<1>1. Len(q) \in Nat /\ q[k] \in Buf /\ kept \in 0 .. k - 1
  OBVIOUS
<1>2. PICK rest \in Seq(Buf) : 
        /\ rest = SubSeq(q, k + 1, Len(q))
        /\ Len(rest) = Len(q) - k /\ \A j \in 1 .. Len(q) - k : rest[j] = q[k + j]
  <2> DEFINE rest == SubSeq(q, k + 1, Len(q))
  <2>1. rest \in Seq(Buf) /\ Len(rest) = Len(q) - k /\ \A j \in 1 .. Len(q) - k : rest[j] = q[k + j]
    BY <1>1
  <2> QED
    BY <2>1
<1>3. PICK front \in Seq(Buf) :
        front = Queue!Before(q, s, k) /\ Len(front) = kept /\ \A j \in 1 .. kept : front[j] = q[j]
  <2> DEFINE front == Queue!Before(q, s, k)
  <2>1. front \in Seq(Buf) /\ Len(front) = kept /\ \A j \in 1 .. kept : front[j] = q[j]
    BY <1>1 DEF Queue!Before
  <2> QED
    BY <2>1
<1>4. q2 = front \o rest \o <<q[k]>>
  BY <1>2, <1>3 DEF Queue!Requeued
<1>5. /\ q2 \in Seq(Buf)
      /\ Len(q2) = kept + (Len(q) - k) + 1
      /\ \A j \in 1 .. kept : q2[j] = front[j]
      /\ \A j \in 1 .. Len(q) - k : q2[kept + j] = rest[j]
      /\ q2[kept + (Len(q) - k) + 1] = q[k]
  <2>1. PICK e : e = q[k] /\ e \in Buf
    BY <1>1
  <2>2. q2 = front \o rest \o <<e>>
    BY <1>4, <2>1
  <2>3. /\ q2 \in Seq(Buf)
        /\ Len(q2) = Len(front) + Len(rest) + 1
        /\ \A j \in 1 .. Len(front) : q2[j] = front[j]
        /\ \A j \in 1 .. Len(rest) : q2[Len(front) + j] = rest[j]
        /\ q2[Len(front) + Len(rest) + 1] = e
    BY ONLY <2>1, <2>2, Concat3
  <2> QED
    BY <1>2, <1>3, <2>1, <2>3
<1>6. ASSUME NEW j \in k + 1 .. Len(q) PROVE q2[kept + j - k] = q[j]
  <2>1. kept + j - k = kept + (j - k) /\ j - k \in 1 .. Len(q) - k /\ k + (j - k) = j
    BY <1>1
  <2> QED
    BY <1>2, <1>5, <2>1
<1>7. kept + (Len(q) - k) = kept + Len(q) - k
  BY <1>1
<1> QED
  BY <1>3, <1>5, <1>6, <1>7 DEF PutLast

\* Where what is at a position now was before.
LEMMA Places ==
  ASSUME NEW n \in Nat, NEW k \in 1 .. n, NEW kept \in 0 .. k - 1, NEW j \in 1 .. kept + n - k + 1
  PROVE  \/ j \in 1 .. kept
         \/ j = kept + n - k + 1
         \/ \E m \in k + 1 .. n : j = kept + m - k
<1>1. CASE j \in kept + 1 .. kept + n - k
  <2>1. j - kept + k \in k + 1 .. n /\ j = kept + (j - kept + k) - k
    BY <1>1
  <2> QED
    BY <2>1
<1> QED
  BY <1>1

\* The buffer at position j of the new list was at position o of the old one.
Comes(n, k, kept, j, o) ==
  /\ j \in 1 .. kept + n - k + 1 /\ o \in 1 .. n
  /\ \/ o < k /\ j <= kept /\ o = j
     \/ o = k /\ j = kept + n - k + 1
     \/ o > k /\ j = kept + o - k

\* Bflush's six assignments take a buffer out and put it back last; the ones in
\* front of it go with it if its b_back wrongly names the head.
LEMMA Moved ==
  ASSUME NEW q \in Seq(Buf), Threaded(q), List!TypeOK, NEW k \in 1 .. Len(q), List!BflushMove(q[k])
  PROVE  /\ List!TypeOK'
         /\ \E q2 \in Seq(Buf), kept \in {0, k - 1} :
              /\ q2 = Queue!Requeued(q, List!StaleBack, k)
              /\ Len(q2) = kept + Len(q) - k + 1
              /\ Threaded(q2)'
              /\ \A j \in 1 .. Len(q2) : \E o \in 1 .. Len(q) :
                   /\ q2[j] = q[o] /\ Comes(Len(q), k, kept, j, o)
                   /\ j >= 2 => (back'[q2[j]] = Head0 <=> o = k \/ (o # k + 1 /\ back[q[o]] = Head0))
<1> DEFINE L == Len(q)
<1>1. L \in Nat /\ k \in Nat /\ \A j \in 1 .. L : q[j] \in Buf /\ q[j] # Head0 /\ q[j] \in List!Node
  BY Nodes
<1>2. \A a, b \in 0 .. L : At(q, a) = At(q, b) => a = b
  BY <1>1 DEF At, Threaded, Queue!Injective
<1>3. \A a \in 0 .. L + 1 : At(q, a) \in List!Node
  BY <1>1, Nodes DEF At
<1> PICK bp : bp = q[k]
  OBVIOUS
<1> PICK p : p = back[bp]
  OBVIOUS
<1> PICK kept : kept = IF q[k] \in List!StaleBack THEN 0 ELSE k - 1
  OBVIOUS
<1>4. kept \in {0, k - 1} /\ kept \in 0 .. k - 1
  BY <1>1
<1>5. p = At(q, kept)
  <2>1. p \in {At(q, k - 1), Head0} /\ At(q, 0) = Head0
    BY <1>1 DEF Threaded, At
  <2>2. q[k] \in List!StaleBack <=> k \in 2 .. L /\ p = Head0
    <3>1. List!StaleBack = {q[j] : j \in {l \in 2 .. L : back[q[l]] = Head0}}
      BY StaleIs
    <3>2. \A j \in 2 .. L : j \in 1 .. L /\ (q[j] = q[k] => j = k)
      BY <1>1 DEF Threaded, Queue!Injective
    <3> QED
      BY <3>1, <3>2
  <2>3. CASE k = 1
    BY <2>1, <2>2, <2>3
  <2>4. CASE k # 1
    <3>1. k \in 2 .. L
      BY <1>1, <2>4
    <3> QED
      BY <2>1, <2>2, <3>1
  <2> QED
    BY <2>3, <2>4
<1> PICK n : n = At(q, k + 1)
  OBVIOUS
<1>6. forw[bp] = n
  BY <1>1 DEF Threaded, At
<1> PICK t : t = At(q, L)
  OBVIOUS
<1>7. back[Head0] = t /\ forw[t] = Head0
  BY <1>1 DEF Threaded, At
<1> PICK e : e = IF n = Head0 THEN p ELSE t
  OBVIOUS
<1>8. k = L <=> n = Head0
  BY <1>1 DEF At
<1>9. bp = At(q, k) /\ bp # Head0 /\ bp \in List!Node /\ Head0 \in List!Node
  BY <1>1, Nodes DEF At
<1>10. p \in List!Node /\ n \in List!Node /\ t \in List!Node /\ e \in List!Node
  BY <1>1, <1>3, <1>4, <1>5
<1>11. bp # p /\ bp # n /\ bp # e /\ (k # L => p # t /\ p # n) /\ (k = L => p = e)
  <2>1. bp # p /\ (k # L => p # t)
    BY <1>1, <1>2, <1>4, <1>5, <1>9
  <2>2. bp # n /\ (k # L => n = At(q, k + 1) /\ p # n)
    <3>1. CASE k = L
      BY <1>8, <1>9, <3>1
    <3>2. CASE k # L
      <4>1. k + 1 \in 0 .. L /\ k + 1 # k /\ kept # k + 1
        BY <1>1, <1>4, <3>2
      <4> QED
        BY <1>1, <1>2, <1>4, <1>5, <1>9, <3>2, <4>1
    <3> QED
      BY <3>1, <3>2
  <2>3. k # L => bp # t
    BY <1>1, <1>2, <1>9
  <2> QED
    BY <1>8, <2>1, <2>2, <2>3
<1> DEFINE f1 == [forw EXCEPT ![p] = n]
           b1 == [back EXCEPT ![n] = p]
           b2 == [b1 EXCEPT ![bp] = f1[b1[Head0]]]
           f2 == [f1 EXCEPT ![b2[Head0]] = bp]
<1>12. /\ forw' = [f2 EXCEPT ![bp] = Head0]
       /\ back' = [b2 EXCEPT ![Head0] = bp]
       /\ built' = built
  BY <1>6 DEF List!BflushMove, List!Relink, Head0
<1>13. /\ forw \in [List!Node -> List!Node] /\ back \in [List!Node -> List!Node]
       /\ built \in 0 .. NBUF
  BY DEF List!TypeOK
<1>14. b1[Head0] = e /\ b1 \in [List!Node -> List!Node]
  BY <1>7, <1>9, <1>10, <1>13
<1>15. /\ f1 \in [List!Node -> List!Node]
       /\ f1[p] = n /\ \A x \in List!Node : x # p => f1[x] = forw[x]
  BY <1>10, <1>13
<1>16. f1[e] = Head0
  BY <1>7, <1>8, <1>10, <1>11, <1>15
<1>17. b1[n] = p /\ \A x \in List!Node : x # n => b1[x] = back[x]
  BY <1>10, <1>13
<1> HIDE DEF f1, b1
<1>18. b2[Head0] = e /\ b2 = [b1 EXCEPT ![bp] = Head0]
  BY <1>9, <1>14, <1>16
<1>19. f2 = [f1 EXCEPT ![e] = bp]
  BY <1>18
<1> HIDE DEF f2, b2
<1>20. /\ forw'[bp] = Head0 /\ forw'[e] = bp
       /\ \A x \in List!Node : x \notin {bp, e} => forw'[x] = f1[x]
       /\ forw' \in [List!Node -> List!Node]
  BY <1>9, <1>10, <1>11, <1>12, <1>15, <1>19
<1>21. /\ back'[Head0] = bp /\ back'[bp] = Head0
       /\ \A x \in List!Node : x \notin {bp, Head0} => back'[x] = b1[x]
       /\ back' \in [List!Node -> List!Node]
  BY <1>9, <1>12, <1>14, <1>18
<1>22. /\ p # e => forw'[p] = n
       /\ \A x \in List!Node : x \notin {bp, e, p} => forw'[x] = forw[x]
  BY <1>10, <1>11, <1>15, <1>20
<1>23. /\ n # Head0 => back'[n] = p
       /\ \A x \in List!Node : x \notin {bp, n, Head0} => back'[x] = back[x]
  BY <1>10, <1>11, <1>17, <1>21
<1>24. List!TypeOK'
  BY <1>12, <1>13, <1>20, <1>21 DEF List!TypeOK
<1> PICK q2 : q2 = Queue!Requeued(q, List!StaleBack, k)
  OBVIOUS
<1>25. /\ q2 \in Seq(Buf)
       /\ Len(q2) = kept + L - k + 1
       /\ \A j \in 1 .. kept : q2[j] = q[j]
       /\ \A j \in k + 1 .. L : q2[kept + j - k] = q[j]
       /\ q2[kept + L - k + 1] = bp
  <2>1. PICK s : s = List!StaleBack
    OBVIOUS
  <2>2. Requeuing(q, s, k, kept, q2)
    BY <2>1 DEF Requeuing
  <2>3. PutLast(q, k, kept, q2)
    BY <2>2, RequeuedIs
  <2> QED
    BY <2>3 DEF PutLast
<1> DEFINE L2 == kept + L - k + 1
<1>26. /\ \A j \in 0 .. kept : At(q2, j) = At(q, j)
       /\ \A m \in k + 1 .. L : At(q2, kept + m - k) = q[m]
       /\ At(q2, L2) = bp /\ At(q2, L2 + 1) = Head0 /\ L2 \in Nat /\ L2 >= 1
  <2>1. L2 \in Nat /\ L2 >= 1
    BY <1>1, <1>4
  <2>2. ASSUME NEW j \in 0 .. kept PROVE At(q2, j) = At(q, j)
    <3>1. j = 0 \/ (j \in 1 .. kept /\ j \in 1 .. L /\ j \in 1 .. L2)
      BY <1>1, <1>4
    <3>2. ~ 0 \in 1 .. L /\ ~ 0 \in 1 .. Len(q2)
      OBVIOUS
    <3> QED
      BY <1>25, <3>1, <3>2 DEF At
  <2>3. ASSUME NEW m \in k + 1 .. L PROVE At(q2, kept + m - k) = q[m]
    <3>1. kept + m - k \in 1 .. L2
      BY <1>1, <1>4
    <3> QED
      BY <1>25, <3>1 DEF At
  <2>4. At(q2, L2) = bp /\ At(q2, L2 + 1) = Head0
    <3>1. L2 \in 1 .. L2 /\ ~ L2 + 1 \in 1 .. L2
      BY <2>1
    <3> QED
      BY <1>25, <3>1 DEF At
  <2> QED
    BY <2>1, <2>2, <2>3, <2>4
<1>27. At(q2, L2 - 1) = e
  <2>1. CASE k = L
    <3>1. L2 - 1 = kept /\ kept \in 0 .. kept
      BY <1>1, <1>4, <2>1
    <3> QED
      BY <1>5, <1>11, <1>26, <2>1, <3>1
  <2>2. CASE k # L
    <3>1. L2 - 1 = kept + L - k /\ L \in k + 1 .. L
      BY <1>1, <1>4, <2>2
    <3>2. e = t /\ t = q[L]
      BY <1>1, <1>8, <2>2 DEF At
    <3> QED
      BY <1>26, <3>1, <3>2
  <2> QED
    BY <2>1, <2>2
<1>28. ASSUME NEW j \in 0 .. L2 PROVE forw'[At(q2, j)] = At(q2, j + 1)
  <2>1. CASE j = L2
    BY <1>20, <1>26, <2>1
  <2>2. CASE j = L2 - 1
    <3>1. j + 1 = L2
      BY <1>26, <2>2
    <3> QED
      BY <1>20, <1>26, <1>27, <2>2, <3>1
  <2>3. CASE j < kept /\ j # L2 - 1
    <3>0. j \in Nat /\ kept \in Nat /\ j < kept /\ kept < k /\ k <= L
      BY <1>1, <1>4, <2>3
    <3>1. j \in 0 .. kept /\ j + 1 \in 0 .. kept /\ j \in 0 .. L /\ kept \in 0 .. L /\ k \in 0 .. L
          /\ L \in 0 .. L /\ j # k /\ j # kept /\ j # L
      BY <1>1, <3>0
    <3>2. At(q, j) # bp /\ At(q, j) # p /\ At(q, j) # t
      BY <1>2, <1>5, <1>9, <3>1
    <3>3. forw'[At(q, j)] = forw[At(q, j)] /\ forw[At(q, j)] = At(q, j + 1)
      BY <1>3, <1>22, <3>1, <3>2 DEF Threaded
    <3> QED
      BY <1>26, <3>1, <3>3
  <2>4. CASE j = kept /\ j # L2 - 1
    <3>1. k # L /\ k + 1 \in k + 1 .. L /\ kept + (k + 1) - k = kept + 1 /\ kept \in 0 .. kept
      BY <1>1, <1>4, <2>4
    <3>2. At(q2, j) = p /\ p # e /\ At(q2, j + 1) = q[k + 1] /\ n = q[k + 1]
      BY <1>5, <1>8, <1>11, <1>26, <2>4, <3>1 DEF At
    <3> QED
      BY <1>22, <3>2
  <2>5. CASE j > kept /\ j < L2 - 1
    <3>1. PICK m \in k + 1 .. L - 1 : j = kept + m - k
      <4>1. j - kept + k \in k + 1 .. L - 1 /\ j = kept + (j - kept + k) - k
        BY <1>1, <1>4, <2>5
      <4> QED
        BY <4>1
    <3>2. m \in k + 1 .. L /\ m + 1 \in k + 1 .. L /\ j + 1 = kept + (m + 1) - k /\ m \in 0 .. L
          /\ m # kept /\ m # k /\ m # L /\ kept \in 0 .. L /\ k \in 0 .. L /\ L \in 0 .. L
      BY <1>1, <1>4, <3>1
    <3>3. At(q, m) = q[m] /\ At(q, m + 1) = q[m + 1]
      BY <1>1, <3>2 DEF At
    <3>4. At(q, m) # bp /\ At(q, m) # p /\ At(q, m) # t
      BY <1>2, <1>5, <1>9, <3>2
    <3>5. forw'[At(q, m)] = forw[At(q, m)] /\ forw[At(q, m)] = At(q, m + 1)
      BY <1>3, <1>22, <3>2, <3>4 DEF Threaded
    <3> QED
      BY <1>26, <3>1, <3>2, <3>3, <3>5
  <2>6. j \in Nat /\ kept \in Nat /\ L2 \in Nat /\ L2 - 1 \in Int /\ j <= L2
    BY <1>4, <1>26
  <2>7. j = L2 \/ j = L2 - 1 \/ j < L2 - 1
    BY <2>6
  <2> QED
    BY <2>1, <2>2, <2>3, <2>4, <2>5, <2>6, <2>7
<1>29. ASSUME NEW j \in 1 .. L2 PROVE \E o \in 1 .. L : q2[j] = q[o] /\ Comes(L, k, kept, j, o)
  <2>1. CASE j \in 1 .. kept
    <3>1. j \in 1 .. L /\ Comes(L, k, kept, j, j)
      BY <1>1, <1>4, <2>1 DEF Comes
    <3> QED
      BY <1>25, <2>1, <3>1
  <2>2. CASE j = L2
    <3>1. k \in 1 .. L /\ Comes(L, k, kept, j, k)
      BY <1>1, <1>4, <2>2 DEF Comes
    <3> QED
      BY <1>25, <2>2, <3>1
  <2>3. ASSUME NEW m \in k + 1 .. L, j = kept + m - k
        PROVE  \E o \in 1 .. L : q2[j] = q[o] /\ Comes(L, k, kept, j, o)
    <3>1. m \in 1 .. L /\ Comes(L, k, kept, j, m)
      BY <1>1, <1>4, <2>3 DEF Comes
    <3> QED
      BY <1>25, <2>3, <3>1
  <2>4. j \in 1 .. kept \/ j = L2 \/ \E m \in k + 1 .. L : j = kept + m - k
    <3>1. \A m \in Nat : \A x \in 1 .. m : \A y \in 0 .. x - 1 : \A z \in 1 .. y + m - x + 1 :
            z \in 1 .. y \/ z = y + m - x + 1 \/ \E v \in x + 1 .. m : z = y + v - x
      BY Places
    <3>2. L \in Nat /\ k \in 1 .. L /\ kept \in 0 .. k - 1 /\ j \in 1 .. kept + L - k + 1
      BY <1>1, <1>4
    <3> HIDE DEF L
    <3> QED
      BY ONLY <3>1, <3>2
  <2> QED
    BY <2>1, <2>2, <2>3, <2>4
<1>30. Queue!Injective(q2)
  <2> SUFFICES ASSUME NEW j \in 1 .. L2, NEW l \in 1 .. L2, q2[j] = q2[l] PROVE j = l
    BY <1>25 DEF Queue!Injective
  <2>1. PICK o \in 1 .. L : q2[j] = q[o] /\ Comes(L, k, kept, j, o)
    BY <1>29
  <2>2. PICK r \in 1 .. L : q2[l] = q[r] /\ Comes(L, k, kept, l, r)
    BY <1>29
  <2>3. o = r
    <3>1. q[o] = q[r] /\ o \in DOMAIN q /\ r \in DOMAIN q
      <4>1. DOMAIN q = 1 .. L
        OBVIOUS
      <4> QED
        BY <2>1, <2>2, <4>1, q2[j] = q2[l]
    <3> QED
      BY <3>1 DEF Threaded, Queue!Injective
  <2> QED
    BY <1>1, <1>4, <2>1, <2>2, <2>3 DEF Comes
<1>31. \A j \in 1 .. L2 : q2[j] < built'
  BY <1>12, <1>29 DEF Threaded
<1>32. back'[Head0] = At(q2, L2)
  BY <1>21, <1>26
<1>33. ASSUME NEW j \in 1 .. L2
       PROVE  back'[q2[j]] \in {At(q2, j - 1), Head0}
  <2>1. PICK o \in 1 .. L : q2[j] = q[o] /\ Comes(L, k, kept, j, o)
    BY <1>29
  <2>2. CASE o = k
    BY <1>21, <2>1, <2>2
  <2>3. CASE o = k + 1
    <3>0. j = kept + o - k
      BY <1>1, <2>1, <2>3 DEF Comes
    <3>1. j - 1 = kept /\ kept \in 0 .. kept
      BY <1>1, <1>4, <2>3, <3>0
    <3>2. n = q[o] /\ n # Head0
      BY <1>1, <2>3 DEF At
    <3> QED
      BY <1>5, <1>23, <1>26, <2>1, <3>1, <3>2
  <2>4. CASE o # k /\ o # k + 1
    <3>1. q[o] # bp /\ q[o] # n /\ q[o] # Head0
      <4>1. q[o] = At(q, o) /\ o \in 0 .. L /\ k \in 0 .. L
        BY <1>1 DEF At
      <4>2. k # L => k + 1 \in 0 .. L
        BY <1>1
      <4> QED
        BY <1>1, <1>2, <1>8, <1>9, <2>4, <4>1, <4>2
    <3>2. back'[q[o]] = back[q[o]] /\ back[q[o]] \in {At(q, o - 1), Head0}
      BY <1>1, <1>23, <3>1 DEF Threaded
    <3>3. At(q2, j - 1) = At(q, o - 1)
      <4>1. CASE o < k
        <5>1. o = j /\ j - 1 \in 0 .. kept
          BY <1>1, <1>4, <2>1, <4>1 DEF Comes
        <5> QED
          BY <1>26, <5>1
      <4>2. CASE o > k
        <5>1. o - 1 \in k + 1 .. L /\ j - 1 = kept + (o - 1) - k /\ o - 1 \in 1 .. L
          BY <1>1, <1>4, <2>1, <2>4, <4>2 DEF Comes
        <5> QED
          BY <1>26, <5>1 DEF At
      <4> QED
        BY <1>1, <2>4, <4>1, <4>2
    <3> QED
      BY <2>1, <3>2, <3>3
  <2> QED
    BY <2>2, <2>3, <2>4
<1>34. ASSUME NEW j \in 1 .. L2, j >= 2, NEW o \in 1 .. L, q2[j] = q[o], Comes(L, k, kept, j, o)
       PROVE  back'[q2[j]] = Head0 <=> o = k \/ (o # k + 1 /\ back[q[o]] = Head0)
  <2>2. CASE o = k
    BY <1>21, <1>34, <2>2
  <2>3. CASE o = k + 1
    <3>1. j - 1 = kept /\ kept \in 0 .. L /\ kept # 0 /\ 0 \in 0 .. L /\ o # k
      BY <1>1, <1>4, <1>34, <2>3 DEF Comes
    <3>2. n = q[o] /\ n # Head0
      BY <1>1, <2>3 DEF At
    <3>3. p # Head0
      <4>1. At(q, 0) = Head0
        BY DEF At
      <4> QED
        BY <1>2, <1>5, <3>1, <4>1
    <3> QED
      BY <1>23, <1>34, <2>3, <3>1, <3>2, <3>3
  <2>4. CASE o # k /\ o # k + 1
    <3>1. q[o] # bp /\ q[o] # n /\ q[o] # Head0
      <4>1. q[o] = At(q, o) /\ o \in 0 .. L /\ k \in 0 .. L
        BY <1>1 DEF At
      <4>2. k # L => k + 1 \in 0 .. L
        BY <1>1
      <4> QED
        BY <1>1, <1>2, <1>8, <1>9, <2>4, <4>1, <4>2
    <3>2. back'[q[o]] = back[q[o]]
      BY <1>1, <1>23, <3>1
    <3> QED
      BY <1>34, <2>4, <3>2
  <2> QED
    BY <2>2, <2>3, <2>4
<1>35. L2 <= built'
  <2>1. L <= built /\ built \in Nat
    BY <1>13, Nodes DEF Threaded
  <2> QED
    BY <1>1, <1>4, <1>12, <2>1
<1>36. (Threaded(q2))'
  BY <1>25, <1>28, <1>30, <1>31, <1>32, <1>33, <1>35 DEF Threaded
<1>37. \A j \in 1 .. Len(q2) : \E o \in 1 .. L :
         /\ q2[j] = q[o] /\ Comes(L, k, kept, j, o)
         /\ j >= 2 => (back'[q2[j]] = Head0 <=> o = k \/ (o # k + 1 /\ back[q[o]] = Head0))
  <2>1. ASSUME NEW j \in 1 .. L2
        PROVE  \E o \in 1 .. L :
                 /\ q2[j] = q[o] /\ Comes(L, k, kept, j, o)
                 /\ j >= 2 =>
                      (back'[q2[j]] = Head0 <=> o = k \/ (o # k + 1 /\ back[q[o]] = Head0))
    <3>1. PICK o \in 1 .. L : q2[j] = q[o] /\ Comes(L, k, kept, j, o)
      BY <1>29
    <3>2. j >= 2 => (back'[q2[j]] = Head0 <=> o = k \/ (o # k + 1 /\ back[q[o]] = Head0))
      BY <1>34, <3>1
    <3> QED
      BY ONLY <3>1, <3>2
  <2> QED
    BY ONLY <1>25, <2>1
<1> HIDE DEF L
<1>38. \E r \in Seq(Buf), d \in {0, k - 1} :
         /\ r = Queue!Requeued(q, List!StaleBack, k)
         /\ Len(r) = d + L - k + 1
         /\ Threaded(r)'
         /\ \A j \in 1 .. Len(r) : \E o \in 1 .. L :
              /\ r[j] = q[o] /\ Comes(L, k, d, j, o)
              /\ j >= 2 => (back'[r[j]] = Head0 <=> o = k \/ (o # k + 1 /\ back[q[o]] = Head0))
  BY <1>4, <1>25, <1>36, <1>37
<1> QED
  BY <1>24, <1>38 DEF L

-----------------------------------------------------------------------------
\* Every step keeps the list a ring, and is a step of BufferQueue.

\* What the refinement makes of the list.
MapsTo(q) ==
  /\ List!Chain = q
  /\ List!StaleBack = {q[j] : j \in {k \in 2 .. Len(q) : back[q[k]] = Head0}}

Mapping == \A q \in Seq(Buf) : List!TypeOK /\ Threaded(q) => MapsTo(q)

LEMMA ThreadedMaps == Mapping
BY ThreadedIs, StaleIs DEF Mapping, MapsTo

LEMMA InsertRefines ==
  ASSUME Ringed, List!InitializeBuf
  PROVE  Ringed' /\ Queue!QueueNext
<1>1. PICK q \in Seq(Buf) : Threaded(q) /\ MapsTo(q) /\ List!TypeOK
  BY ThreadedMaps DEF Ringed, Mapping
<1>2. PICK q2 \in Seq(Buf) :
        /\ q2 = <<built>> \o q /\ Len(q2) = Len(q) + 1
        /\ q2[1] = built /\ \A j \in 1 .. Len(q) : q2[j + 1] = q[j]
        /\ Threaded(q2)'
        /\ \A j \in 2 .. Len(q2) : back'[q2[j]] = Head0 <=> j > 2 /\ back[q2[j]] = Head0
  BY <1>1, Inserted
<1>3. List!TypeOK' /\ built \in Buf /\ built \notin {q[j] : j \in 1 .. Len(q)}
  BY <1>1, Inserted
<1>4. Ringed'
  BY <1>2, <1>3 DEF Ringed
<1>5. MapsTo(q2)'
  <2>1. Mapping'
    BY ThreadedMaps, PTL
  <2> QED
    BY <1>2, <1>3, <2>1 DEF Mapping
<1>6. List!Chain' = <<built>> \o List!Chain
  BY <1>1, <1>2, <1>5 DEF MapsTo
<1>7. List!StaleBack' = List!StaleBack
  <2> DEFINE A == {j \in 2 .. Len(q) : back[q[j]] = Head0}
             B == {j \in 2 .. Len(q2) : back'[q2[j]] = Head0}
  <2>1. ASSUME NEW j \in A PROVE j + 1 \in B /\ q2[j + 1] = q[j]
    <3>1. j \in 1 .. Len(q) /\ j + 1 \in 2 .. Len(q2) /\ j + 1 > 2
      BY <1>2
    <3> QED
      BY <1>2, <3>1
  <2>2. ASSUME NEW j \in B PROVE j - 1 \in A /\ q2[j] = q[j - 1]
    <3>1. j > 2 /\ back[q2[j]] = Head0
      BY <1>2
    <3>2. j - 1 \in 2 .. Len(q) /\ j - 1 \in 1 .. Len(q) /\ (j - 1) + 1 = j
      BY <1>2, <3>1
    <3> QED
      BY <1>2, <3>1, <3>2
  <2>3. List!StaleBack = {q[j] : j \in A} /\ List!StaleBack' = {q2[j] : j \in B}
    BY <1>1, <1>5 DEF MapsTo
  <2> HIDE DEF A, B
  <2>4. {q2[j] : j \in B} = {q[j] : j \in A}
    BY <2>1, <2>2
  <2> QED
    BY <2>3, <2>4
<1>8. built \notin Queue!Linked
  <2>1. DOMAIN q = 1 .. Len(q)
    OBVIOUS
  <2> QED
    BY <1>1, <1>3, <2>1 DEF MapsTo, Queue!Linked, Queue!Elements
<1>9. Queue!InsertFront(built)
  BY <1>6, <1>7, <1>8 DEF Queue!InsertFront
<1> QED
  BY <1>3, <1>4, <1>9 DEF Queue!QueueNext, Queue!Buf, Buf, List!Buf

LEMMA MoveRefines ==
  ASSUME Ringed, NEW bp \in List!Linked, List!BflushMove(bp)
  PROVE  Ringed' /\ Queue!QueueNext
<1>1. PICK q \in Seq(Buf) : Threaded(q) /\ MapsTo(q) /\ List!TypeOK
  BY ThreadedMaps DEF Ringed, Mapping
<1>2. PICK k \in 1 .. Len(q) : bp = q[k]
  BY <1>1, ThreadedIs
<1>3. List!BflushMove(q[k])
  BY <1>2
<1>4. PICK q2 \in Seq(Buf), kept \in {0, k - 1} :
        /\ q2 = Queue!Requeued(q, List!StaleBack, k)
        /\ Len(q2) = kept + Len(q) - k + 1
        /\ Threaded(q2)'
        /\ \A j \in 1 .. Len(q2) : \E o \in 1 .. Len(q) :
             /\ q2[j] = q[o] /\ Comes(Len(q), k, kept, j, o)
             /\ j >= 2 => (back'[q2[j]] = Head0 <=> o = k \/ (o # k + 1 /\ back[q[o]] = Head0))
  BY <1>1, <1>3, Moved
<1>5. List!TypeOK'
  BY <1>1, <1>3, Moved
<1>6. Ringed'
  BY <1>4, <1>5 DEF Ringed
<1>7. MapsTo(q2)'
  <2>1. Mapping'
    BY ThreadedMaps, PTL
  <2> QED
    BY <1>4, <1>5, <2>1 DEF Mapping
<1>8. List!Chain' = Queue!Requeued(List!Chain, List!StaleBack, k)
  BY <1>1, <1>4, <1>7 DEF MapsTo
<1> PICK s : s = List!StaleBack
  OBVIOUS
<1>9. Len(q) \in Nat /\ Len(q2) \in Nat /\ DOMAIN q = 1 .. Len(q) /\ DOMAIN q2 = 1 .. Len(q2)
  OBVIOUS
<1>10. \A o \in 1 .. Len(q) : q[o] \in s <=> o >= 2 /\ back[q[o]] = Head0
  <2>1. s = {q[j] : j \in {l \in 2 .. Len(q) : back[q[l]] = Head0}}
    BY <1>1 DEF MapsTo
  <2>2. \A j \in 2 .. Len(q) : j \in 1 .. Len(q)
    BY <1>9
  <2>3. \A j, o \in 1 .. Len(q) : q[j] = q[o] => j = o
    BY <1>1 DEF Threaded, Queue!Injective
  <2>4. \A o \in 1 .. Len(q) : o >= 2 <=> o \in 2 .. Len(q)
    BY <1>9
  <2> QED
    BY <2>1, <2>2, <2>3, <2>4
<1> DEFINE fixed == {q[j] : j \in {k + 1} \cap DOMAIN q}
           New == {q2[j] : j \in {l \in 2 .. Len(q2) : back'[q2[l]] = Head0}}
<1>11. \A o \in 1 .. Len(q) : (q[o] \in fixed <=> o = k + 1) /\ (q[o] = q[k] <=> o = k)
  BY <1>1, <1>9 DEF Threaded, Queue!Injective
<1>12. Queue!StaleAfter(q, s, k) = (((s \ fixed) \cup {q[k]}) \cap {q2[j] : j \in 1 .. Len(q2)}) \ {q2[1]}
  BY <1>4, <1>9 DEF Queue!StaleAfter, Queue!Elements
<1> HIDE DEF fixed
<1>13. ASSUME NEW j \in 1 .. Len(q2), j >= 2
       PROVE  back'[q2[j]] = Head0 <=> q2[j] \in (s \ fixed) \cup {q[k]}
  <2>1. PICK o \in 1 .. Len(q) :
             /\ q2[j] = q[o] /\ Comes(Len(q), k, kept, j, o)
             /\ back'[q2[j]] = Head0 <=> o = k \/ (o # k + 1 /\ back[q[o]] = Head0)
    BY <1>4, <1>13
  <2>2. o >= 2 \/ o = k
    BY <1>9, <1>13, <2>1 DEF Comes
  <2> QED
    BY <1>10, <1>11, <2>1, <2>2
<1>14. \A j \in 1 .. Len(q2) : q2[j] = q2[1] <=> j = 1
  <2>1. Queue!Injective(q2)
    BY <1>4 DEF Threaded
  <2> QED
    BY <1>9, <2>1 DEF Queue!Injective
<1>15. New = Queue!StaleAfter(q, s, k)
  <2>1. \A j \in 1 .. Len(q2) : j = 1 \/ j \in 2 .. Len(q2)
    BY <1>9
  <2>2. \A j \in 2 .. Len(q2) : j \in 1 .. Len(q2) /\ j >= 2 /\ j # 1
    BY <1>9
  <2>3. ASSUME NEW x \in New PROVE x \in Queue!StaleAfter(q, s, k)
    <3>1. PICK j \in 2 .. Len(q2) : x = q2[j] /\ back'[q2[j]] = Head0
      OBVIOUS
    <3> HIDE DEF New
    <3> QED
      BY <1>12, <1>13, <1>14, <2>2, <3>1
  <2>4. ASSUME NEW x \in Queue!StaleAfter(q, s, k) PROVE x \in New
    <3>1. x \in (s \ fixed) \cup {q[k]} /\ x # q2[1] /\ x \in {q2[j] : j \in 1 .. Len(q2)}
      BY <1>12, <2>4
    <3>2. PICK j \in 1 .. Len(q2) : x = q2[j]
      BY <3>1
    <3>3. j \in 2 .. Len(q2)
      BY <2>1, <3>1, <3>2
    <3> QED
      BY <1>13, <2>2, <3>1, <3>2, <3>3
  <2> HIDE DEF New
  <2> QED
    BY <2>3, <2>4
<1>16. List!StaleBack' = New
  BY <1>7 DEF MapsTo
<1>17. Queue!Requeue(k)
  <2>1. List!Chain = q /\ List!StaleBack = s
    BY <1>1 DEF MapsTo
  <2> HIDE DEF New
  <2> QED
    BY <1>8, <1>15, <1>16, <2>1 DEF Queue!Requeue
<1>18. k \in DOMAIN List!Chain
  BY <1>1, <1>9 DEF MapsTo
<1> QED
  BY <1>6, <1>17, <1>18 DEF Queue!QueueNext

-----------------------------------------------------------------------------
(***************************************************************************)
(* What init_disk writes.                                                  *)
(***************************************************************************)
\* DiskLayout's lemmas.  The state of FreeBlocks takes no part in them.
Layout == INSTANCE FreeBlocksProofs WITH
  Thread <- {}, NoOne <- NoFile, SbOutcomes <- {NoFile}, MaxFree <- 0,
  free <- image, table <- image, fmod <- image, flock <- image, saved <- image,
  blk <- image, owned <- image, out <- image, got <- image, spilled <- image,
  frees <- image, crashed <- image

LEMMA LayoutAssumptions ==
  Layout!GeometryAssumption /\ Layout!ThreadAssumption /\ Layout!FreeAssumption
BY StartUpAssumption DEF Layout!GeometryAssumption, Layout!ThreadAssumption, Layout!FreeAssumption

LEMMA WholeChain ==
  Format!ChainIs(Format!Chain(Format!SuperList, Format!FormattedTables), Format!DataZone)
<1>1. Layout!ChainIs(Layout!Chain(Layout!SuperList, Layout!FormattedTables), Layout!DataZone)
  BY LayoutAssumptions, Layout!FormattedChain
<1> QED
  BY <1>1 DEF Format!DataEnd, Format!DataZone, Format!StartLast, Format!SuperList,
              Format!GroupList, Format!TableSector, Format!FormattedTables, Format!Below,
              Format!Chain, Format!Places, Format!Blocks, Format!Cardinality, Format!ChainIs,
              Layout!DataEnd, Layout!DataZone, Layout!StartLast, Layout!SuperList,
              Layout!GroupList, Layout!TableSector, Layout!FormattedTables, Layout!Below,
              Layout!Chain, Layout!Places, Layout!Blocks, Layout!Cardinality, Layout!ChainIs

LEMMA Zone ==
  /\ Group \in Nat /\ Group >= 2
  /\ DataStart \in Nat /\ DataStart > 2
  /\ DataSize \in Nat /\ DataSize >= Group
  /\ Format!DataZone = DataStart .. DataStart + DataSize - 1
  /\ Total = DataStart + DataSize /\ Total \in Nat
BY StartUpAssumption DEF Format!DataZone, Format!DataEnd, Total

\* The tables that n turns of init_datablock have made.
Made(n) ==
  [s \in Format!DataZone |->
     IF \E k \in 0 .. n - 1 : s = Format!TableSector(k)
       THEN Format!GroupList((s - Format!TableSector(0)) \div Group, Group)
       ELSE <<>>]

\* The invariant of its loop.
Formatting ==
  /\ i \in Nat
  /\ leftBlock = IF i * Group >= DataSize THEN 0 ELSE DataSize - i * Group
  /\ image = Made(i)

LEMMA SectorIs ==
  ASSUME NEW k \in Nat
  PROVE  /\ k * Group \in Nat /\ (k + 1) * Group = k * Group + Group
         /\ Format!TableSector(k) = DataStart + (Group - 1) + k * Group
         /\ Format!TableSector(k) \in Format!DataZone <=> (k + 1) * Group <= DataSize
         /\ (Format!TableSector(k) - Format!TableSector(0)) \div Group = k
<1>1. k * Group \in Nat /\ (k + 1) * Group = k * Group + Group
  BY Zone
<1>2. /\ Format!TableSector(k) = DataStart + (Group - 1) + k * Group
      /\ Format!TableSector(0) = DataStart + (Group - 1)
  BY Zone DEF Format!TableSector
<1>3. Format!TableSector(k) - Format!TableSector(0) = k * Group
  BY <1>1, <1>2, Zone
<1>4. (k * Group) \div Group = k
  BY Zone
<1>5. Format!TableSector(k) \in Format!DataZone <=> (k + 1) * Group <= DataSize
  BY <1>1, <1>2, Zone
<1> QED
  BY <1>1, <1>2, <1>3, <1>4, <1>5

\* Where a table is nearer than another.
LEMMA SectorsRise ==
  ASSUME NEW k \in Nat, NEW l \in Nat
  PROVE  /\ k < l => (k + 1) * Group <= l * Group
         /\ Format!TableSector(k) = Format!TableSector(l) => k = l
<1>1. k < l => (k + 1) * Group <= l * Group
  BY Zone
<1>2. Format!TableSector(k) = Format!TableSector(l) => k = l
  BY SectorIs
<1> QED
  BY <1>1, <1>2

LEMMA MadeLists ==
  ASSUME NEW n \in Nat, NEW s \in Format!DataZone
  PROVE  Made(n)[s] \in Seq({0} \cup Format!DataZone)
<1>1. CASE \E k \in 0 .. n - 1 : s = Format!TableSector(k)
  <2>1. PICK k \in Nat : s = Format!TableSector(k)
    BY <1>1
  <2>2. Made(n)[s] = Format!GroupList(k, Group)
    BY <1>1, <2>1, SectorIs DEF Made
  <2> DEFINE e(j) == IF k = 0 /\ j = 1 THEN 0 ELSE Group * k + (j - 1) + DataStart - 1
  <2>3. Format!GroupList(k, Group) = [j \in 1 .. Group |-> e(j)]
    BY DEF Format!GroupList
  <2>4. ASSUME NEW j \in 1 .. Group PROVE e(j) \in {0} \cup Format!DataZone
    <3>1. k * Group \in Nat /\ Group * k = k * Group /\ k * Group + Group <= DataSize
      BY <2>1, SectorIs, Zone
    <3>2. k # 0 => k * Group >= Group
      BY Zone
    <3> QED
      BY <3>1, <3>2, Zone
  <2> HIDE DEF e
  <2> QED
    BY <2>2, <2>3, <2>4, Zone
<1>2. CASE ~ \E k \in 0 .. n - 1 : s = Format!TableSector(k)
  BY <1>2 DEF Made
<1> QED
  BY <1>1, <1>2

\* A turn of the loop.
LEMMA FormatTurn ==
  ASSUME Formatting, Format!FormatGroup
  PROVE  Formatting'
<1> PICK n \in Nat : n = i
  BY DEF Formatting
<1>1. /\ n * Group \in Nat /\ (n + 1) * Group = n * Group + Group
      /\ Format!TableSector(n) \in Format!DataZone <=> (n + 1) * Group <= DataSize
      /\ (Format!TableSector(n) - Format!TableSector(0)) \div Group = n
  BY SectorIs
<1>2. n * Group < DataSize /\ leftBlock = DataSize - n * Group
  BY <1>1, Zone DEF Formatting, Format!FormatGroup
<1>3. i' = n + 1 /\ i' \in Nat /\ leftBlock' = leftBlock - Format!GroupSize
  BY DEF Format!FormatGroup
<1>4. leftBlock' = IF i' * Group >= DataSize THEN 0 ELSE DataSize - i' * Group
  <2>1. leftBlock < Group <=> (n + 1) * Group > DataSize
    BY <1>1, <1>2, Zone
  <2>2. CASE leftBlock < Group
    BY <1>1, <1>2, <1>3, <2>1, <2>2, Zone DEF Format!GroupSize
  <2>3. CASE ~ leftBlock < Group
    BY <1>1, <1>2, <1>3, <2>1, <2>3, Zone DEF Format!GroupSize
  <2> QED
    BY <2>2, <2>3
<1>5. \A s : (\E k \in 0 .. (n + 1) - 1 : s = Format!TableSector(k))
             <=> (\E k \in 0 .. n - 1 : s = Format!TableSector(k)) \/ s = Format!TableSector(n)
  <2>1. \A k \in 0 .. (n + 1) - 1 : k \in 0 .. n - 1 \/ k = n
    OBVIOUS
  <2>2. n \in 0 .. (n + 1) - 1 /\ \A k \in 0 .. n - 1 : k \in 0 .. (n + 1) - 1
    OBVIOUS
  <2> QED
    BY <2>1, <2>2
<1>6. image = Made(n)
  BY DEF Formatting
<1>7. CASE Format!TableSector(n) \in Format!DataZone
  <2>1. Format!GroupSize = Group
    BY <1>1, <1>2, <1>7, Zone DEF Format!GroupSize
  <2>2. image' = [image EXCEPT ![Format!TableSector(n)] = Format!GroupList(n, Group)]
    BY <1>7, <2>1 DEF Format!FormatGroup
  <2>3. image' = Made(n + 1)
    <3>1. image' = [s \in Format!DataZone |->
                      IF s = Format!TableSector(n) THEN Format!GroupList(n, Group) ELSE Made(n)[s]]
      BY <1>6, <2>2 DEF Made
    <3>2. ASSUME NEW s \in Format!DataZone
          PROVE  (IF s = Format!TableSector(n) THEN Format!GroupList(n, Group) ELSE Made(n)[s]) = Made(n + 1)[s]
      BY <1>1, <1>5 DEF Made
    <3>3. Made(n + 1) = [s \in Format!DataZone |-> Made(n + 1)[s]]
      BY DEF Made
    <3> QED
      BY <3>1, <3>2, <3>3
  <2> QED
    BY <1>3, <1>4, <2>3 DEF Formatting, Made
<1>8. CASE Format!TableSector(n) \notin Format!DataZone
  <2>1. image' = image
    BY <1>8 DEF Format!FormatGroup
  <2>2. Made(n) = Made(n + 1)
    BY <1>5, <1>8 DEF Made
  <2> QED
    BY <1>3, <1>4, <1>6, <2>1, <2>2 DEF Formatting, Made
<1> QED
  BY <1>7, <1>8

\* When the loop is left, every group but the rest has its table.
LEMMA AllMade ==
  ASSUME NEW n \in Nat, n * Group >= DataSize
  PROVE  Made(n) = Format!FormattedTables
<1>1. ASSUME NEW s \in Format!DataZone
      PROVE  (\E k \in 0 .. n - 1 : s = Format!TableSector(k))
             <=> (\E k \in 0 .. DataSize \div Group : s = Format!TableSector(k))
  <2>1. ASSUME NEW k \in Nat, s = Format!TableSector(k)
        PROVE  k \in 0 .. n - 1 /\ k \in 0 .. DataSize \div Group
    <3>1. (k + 1) * Group <= DataSize /\ k * Group + Group <= DataSize /\ k * Group \in Nat
      BY <2>1, SectorIs
    <3>2. k < n
      <4>1. n < k + 1 => n * Group < (k + 1) * Group
        BY Zone
      <4>2. n \in Nat /\ k \in Nat /\ (n = k \/ n < k => n * Group <= k * Group)
        BY Zone
      <4>3. n * Group \in Nat
        BY Zone
      <4> QED
        BY <3>1, <4>2, <4>3, Zone
    <3>3. k <= DataSize \div Group
      BY <3>1, Zone
    <3> QED
      BY <3>2, <3>3, Zone
  <2>2. DataSize \div Group \in Nat
    BY Zone
  <2> QED
    BY <2>1, <2>2
<1> QED
  BY <1>1 DEF Made, Format!FormattedTables

-----------------------------------------------------------------------------
(***************************************************************************)
(* From start to start.                                                    *)
(***************************************************************************)
\* What is known of the image file, by where Initialize is: between two processes
\* it is not there, or whole, or an init_disk was cut off.
FileIs ==
  /\ pc \in {"down", "buffers", "disk"} => sectors = NoFile \/ cut \/ sectors = Total
  /\ pc \in {"format", "super"} => sectors = 0
  /\ pc = "inodes" => sectors = SuperSectors
  /\ pc = "data" => sectors = DataStart
  /\ pc \in {"mmap", "root", "serving"} => sectors \in 0 .. Total /\ (cut \/ sectors = Total)
  /\ pc \in {"root", "serving"} => sectors > 0

Life ==
  /\ pc \in Pc /\ cut \in BOOLEAN /\ sectors \in 0 .. Total \cup {NoFile}
  /\ pc \in {"format", "super"} => Formatting
  /\ pc = "super" => leftBlock = 0
  /\ FileIs

\* The inductive invariant.
Inv == Ringed /\ Life

LEMMA InvInit == Init => Inv
<1> SUFFICES ASSUME Init PROVE Inv
  OBVIOUS
<1>1. Ringed
  BY EmptyList DEF Init, NoMemory
<1>2. Life
  BY DEF Init, NoMemory, Life, FileIs, Pc, Writing
<1> QED
  BY <1>1, <1>2 DEF Inv

\* A process that dies leaves a file that is whole, or cut says so.
LEMMA DeathLeaves ==
  ASSUME Dies, cut' \in BOOLEAN, sectors' \in 0 .. Total \cup {NoFile},
         sectors' = NoFile \/ cut' \/ sectors' = Total
  PROVE  Life'
BY DEF Dies, Life, FileIs, Pc, Writing

LEMMA DeathEmpties ==
  ASSUME Dies
  PROVE  Ringed' /\ Queue!QueueInit'
<1>1. List!Init'
  BY DEF Dies, List!Init
<1>2. (List!Init => Ringed /\ List!Chain = <<>> /\ List!StaleBack = {})'
  BY EmptyList, PTL
<1> QED
  BY <1>1, <1>2 DEF Queue!QueueInit

\* Where an action leaves the list alone, so do its mapping and its invariant.
LEMMA ListStays ==
  ASSUME Ringed, UNCHANGED listVars
  PROVE  Ringed' /\ UNCHANGED <<List!Chain, List!StaleBack>>
<1>1. PICK q \in Seq(Buf) : Threaded(q) /\ MapsTo(q) /\ List!TypeOK
  BY ThreadedMaps DEF Ringed, Mapping
<1>2. Threaded(q)' /\ List!TypeOK'
  BY <1>1 DEF listVars, Threaded, At, List!TypeOK
<1>3. MapsTo(q)'
  <2>1. Mapping'
    BY ThreadedMaps, PTL
  <2> QED
    BY <1>2, <2>1 DEF Mapping
<1>4. back' = back
  BY DEF listVars
<1> QED
  BY <1>1, <1>2, <1>3, <1>4 DEF Ringed, MapsTo

LEMMA Sizes ==
  /\ Total \in Nat /\ SuperSectors = 2 /\ DataStart \in 3 .. Total /\ 2 < Total
  /\ \A from \in Writing : Written(from) \in Nat \ {0}
  /\ Written("super") = 2 /\ Written("inodes") = DataStart - 2 /\ Written("data") = Total - DataStart
  /\ NoFile \notin Nat
BY Zone, StartUpAssumption DEF Writing, Written, SuperSectors

\* What is in the file when a write begins, and how far it can get.
LEMMA WriteBegins ==
  ASSUME Life, pc \in Writing
  PROVE  sectors \in Nat /\ sectors + Written(pc) <= Total
BY Sizes DEF Life, FileIs, Writing

LEMMA WriteLives ==
  ASSUME Life, NEW from \in Writing, Write(from) \/ WriteShort(from)
  PROVE  Life'
<1>1. pc = from /\ sectors \in Nat /\ sectors + Written(from) <= Total
  BY WriteBegins DEF Write, WriteShort, Goto
<1>2. CASE Write(from)
  <2>1. CASE from = "super"
    BY <1>1, <1>2, <2>1, Sizes DEF Write, Goto, AfterWrite, Life, FileIs, Pc, Writing
  <2>2. CASE from = "inodes"
    BY <1>1, <1>2, <2>2, Sizes DEF Write, Goto, AfterWrite, Life, FileIs, Pc, Writing
  <2>3. CASE from = "data"
    BY <1>1, <1>2, <2>3, Sizes DEF Write, Goto, AfterWrite, Life, FileIs, Pc, Writing
  <2> QED
    BY <2>1, <2>2, <2>3 DEF Writing
<1>3. CASE WriteShort(from)
  <2>1. pc' = "mmap" /\ cut' = TRUE
    BY <1>3 DEF WriteShort, Goto
  <2>2. sectors' \in 0 .. Total
    BY <1>1, <1>3, Sizes DEF WriteShort
  <2> QED
    BY <1>1, <2>1, <2>2 DEF Life, FileIs, Pc, Writing
<1> QED
  BY <1>2, <1>3

LEMMA LifeStep ==
  ASSUME Life, Next
  PROVE  Life'
<1>1. CASE Start
  BY <1>1 DEF Start, Goto, formatVars, Life, FileIs, Pc, Writing
<1>2. CASE InitBuffer
  BY <1>2 DEF InitBuffer, Goto, formatVars, Life, FileIs, Formatting, Made, Pc, Writing
<1>3. CASE OpenDisk
  BY <1>3, Sizes DEF OpenDisk, Found, Goto, formatVars, Life, FileIs, Pc, Writing
<1>4. CASE CreateDisk
  <2>1. Formatting'
    <3>1. Made(0) = [s \in Format!DataZone |-> <<>>]
      BY DEF Made
    <3>2. 0 * Group = 0 /\ ~ 0 >= DataSize
      BY Zone
    <3> QED
      BY <1>4, <3>1, <3>2, Zone DEF CreateDisk, Formatting, Made
  <2> QED
    BY <1>4, <2>1, Sizes DEF CreateDisk, Found, Goto, Life, FileIs, Pc, Writing
<1>5. CASE InitDatablock
  <2>1. CASE pc = "format" /\ Format!FormatGroup /\ UNCHANGED <<listVars, sectors, pc, cut>>
    <3>1. Formatting'
      BY <2>1, FormatTurn DEF Life
    <3> QED
      BY <2>1, <3>1 DEF Life, FileIs, Pc, Writing
  <2>2. CASE Goto("format", "super") /\ leftBlock = 0 /\ UNCHANGED <<listVars, formatVars, sectors, cut>>
    <3>1. Formatting'
      BY <2>2 DEF Life, Formatting, Made, Goto, formatVars
    <3> QED
      BY <2>2, <3>1 DEF Goto, formatVars, Life, FileIs, Pc, Writing
  <2> QED
    BY <1>5, <2>1, <2>2 DEF InitDatablock
<1>6. CASE InitDisk
  BY <1>6, WriteLives DEF InitDisk
<1>7. CASE InitMmap
  <2>1. CASE Goto("mmap", "root") /\ sectors > 0 /\ UNCHANGED <<listVars, formatVars, sectors, cut>>
    BY <2>1 DEF Goto, formatVars, Life, FileIs, Pc, Writing
  <2>2. CASE pc = "mmap" /\ sectors = 0 /\ Dies /\ UNCHANGED <<sectors, cut>>
    BY <2>2, DeathLeaves DEF Life, FileIs
  <2> QED
    BY <1>7, <2>1, <2>2 DEF InitMmap
<1>8. CASE LoadRoot
  BY <1>8 DEF LoadRoot, Goto, formatVars, Life, FileIs, Pc, Writing
<1>9. CASE LoadRootFaults
  BY <1>9, DeathLeaves DEF LoadRootFaults, Life, FileIs
<1>10. ASSUME NEW bp \in List!Buf, BflushMove(bp) PROVE Life'
  BY <1>10 DEF BflushMove, formatVars, Life, FileIs, Pc, Writing
<1>11. CASE SessionFaults
  BY <1>11, DeathLeaves DEF SessionFaults, Life, FileIs
<1>12. CASE Kill
  <2>1. Dies /\ cut' = (cut \/ pc = "format" \/ pc \in Writing) /\ cut' \in BOOLEAN
    BY <1>12 DEF Kill, Life
  <2>2. CASE UNCHANGED sectors
    BY <2>1, <2>2, DeathLeaves DEF Life, FileIs, Pc
  <2>3. CASE pc \in Writing /\ \E n \in Cuts : n \in sectors .. sectors + Written(pc) - 1 /\ sectors' = n
    <3>1. sectors' \in 0 .. Total
      BY <2>3, WriteBegins, Sizes
    <3> QED
      BY <2>1, <2>3, <3>1, DeathLeaves DEF Life, FileIs
  <2> QED
    BY <1>12, <2>2, <2>3 DEF Kill
<1> QED
  BY <1>1, <1>2, <1>3, <1>4, <1>5, <1>6, <1>7, <1>8, <1>9, <1>10, <1>11, <1>12 DEF Next, Initialize

LEMMA ListStep ==
  ASSUME Ringed, Next
  PROVE  /\ Ringed'
         /\ [Queue!QueueNext \/ Queue!QueueInit']_<<List!Chain, List!StaleBack>>
<1>1. CASE pc = "buffers" /\ List!InitializeBuf
  BY <1>1, InsertRefines
<1>2. ASSUME NEW bp \in List!Buf, BflushMove(bp)
      PROVE  Ringed' /\ Queue!QueueNext
  BY <1>2, MoveRefines DEF BflushMove
<1>3. CASE Dies
  BY <1>3, DeathEmpties
<1>4. CASE UNCHANGED listVars
  BY <1>4, ListStays
<1> QED
  BY <1>1, <1>2, <1>3, <1>4
  DEF Next, Initialize, Start, InitBuffer, OpenDisk, CreateDisk, InitDatablock, InitDisk, Write,
      WriteShort, InitMmap, LoadRoot, LoadRootFaults, SessionFaults, Kill

\* The inductive invariant, and what every step is.
LEMMA Inductive ==
  ASSUME Inv, [Next]_vars
  PROVE  /\ Inv'
         /\ [Queue!QueueNext \/ Queue!QueueInit']_<<List!Chain, List!StaleBack>>
<1>1. CASE Next
  BY <1>1, LifeStep, ListStep DEF Inv
<1>2. CASE UNCHANGED vars
  <2>1. Ringed' /\ UNCHANGED <<List!Chain, List!StaleBack>>
    BY <1>2, ListStays DEF vars, Inv
  <2>2. Life'
    BY <1>2 DEF vars, formatVars, Inv, Life, FileIs, Formatting, Made
  <2> QED
    BY <1>2, <2>1, <2>2 DEF Inv
<1> QED
  BY <1>1, <1>2

LEMMA InvAlways == Spec => []Inv
<1>1. Inv /\ [Next]_vars => Inv'
  BY Inductive
<1> QED
  BY <1>1, InvInit, PTL DEF Spec

\* A loop over b_forw is back at bFreeList after every linked buffer, and b_back of
\* the head is the last one, for any number of buffers; the rest has its type.
THEOREM ListInvHolds == Spec => []ListInv
<1>1. Inv => ListInv
  <2> SUFFICES ASSUME Inv PROVE ListInv
    OBVIOUS
  <2>1. List!Ring
    BY RingedCloses DEF Inv
  <2>2. ASSUME pc = "format" PROVE Format!TypeOK
    <3>1. PICK n \in Nat : n = i /\ image = Made(n)
      BY <2>2 DEF Inv, Life, Formatting
    <3>2. \A s \in Format!DataZone : image[s] \in Seq({0} \cup Format!DataZone)
      BY <3>1, MadeLists
    <3>3. n * Group \in Nat
      BY Zone
    <3>4. leftBlock \in 0 .. DataSize
      BY <2>2, <3>1, <3>3, Zone DEF Inv, Life, Formatting
    <3> QED
      BY <3>1, <3>2, <3>4 DEF Format!TypeOK
  <2> QED
    BY <2>1, <2>2 DEF Inv, Ringed, Life, ListInv, RingCloses, TypeOK
<1> QED
  BY <1>1, InvAlways, PTL

\* When init_disk is about to write, list and tables hold every block of the data
\* zone, each once, for any geometry that DiskLayout allows.
THEOREM ZoneOnTheListHolds == Spec => []ZoneOnTheList
<1>1. Inv => ZoneOnTheList
  <2> SUFFICES ASSUME Inv, pc = "super" PROVE image = Format!FormattedTables
    BY WholeChain DEF ZoneOnTheList
  <2>1. PICK n \in Nat : n = i /\ image = Made(n)
    BY DEF Inv, Life, Formatting
  <2>2. n * Group >= DataSize
    <3>1. n * Group \in Nat
      BY Zone
    <3> QED
      BY <2>1, <3>1, Zone DEF Inv, Life, Formatting
  <2> QED
    BY <2>1, <2>2, AllMade
<1> QED
  BY <1>1, InvAlways, PTL

\* A server that serves has a whole image with a root directory, unless an init_disk
\* was cut off, and never an empty file.
THEOREM ServesWholeHolds == Spec => []ServesWhole
<1>1. Inv => ServesWhole
  BY Sizes DEF Inv, Life, FileIs, ServesWhole, RootIsDir, RootSector
<1> QED
  BY <1>1, InvAlways, PTL

\* The assignments of Initialize and Bflush to b_forw and b_back are, step by step,
\* an insertion in front or a requeueing of BufferQueue, for any number of buffers.
THEOREM ImplementsQueueHolds == Spec => ImplementsQueue
<1>1. Init => Queue!QueueInit
  BY EmptyList DEF Init, NoMemory, Queue!QueueInit
<1>2. Inv /\ [Next]_vars =>
        [Queue!QueueNext \/ Queue!QueueInit']_<<List!Chain, List!StaleBack>>
  BY Inductive
<1> QED
  BY <1>1, <1>2, InvAlways, PTL DEF Spec, ImplementsQueue

=============================================================================
