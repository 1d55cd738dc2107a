----------------------------- MODULE SessionProofs -----------------------------
(***************************************************************************)
(* Proofs about Session, for any number of sessions, descriptors, File     *)
(* structures and inodes, any names and any directory to start with: how   *)
(* the references are counted, what ls and cat leave alone, and that it    *)
(* implements FileCursors.                                                 *)
(***************************************************************************)
EXTENDS Session, SequenceTheorems, FiniteSetTheorems, WellFoundedInduction, TLAPS

Entry == [name : Name, ino : Inode \cup {0}]

FileSet == [count : Nat, flag : Mode, off : 0 .. MaxOff, ino : Inode \cup {Root}]

UserSet == [ofiles : [Fd -> File \cup {Null}], error : BOOLEAN, eax : Int]

CallSet == [pc : Pc, cmd : Command, ino : Inode \cup {Root}, mode : Mode,
            fd : Int, file : File \cup {Null}, own : BOOLEAN, path : Name \cup {"/"}, more : 0 .. 2,
            off : 0 .. MaxOff, asked : Nat, n : Nat]

\* The commands that open a file, those that loop over one, and those that call Rdwr.
Openers == {"open", "touch", "ls", "cat", "fout", "fin"}

Loopers == {"ls", "cat", "fout", "fin"}

Movers == {"read", "write"}

\* A read or write under way: its descriptor is open for it, and no more has been
\* moved than was asked for and than fits.
Fits(c, u) ==
  /\ c.fd \in Fd /\ u.ofiles[c.fd] # Null
  /\ Direction(c) \in c.mode
  /\ c.n <= c.asked /\ c.off + c.n <= MaxOff

\* What a session is at, whoever else does what: the descriptor that Open1 has
\* found stays free, and only ls and cat loop without a file of their own.
Sound(c, u) ==
  /\ c.cmd \notin {"login", "exit"}
  /\ c.pc = "out" => u.ofiles = NoFiles
  /\ c.pc = "name" /\ c.cmd \in {"touch", "fin"} => c.path # "/"
  /\ c.pc = "reopen" => c.cmd = "fin"
  /\ c.pc \in {"find", "take"} => c.cmd \in Openers
  /\ c.pc = "take" => c.fd \in Fd /\ u.ofiles[c.fd] = Null /\ c.file \in File
  /\ c.pc \in {"find", "take", "lock", "io"} /\ c.ino = Root => "write" \notin c.mode
  /\ c.pc \in {"loop", "lock", "io", "entry"} =>
       /\ c.cmd \in Loopers \cup Movers
       /\ c.cmd \in Movers => c.pc \in {"lock", "io"} /\ c.asked \in Counts
       /\ c.cmd = "fin" => c.more = 2
       /\ ~c.own /\ c.cmd \notin Movers => c.cmd \in {"ls", "cat"} /\ u.error /\ c.n = 0
  /\ c.pc = "close" => c.cmd \in {"close", "cat", "fout", "fin"} /\ (~c.own => c.cmd = "close")
  /\ c.pc \in {"loop", "lock"} => c.n = 0
  /\ c.pc \in {"lock", "io"} => Fits(c, u)

Kept ==
  /\ Len(dir) <= MaxOff
  /\ \A f \in File : file[f].ino = Root => "write" \notin file[f].flag
  /\ \A s \in Session : Sound(call[s], user[s])

\* The inductive invariant.
Inv == CountsInv /\ Kept
-----------------------------------------------------------------------------
(* Counting *)

\* Adding and removing one element.
LEMMA Toggle ==
  ASSUME NEW S, NEW T, NEW x, IsFiniteSet(S), \A y : y # x => (y \in S <=> y \in T)
  PROVE  /\ IsFiniteSet(T) /\ Cardinality(S) \in Nat /\ Cardinality(T) \in Nat
         /\ Cardinality(T) = Cardinality(S) - (IF x \in S THEN 1 ELSE 0) + (IF x \in T THEN 1 ELSE 0)
<1>1. CASE x \in T
  <2>1. T = S \cup {x}
    BY <1>1
  <2> QED
    BY <2>1, <1>1, FS_AddElement, FS_CardinalityType
<1>2. CASE x \notin T
  <2>1. T = S \ {x}
    BY <1>2
  <2>2. x \in S => Cardinality(T) = Cardinality(S) - 1
    BY <2>1, FS_RemoveElement
  <2>3. x \notin S => T = S
    BY <2>1
  <2> QED
    BY <2>1, <2>2, <2>3, <1>2, FS_RemoveElement, FS_CardinalityType
<1> QED
  BY <1>1, <1>2

\* Adding a set of others.
LEMMA Disjoint ==
  ASSUME NEW S, NEW T, IsFiniteSet(S), IsFiniteSet(T), S \cap T = {}
  PROVE  /\ IsFiniteSet(S \cup T) /\ Cardinality(S) \in Nat /\ Cardinality(T) \in Nat
         /\ Cardinality(S \cup T) = Cardinality(S) + Cardinality(T)
BY FS_Union, FS_EmptySet, FS_CardinalityType

\* The pairs of one element and those of a set.
LEMMA Row ==
  ASSUME NEW a, NEW D, IsFiniteSet(D)
  PROVE  LET R == {a} \X D IN IsFiniteSet(R) /\ Cardinality(R) = Cardinality(D)
<1>1. IsFiniteSet({a}) /\ Cardinality({a}) = 1
  BY FS_Singleton
<1> QED
  BY <1>1, FS_Product, FS_CardinalityType

Opening(i) == {s \in Session : call[s].pc \in {"find", "take"} /\ call[s].ino = i}

Using(i) == {f \in File : file[f].count > 0 /\ file[f].ino = i}

Held(f) == {x \in Session \X Fd : user[x[1]].ofiles[x[2]] = f}

Freed(f) == {x \in (DOMAIN heap) \X Fd : heap[x[1]][1][x[2]] = f}

IsOpening(c, i) == IF c.pc \in {"find", "take"} /\ c.ino = i THEN 1 ELSE 0

IsUsing(g, i) == IF g.count > 0 /\ g.ino = i THEN 1 ELSE 0

LEMMA Finite ==
  /\ IsFiniteSet(Session) /\ IsFiniteSet(Fd) /\ IsFiniteSet(File) /\ Fd \subseteq Nat /\ File \subseteq Nat \ {0}
  /\ IsFiniteSet(Session \X Fd)
<1>1. IsFiniteSet(Session) /\ NFILE \in Nat /\ NOFILES \in Nat
  BY SessionAssumption
<1>2. IsFiniteSet(0 .. NOFILES - 1) /\ IsFiniteSet(1 .. NFILE)
  BY <1>1, FS_Interval
<1> QED
  BY <1>1, <1>2, FS_Product DEF Fd, File

LEMMA OpeningStep ==
  ASSUME NEW s \in Session, \A t \in Session \ {s} : call'[t] = call[t], NEW i
  PROVE  /\ Cardinality(Opening(i)) \in Nat /\ Cardinality(Opening(i)') \in Nat
         /\ Cardinality(Opening(i)') = Cardinality(Opening(i)) - IsOpening(call[s], i) + IsOpening(call'[s], i)
<1>1. PICK S : S = Opening(i)
  OBVIOUS
<1>2. PICK T : T = Opening(i)'
  OBVIOUS
<1>3. \A y : y # s => (y \in S <=> y \in T)
  BY <1>1, <1>2 DEF Opening
<1>4. /\ (IF s \in S THEN 1 ELSE 0) = IsOpening(call[s], i)
      /\ (IF s \in T THEN 1 ELSE 0) = IsOpening(call'[s], i)
  BY <1>1, <1>2 DEF Opening, IsOpening
<1>5. IsFiniteSet(S)
  BY <1>1, Finite, FS_Subset DEF Opening
<1> QED
  BY <1>1, <1>2, <1>3, <1>4, <1>5, Toggle

LEMMA UsingStep ==
  ASSUME NEW f \in File, \A g \in File \ {f} : file'[g] = file[g], NEW i
  PROVE  /\ Cardinality(Using(i)) \in Nat /\ Cardinality(Using(i)') \in Nat
         /\ Cardinality(Using(i)') = Cardinality(Using(i)) - IsUsing(file[f], i) + IsUsing(file'[f], i)
<1>1. PICK S : S = Using(i)
  OBVIOUS
<1>2. PICK T : T = Using(i)'
  OBVIOUS
<1>3. \A y : y # f => (y \in S <=> y \in T)
  BY <1>1, <1>2 DEF Using
<1>4. /\ (IF f \in S THEN 1 ELSE 0) = IsUsing(file[f], i)
      /\ (IF f \in T THEN 1 ELSE 0) = IsUsing(file'[f], i)
  BY <1>1, <1>2 DEF Using, IsUsing
<1>5. IsFiniteSet(S)
  BY <1>1, Finite, FS_Subset DEF Using
<1> QED
  BY <1>1, <1>2, <1>3, <1>4, <1>5, Toggle

\* One descriptor changes.
LEMMA HeldStep ==
  ASSUME NEW s \in Session, NEW d \in Fd, NEW f,
         \A t \in Session, e \in Fd :
           <<t, e>> # <<s, d>> => user'[t].ofiles[e] = user[t].ofiles[e]
  PROVE  /\ Cardinality(Held(f)) \in Nat /\ Cardinality(Held(f)') \in Nat
         /\ Cardinality(Held(f)') = Cardinality(Held(f)) - (IF user[s].ofiles[d] = f THEN 1 ELSE 0)
                                                         + (IF user'[s].ofiles[d] = f THEN 1 ELSE 0)
<1>1. PICK S : S = Held(f)
  OBVIOUS
<1>2. PICK T : T = Held(f)'
  OBVIOUS
<1>3. \A y : y # <<s, d>> => (y \in S <=> y \in T)
  BY <1>1, <1>2 DEF Held
<1>4. /\ (IF <<s, d>> \in S THEN 1 ELSE 0) = (IF user[s].ofiles[d] = f THEN 1 ELSE 0)
      /\ (IF <<s, d>> \in T THEN 1 ELSE 0) = (IF user'[s].ofiles[d] = f THEN 1 ELSE 0)
  BY <1>1, <1>2 DEF Held
<1>5. IsFiniteSet(S)
  <2>1. S \subseteq Session \X Fd
    BY <1>1 DEF Held
  <2> QED
    BY <2>1, Finite, FS_Subset
<1>6. PICK x : x = <<s, d>>
  OBVIOUS
<1>7. \A y : y # x => (y \in S <=> y \in T)
  BY <1>3, <1>6
<1>8. /\ Cardinality(S) \in Nat /\ Cardinality(T) \in Nat
      /\ Cardinality(T) = Cardinality(S) - (IF x \in S THEN 1 ELSE 0) + (IF x \in T THEN 1 ELSE 0)
  BY <1>5, <1>7, Toggle
<1> QED
  BY <1>1, <1>2, <1>4, <1>6, <1>8
Naming(o, f) == {d \in Fd : o[d] = f}

\* All descriptors of one session change.
LEMMA HeldRow ==
  ASSUME NEW s \in Session, NEW f, NEW o, NEW p, o = user[s].ofiles, p = user'[s].ofiles,
         \A t \in Session \ {s} : user'[t].ofiles = user[t].ofiles
  PROVE  /\ Cardinality(Held(f)) \in Nat /\ Cardinality(Held(f)') \in Nat
         /\ Cardinality(Naming(o, f)) \in Nat /\ Cardinality(Naming(p, f)) \in Nat
         /\ Cardinality(Held(f)') = Cardinality(Held(f)) - Cardinality(Naming(o, f))
                                                         + Cardinality(Naming(p, f))
<1>1. PICK S : S = Held(f)
  OBVIOUS
<1>2. PICK T : T = Held(f)'
  OBVIOUS
<1>3. PICK W : W = {x \in (Session \ {s}) \X Fd : user[x[1]].ofiles[x[2]] = f}
  OBVIOUS
<1>4. S = W \cup ({s} \X Naming(o, f)) /\ W \cap ({s} \X Naming(o, f)) = {}
  BY <1>1, <1>3 DEF Held, Naming
<1>5. T = W \cup ({s} \X Naming(p, f)) /\ W \cap ({s} \X Naming(p, f)) = {}
  BY <1>2, <1>3 DEF Held, Naming
<1>6. IsFiniteSet(W)
  <2>1. W \subseteq Session \X Fd
    BY <1>3
  <2> QED
    BY <2>1, Finite, FS_Subset
<1>7. IsFiniteSet(Naming(o, f)) /\ IsFiniteSet(Naming(p, f))
  BY Finite, FS_Subset DEF Naming
<1>8. /\ IsFiniteSet({s} \X Naming(o, f)) /\ Cardinality({s} \X Naming(o, f)) = Cardinality(Naming(o, f))
      /\ IsFiniteSet({s} \X Naming(p, f)) /\ Cardinality({s} \X Naming(p, f)) = Cardinality(Naming(p, f))
  BY <1>7, Row
<1>9. Cardinality(S) = Cardinality(W) + Cardinality(Naming(o, f)) /\ Cardinality(W) \in Nat
  <2>1. PICK A : A = {s} \X Naming(o, f)
    OBVIOUS
  <2>2. Cardinality(W \cup A) = Cardinality(W) + Cardinality(A) /\ Cardinality(W) \in Nat
    BY <2>1, <1>4, <1>6, <1>8, Disjoint
  <2> QED
    BY <2>1, <2>2, <1>4, <1>8
<1>10. Cardinality(T) = Cardinality(W) + Cardinality(Naming(p, f))
  <2>1. PICK A : A = {s} \X Naming(p, f)
    OBVIOUS
  <2>2. Cardinality(W \cup A) = Cardinality(W) + Cardinality(A) /\ Cardinality(W) \in Nat
    BY <2>1, <1>5, <1>6, <1>8, Disjoint
  <2> QED
    BY <2>1, <2>2, <1>5, <1>8
<1>11. Cardinality(Naming(o, f)) \in Nat /\ Cardinality(Naming(p, f)) \in Nat
  BY <1>7, FS_CardinalityType
<1> QED
  BY <1>1, <1>2, <1>9, <1>10, <1>11

HeapSet == [Fd -> File \cup {Null}] \X Int

LEMMA FreedFinite ==
  ASSUME heap \in Seq(HeapSet), NEW f
  PROVE  IsFiniteSet(Freed(f)) /\ Cardinality(Freed(f)) \in Nat
<1>1. Len(heap) \in Nat /\ DOMAIN heap = 1 .. Len(heap)
  OBVIOUS
<1>2. IsFiniteSet((DOMAIN heap) \X Fd)
  <2>1. PICK n \in Nat : n = Len(heap)
    BY <1>1
  <2>2. IsFiniteSet(1 .. n)
    BY FS_Interval
  <2>3. IsFiniteSet((1 .. n) \X Fd)
    BY <2>2, FS_Product, Finite
  <2> QED
    BY <1>1, <2>1, <2>3
<1>3. Freed(f) \subseteq (DOMAIN heap) \X Fd
  BY DEF Freed
<1> QED
  BY <1>2, <1>3, FS_Subset, FS_CardinalityType

\* Logout: one User structure more has been freed.
LEMMA FreedMore ==
  ASSUME heap \in Seq(HeapSet), NEW o, NEW e, <<o, e>> \in HeapSet, heap' = Append(heap, <<o, e>>), NEW f
  PROVE  /\ heap' \in Seq(HeapSet)
         /\ Cardinality(Naming(o, f)) \in Nat
         /\ Cardinality(Freed(f)') = Cardinality(Freed(f)) + Cardinality(Naming(o, f))
<1>1. PICK n \in Nat : n = Len(heap) /\ DOMAIN heap = 1 .. n
  OBVIOUS
<1>2. /\ heap' \in Seq(HeapSet) /\ DOMAIN heap' = 1 .. n + 1 /\ heap'[n + 1] = <<o, e>>
      /\ \A k \in 1 .. n : heap'[k] = heap[k]
  BY <1>1
<1>3. Freed(f)' = Freed(f) \cup ({n + 1} \X Naming(o, f))
  <2>1. ASSUME NEW x \in Freed(f)' PROVE x \in Freed(f) \cup ({n + 1} \X Naming(o, f))
    <3>1. x \in (1 .. n + 1) \X Fd /\ heap'[x[1]][1][x[2]] = f
      BY <1>2 DEF Freed
    <3>2. CASE x[1] = n + 1
      BY <3>1, <3>2, <1>2 DEF Naming
    <3>3. CASE x[1] \in 1 .. n
      BY <3>1, <3>3, <1>1, <1>2 DEF Freed
    <3> QED
      BY <3>1, <3>2, <3>3
  <2>2. ASSUME NEW x \in Freed(f) PROVE x \in Freed(f)'
    <3>1. x \in (1 .. n) \X Fd /\ heap[x[1]][1][x[2]] = f
      BY <1>1 DEF Freed
    <3>2. heap'[x[1]] = heap[x[1]] /\ x \in (1 .. n + 1) \X Fd
      BY <3>1, <1>2
    <3> QED
      BY <3>1, <3>2, <1>2 DEF Freed
  <2>3. ASSUME NEW x \in {n + 1} \X Naming(o, f) PROVE x \in Freed(f)'
    <3>1. x \in (1 .. n + 1) \X Fd /\ x[1] = n + 1 /\ o[x[2]] = f
      BY DEF Naming
    <3>2. heap'[x[1]][1] = o
      BY <3>1, <1>2
    <3> QED
      BY <3>1, <3>2, <1>2 DEF Freed
  <2> QED
    BY <2>1, <2>2, <2>3
<1>4. Freed(f) \cap ({n + 1} \X Naming(o, f)) = {}
  BY <1>1 DEF Freed
<1>5. IsFiniteSet(Naming(o, f)) /\ Cardinality(Naming(o, f)) \in Nat
  BY Finite, FS_Subset, FS_CardinalityType DEF Naming
<1>6. IsFiniteSet({n + 1} \X Naming(o, f)) /\ Cardinality({n + 1} \X Naming(o, f)) = Cardinality(Naming(o, f))
  BY <1>5, Row
<1>7. PICK S : S = Freed(f)
  OBVIOUS
<1>8. PICK T : T = {n + 1} \X Naming(o, f)
  OBVIOUS
<1>9. Cardinality(S \cup T) = Cardinality(S) + Cardinality(T)
  BY <1>4, <1>6, <1>7, <1>8, FreedFinite, Disjoint
<1> QED
  BY <1>2, <1>3, <1>5, <1>6, <1>7, <1>8, <1>9

LEMMA RemoveAtIs ==
  ASSUME NEW S, NEW q \in Seq(S), NEW k \in 1 .. Len(q), NEW r, r = RemoveAt(q, k)
  PROVE  /\ r \in Seq(S) /\ Len(r) = Len(q) - 1
         /\ \A j \in 1 .. Len(q) - 1 : r[j] = q[IF j < k THEN j ELSE j + 1]
<1> DEFINE n == Len(q)
           a == SubSeq(q, 1, k - 1)
           b == SubSeq(q, k + 1, n)
<1>1. n \in Nat /\ k \in 1 .. n /\ \A i \in 1 .. n : q[i] \in S
  OBVIOUS
<1>2. a \in Seq(S) /\ Len(a) = k - 1 /\ \A i \in 1 .. k - 1 : a[i] = q[i]
  <2>1. \A i \in 1 .. k - 1 : q[i] \in S
    BY <1>1
  <2>2. /\ a \in Seq(S) /\ Len(a) = (IF 1 <= k - 1 THEN (k - 1) - 1 + 1 ELSE 0)
        /\ \A i \in 1 .. (k - 1) - 1 + 1 : a[i] = q[1 + i - 1]
    BY <1>1, <2>1, SubSeqProperties
  <2> QED
    BY <1>1, <2>2
<1>3. b \in Seq(S) /\ Len(b) = n - k /\ \A i \in 1 .. n - k : b[i] = q[k + i]
  <2>1. \A i \in k + 1 .. n : q[i] \in S
    BY <1>1
  <2>2. /\ b \in Seq(S) /\ Len(b) = (IF k + 1 <= n THEN n - (k + 1) + 1 ELSE 0)
        /\ \A i \in 1 .. n - (k + 1) + 1 : b[i] = q[(k + 1) + i - 1]
    BY <1>1, <2>1, SubSeqProperties
  <2> QED
    BY <1>1, <2>2
<1>4. r = a \o b
  BY DEF RemoveAt
<1> HIDE DEF n, a, b
<1>5. /\ a \o b \in Seq(S) /\ Len(a \o b) = Len(a) + Len(b)
      /\ \A i \in 1 .. Len(a) + Len(b) : (a \o b)[i] = IF i <= Len(a) THEN a[i] ELSE b[i - Len(a)]
  BY <1>2, <1>3, ConcatProperties
<1>6. Len(r) = n - 1
  BY <1>1, <1>2, <1>3, <1>4, <1>5
<1>7. ASSUME NEW j \in 1 .. n - 1 PROVE r[j] = q[IF j < k THEN j ELSE j + 1]
  <2>1. r[j] = IF j <= k - 1 THEN a[j] ELSE b[j - (k - 1)]
    <3>1. Len(a) = k - 1 /\ Len(b) = n - k
      BY <1>2, <1>3
    <3>2. j \in 1 .. Len(a) + Len(b)
      BY <3>1, <1>1
    <3>3. (a \o b)[j] = IF j <= Len(a) THEN a[j] ELSE b[j - Len(a)]
      BY <3>2, <1>5
    <3> QED
      BY <3>1, <3>3, <1>4
  <2>2. CASE j < k
    BY <1>1, <1>2, <2>1, <2>2
  <2>3. CASE j >= k
    <3>1. j - (k - 1) \in 1 .. n - k /\ k + (j - (k - 1)) = j + 1
      BY <1>1, <2>3
    <3>2. b[j - (k - 1)] = q[j + 1]
      BY <3>1, <1>3
    <3> QED
      BY <1>1, <2>1, <2>3, <3>2
  <2> QED
    BY <2>2, <2>3, <1>1
<1> QED
  BY <1>4, <1>5, <1>6, <1>7 DEF n

\* Login: a freed User structure is in use again.
LEMMA FreedLess ==
  ASSUME heap \in Seq(HeapSet), NEW k \in DOMAIN heap, heap' = RemoveAt(heap, k), NEW o, o = heap[k][1], NEW f
  PROVE  /\ heap' \in Seq(HeapSet)
         /\ Cardinality(Naming(o, f)) \in Nat
         /\ Cardinality(Freed(f)) = Cardinality(Freed(f)') + Cardinality(Naming(o, f))
<1>1. PICK q : q = heap
  OBVIOUS
<1>2. PICK r : r = heap'
  OBVIOUS
<1>3. PICK n \in Nat : n = Len(q) /\ DOMAIN q = 1 .. n
  BY <1>1
<1>4. q \in Seq(HeapSet) /\ k \in 1 .. Len(q) /\ r = RemoveAt(q, k)
  BY <1>1, <1>2, <1>3
<1>5. /\ r \in Seq(HeapSet) /\ Len(r) = n - 1
      /\ \A j \in 1 .. n - 1 : r[j] = q[IF j < k THEN j ELSE j + 1]
  BY <1>3, <1>4, RemoveAtIs
<1>6. DOMAIN r = 1 .. n - 1
  BY <1>5
<1>7. PICK S : S = {x \in (1 .. n) \X Fd : q[x[1]][1][x[2]] = f /\ x[1] # k}
  OBVIOUS
<1>8. PICK T : T = {x \in (1 .. n - 1) \X Fd : r[x[1]][1][x[2]] = f}
  OBVIOUS
<1>9. Freed(f)' = T
  BY <1>2, <1>6, <1>8 DEF Freed
<1>10. Freed(f) = S \cup ({k} \X Naming(o, f)) /\ S \cap ({k} \X Naming(o, f)) = {}
  <2>1. k \in 1 .. n /\ q[k][1] = o
    BY <1>1, <1>3, <1>4
  <2>2. Freed(f) = {x \in (1 .. n) \X Fd : q[x[1]][1][x[2]] = f}
    BY <1>1, <1>3 DEF Freed
  <2> QED
    BY <2>1, <2>2, <1>7 DEF Naming
<1>11. IsFiniteSet(T) /\ Cardinality(T) \in Nat
  <2>1. IsFiniteSet((1 .. n - 1) \X Fd)
    <3>1. IsFiniteSet(1 .. n - 1)
      BY <1>3, FS_Interval
    <3> QED
      BY <3>1, FS_Product, Finite
  <2>2. T \subseteq (1 .. n - 1) \X Fd
    BY <1>8
  <2> QED
    BY <2>1, <2>2, FS_Subset, FS_CardinalityType
<1>12. IsFiniteSet(S) /\ Cardinality(S) = Cardinality(T)
  <2> DEFINE up == [x \in T |-> <<IF x[1] < k THEN x[1] ELSE x[1] + 1, x[2]>>]
  <2>1. \A x \in T : up[x] \in S
    <3> SUFFICES ASSUME NEW x \in T PROVE up[x] \in S
      OBVIOUS
    <3>1. x[1] \in 1 .. n - 1 /\ x[2] \in Fd /\ r[x[1]][1][x[2]] = f
      BY <1>8
    <3>2. PICK j : j = IF x[1] < k THEN x[1] ELSE x[1] + 1
      OBVIOUS
    <3>3. j \in 1 .. n /\ j # k /\ r[x[1]] = q[j]
      <4>1. j \in 1 .. n /\ j # k
        BY <3>1, <3>2, <1>3, <1>4
      <4>2. r[x[1]] = q[IF x[1] < k THEN x[1] ELSE x[1] + 1]
        BY <3>1, <1>5
      <4> QED
        BY <4>1, <4>2, <3>2
    <3>4. up[x] = <<j, x[2]>>
      BY <3>2
    <3> QED
      BY <3>1, <3>3, <3>4, <1>7
  <2>2. \A x, y \in T : up[x] = up[y] => x = y
    <3> SUFFICES ASSUME NEW x \in T, NEW y \in T, up[x] = up[y] PROVE x = y
      OBVIOUS
    <3>1. /\ x \in (1 .. n - 1) \X Fd /\ y \in (1 .. n - 1) \X Fd
          /\ x = <<x[1], x[2]>> /\ y = <<y[1], y[2]>> /\ x[1] \in Nat /\ y[1] \in Nat
      BY <1>8, <1>3
    <3>2. /\ x[2] = y[2]
          /\ (IF x[1] < k THEN x[1] ELSE x[1] + 1) = (IF y[1] < k THEN y[1] ELSE y[1] + 1)
      OBVIOUS
    <3>3. x[1] = y[1]
      BY <3>1, <3>2, <1>3, <1>4
    <3> QED
      BY <3>1, <3>2, <3>3
  <2>3. \A z \in S : \E x \in T : up[x] = z
    <3> SUFFICES ASSUME NEW z \in S PROVE \E x \in T : up[x] = z
      OBVIOUS
    <3>1. z[1] \in 1 .. n /\ z[2] \in Fd /\ q[z[1]][1][z[2]] = f /\ z[1] # k /\ z = <<z[1], z[2]>>
      BY <1>7
    <3>2. PICK j : j = IF z[1] < k THEN z[1] ELSE z[1] - 1
      OBVIOUS
    <3>3. j \in 1 .. n - 1 /\ (IF j < k THEN j ELSE j + 1) = z[1]
      BY <3>1, <3>2, <1>3, <1>4
    <3>4. r[j] = q[z[1]]
      BY <3>3, <1>5
    <3>5. <<j, z[2]>> \in T
      BY <3>1, <3>3, <3>4, <1>8
    <3>6. up[<<j, z[2]>>] = z
      BY <3>1, <3>3, <3>5
    <3> QED
      BY <3>5, <3>6
  <2>4. up \in [T -> S]
    BY <2>1
  <2> HIDE DEF up
  <2>5. up \in Bijection(T, S)
    BY <2>2, <2>3, <2>4 DEF Bijection, Injection, Surjection, IsInjective
  <2> QED
    BY <2>5, <1>11, FS_Bijection DEF ExistsBijection
<1>13. IsFiniteSet(Naming(o, f)) /\ Cardinality(Naming(o, f)) \in Nat
  BY Finite, FS_Subset, FS_CardinalityType DEF Naming
<1>14. IsFiniteSet({k} \X Naming(o, f)) /\ Cardinality({k} \X Naming(o, f)) = Cardinality(Naming(o, f))
  BY <1>13, Row
<1>15. Cardinality(S \cup ({k} \X Naming(o, f))) = Cardinality(S) + Cardinality(Naming(o, f))
  BY <1>10, <1>12, <1>14, Disjoint
<1> QED
  BY <1>2, <1>5, <1>9, <1>10, <1>12, <1>13, <1>15

-----------------------------------------------------------------------------
(* The pieces of the actions *)

SaidSet == [by : Session, cmd : Command, ok : BOOLEAN, asked : Counts \cup {0}, n : Int]

Files == Inode \cup {Root}

\* The type invariant, by the names of the sets.
Types ==
  /\ dir \in Seq(Entry)
  /\ size \in [Inode -> 0 .. MaxOff] /\ sparse \subseteq Inode
  /\ refs \in [Files -> Nat] /\ left \in [Files -> Nat]
  /\ file \in [File -> FileSet]
  /\ user \in [Session -> UserSet]
  /\ call \in [Session -> CallSet]
  /\ heap \in Seq(HeapSet)
  /\ locked \subseteq Files /\ torn \subseteq Session /\ full \in BOOLEAN
  /\ said \in SaidSet
  /\ calls \in 0 .. MaxCalls /\ dead \in BOOLEAN

LEMMA TypesAre == (TypeOK <=> Types) /\ (TypeOK' <=> Types')
BY DEF TypeOK, Types, Entry, Files, FileSet, UserSet, CallSet, HeapSet, SaidSet

LEMMA CountedIs ==
  /\ FilesCounted <=> \A f \in File : file[f].count = Cardinality(Held(f)) + Cardinality(Freed(f))
  /\ FilesCounted' <=> \A f \in File : file'[f].count = Cardinality(Held(f)') + Cardinality(Freed(f)')
BY DEF FilesCounted, Held, Freed

LEMMA ExactIs ==
  /\ RefsExact <=> \A i \in Files : refs[i] = left[i] + Cardinality(Using(i)) + Cardinality(Opening(i))
  /\ RefsExact' <=> \A i \in Files : refs'[i] = left'[i] + Cardinality(Using(i)') + Cardinality(Opening(i)')
BY DEF RefsExact, Files, Using, Opening

\* What changes neither descriptors nor the counts of File structures.
LEMMA CountedStill ==
  ASSUME FilesCounted, heap' = heap, \A s \in Session : user'[s].ofiles = user[s].ofiles,
         \A f \in File : file'[f].count = file[f].count
  PROVE  FilesCounted'
<1>1. \A f \in File : Held(f)' = Held(f)
  BY DEF Held
<1>2. \A f \in File : Freed(f)' = Freed(f)
  BY DEF Freed
<1> QED
  BY <1>1, <1>2, CountedIs

LEMMA UsingStill ==
  ASSUME \A f \in File : file'[f].count = file[f].count /\ file'[f].ino = file[f].ino
  PROVE  \A i : Using(i)' = Using(i)
BY DEF Using

LEMMA FilesAre == Inode \subseteq Files /\ Root \in Files /\ Root \notin Inode /\ Nobody \notin Files /\ Root = 0
BY SessionAssumption DEF Files, Root

LEMMA SetUserIs ==
  ASSUME Types, NEW s \in Session, NEW x \in Int, NEW b \in BOOLEAN, SetUser(s, x, b)
  PROVE  /\ user' \in [Session -> UserSet]
         /\ \A t \in Session : user'[t].ofiles = user[t].ofiles
         /\ \A t \in Session \ {s} : user'[t] = user[t]
         /\ user'[s].error = b /\ user'[s].eax = x
BY DEF Types, UserSet, SetUser

LEMMA CallIs ==
  ASSUME Types, NEW s \in Session, NEW c \in CallSet, call' = [call EXCEPT ![s] = c]
  PROVE  /\ call' \in [Session -> CallSet] /\ call'[s] = c
         /\ \A t \in Session \ {s} : call'[t] = call[t]
BY DEF Types

\* The locks' part of the type invariant.
Locks == locked' \subseteq Files /\ torn' \subseteq Session /\ full' \in BOOLEAN

LEMMA LocksStill ==
  ASSUME Types, UNCHANGED lockVars
  PROVE  Locks
BY DEF Types, Locks, lockVars

LEMMA UnlockIs ==
  ASSUME Types, NEW i, Unlock(i), full' = full
  PROVE  Locks
BY DEF Types, Locks, Unlock, Transferring

\* A call that is at pc with nothing else said of it.
LEMMA NoCallIs ==
  ASSUME NEW pc \in Pc, NEW c, c = NoCall(pc)
  PROVE  /\ c \in CallSet /\ c.pc = pc /\ c.cmd = "cd" /\ c.own = FALSE
         /\ pc \in {"idle", "hung"} => \A u : Sound(c, u)
<1>1. c = [pc |-> pc, cmd |-> "cd", ino |-> Root, mode |-> {}, fd |-> 0, file |-> Null, own |-> FALSE,
           path |-> "/", more |-> 0, off |-> 0, asked |-> 0, n |-> 0]
  BY DEF NoCall
<1>2. "cd" \in Command /\ {} \in Mode /\ 0 \in 0 .. MaxOff /\ Root \in Inode \cup {Root} /\ Null \in File \cup {Null}
  BY SessionAssumption DEF Command, Mode
<1>3. c \in CallSet
  BY <1>1, <1>2 DEF CallSet
<1>4. c.pc = pc /\ c.cmd = "cd" /\ c.own = FALSE
  BY <1>1
<1>5. pc \in {"idle", "hung"} => \A u : Sound(c, u)
  BY <1>4 DEF Sound
<1> QED
  BY <1>3, <1>4, <1>5

\* A command that has a descriptor.
Going(pc, cmd, fd, own, more, i) ==
  [pc |-> pc, cmd |-> cmd, ino |-> i, mode |-> {}, fd |-> fd, file |-> Null, own |-> own,
   path |-> "/", more |-> more, off |-> 0, asked |-> 0, n |-> 0]

LEMMA GoingIs ==
  ASSUME NEW pc \in Pc, NEW cmd \in Command, NEW fd \in Int, NEW own \in BOOLEAN, NEW more \in 0 .. 2,
         NEW i \in Files, NEW c, c = Going(pc, cmd, fd, own, more, i)
  PROVE  /\ c \in CallSet /\ c.pc = pc /\ c.cmd = cmd /\ c.fd = fd /\ c.own = own
         /\ c.more = more /\ c.ino = i /\ c.n = 0
<1>1. {} \in Mode /\ 0 \in 0 .. MaxOff /\ Null \in File \cup {Null}
  BY SessionAssumption DEF Mode
<1>2. c \in CallSet
  BY <1>1 DEF CallSet, Files, Going
<1> QED
  BY <1>2 DEF Going

LEMMA GoingFrom ==
  ASSUME NEW pc, NEW cmd, NEW fd, NEW own, NEW more, NEW i
  PROVE  [NoCall(pc) EXCEPT !.cmd = cmd, !.fd = fd, !.own = own, !.more = more, !.ino = i]
           = Going(pc, cmd, fd, own, more, i)
<1>1. PICK z : z = FALSE
  OBVIOUS
<1>2. PICK a : a = [pc |-> pc, cmd |-> "cd", ino |-> Root, mode |-> {}, fd |-> 0, file |-> Null, own |-> z,
               path |-> "/", more |-> 0, off |-> 0, asked |-> 0, n |-> 0]
  OBVIOUS
<1>3. a = NoCall(pc)
  BY <1>1, <1>2 DEF NoCall
<1>4. PICK b : b = [a EXCEPT !.cmd = cmd]
  OBVIOUS
<1>5. b = [pc |-> pc, cmd |-> cmd, ino |-> Root, mode |-> {}, fd |-> 0, file |-> Null, own |-> z,
               path |-> "/", more |-> 0, off |-> 0, asked |-> 0, n |-> 0]
  BY <1>4, <1>2
<1>6. PICK c : c = [b EXCEPT !.fd = fd]
  OBVIOUS
<1>7. c = [pc |-> pc, cmd |-> cmd, ino |-> Root, mode |-> {}, fd |-> fd, file |-> Null, own |-> z,
               path |-> "/", more |-> 0, off |-> 0, asked |-> 0, n |-> 0]
  BY <1>6, <1>5
<1>8. PICK d : d = [c EXCEPT !.own = own]
  OBVIOUS
<1>9. d = [pc |-> pc, cmd |-> cmd, ino |-> Root, mode |-> {}, fd |-> fd, file |-> Null, own |-> own,
               path |-> "/", more |-> 0, off |-> 0, asked |-> 0, n |-> 0]
  BY <1>8, <1>7
<1>10. PICK e : e = [d EXCEPT !.more = more]
  OBVIOUS
<1>11. e = [pc |-> pc, cmd |-> cmd, ino |-> Root, mode |-> {}, fd |-> fd, file |-> Null, own |-> own,
               path |-> "/", more |-> more, off |-> 0, asked |-> 0, n |-> 0]
  BY <1>10, <1>9
<1>12. PICK f : f = [e EXCEPT !.ino = i]
  OBVIOUS
<1>13. f = [pc |-> pc, cmd |-> cmd, ino |-> i, mode |-> {}, fd |-> fd, file |-> Null, own |-> own,
               path |-> "/", more |-> more, off |-> 0, asked |-> 0, n |-> 0]
  BY <1>12, <1>11
<1>14. f = [a EXCEPT !.cmd = cmd, !.fd = fd, !.own = own, !.more = more, !.ino = i]
  BY <1>4, <1>6, <1>8, <1>10, <1>12
<1> QED
  BY <1>3, <1>13, <1>14 DEF Going

LEMMA AnswerIs ==
  ASSUME NEW s \in Session, NEW c \in Command, NEW ok \in BOOLEAN, NEW asked \in Counts \cup {0}, NEW n \in Int,
         Answer(s, c, ok, asked, n)
  PROVE  said' \in SaidSet
BY DEF Answer, SaidSet

LEMMA SilenceIs == Silence \in SaidSet /\ Silence.cmd = "login"
<1>1. (CHOOSE s \in Session : TRUE) \in Session
  BY SessionAssumption
<1> QED
  BY <1>1 DEF Silence, SaidSet, Command

LEMMA ReturnIs ==
  ASSUME Types, NEW s \in Session, NEW c \in Command, NEW ok \in BOOLEAN, Return(s, c, ok)
  PROVE  /\ call' \in [Session -> CallSet] /\ call'[s].pc = "idle" /\ \A u : Sound(call'[s], u)
         /\ \A t \in Session \ {s} : call'[t] = call[t]
         /\ said' \in SaidSet
<1>1. PICK d : d = NoCall("idle")
  OBVIOUS
<1>2. call' = [call EXCEPT ![s] = d] /\ Answer(s, c, ok, 0, 0)
  BY <1>1 DEF Return
<1>3. said' \in SaidSet
  BY <1>2, AnswerIs
<1>4. d \in CallSet /\ d.pc = "idle" /\ \A u : Sound(d, u)
  BY <1>1, NoCallIs DEF Pc
<1> QED
  BY <1>2, <1>3, <1>4, CallIs

\* The command loops over what it has opened, with nothing moved yet.
LEMMA GoesOnIs ==
  ASSUME Types, NEW s \in Session, NEW c \in CallSet, NEW pc \in {"loop", "entry", "close"}, NEW i \in Files,
         GoesOn(s, c, pc, i), c.cmd \in Loopers
  PROVE  /\ call' \in [Session -> CallSet] /\ said' = said
         /\ \A t \in Session \ {s} : call'[t] = call[t]
         /\ call'[s].pc = pc /\ call'[s].cmd = c.cmd /\ call'[s].own = c.own
         /\ \A u : /\ pc = "close" => c.own /\ c.cmd # "ls"
                   /\ pc # "close" /\ c.cmd = "fin" => c.more = 2
                   /\ pc # "close" /\ ~c.own => c.cmd \in {"ls", "cat"} /\ u.error
                   => Sound(call'[s], u)
<1>1. PICK cmd \in Command : /\ cmd = c.cmd /\ cmd \notin {"login", "exit"} \cup Movers \cup {"touch"}
                            /\ cmd \in {"ls", "cat", "fout", "fin"}
  BY DEF CallSet, Loopers, Movers
<1>2. PICK fd \in Int : fd = c.fd
  BY DEF CallSet
<1>3. PICK own \in BOOLEAN : own = c.own
  BY DEF CallSet
<1>4. PICK more \in 0 .. 2 : more = c.more
  BY DEF CallSet
<1>5. PICK d : d = Going(pc, cmd, fd, own, more, i)
  OBVIOUS
<1>6. /\ d \in CallSet /\ d.pc = pc /\ d.cmd = cmd /\ d.fd = fd /\ d.own = own
      /\ d.more = more /\ d.ino = i /\ d.n = 0
  <2>1. pc \in Pc
    BY DEF Pc
  <2> QED
    BY <1>5, <2>1, GoingIs
<1>7. call' = [call EXCEPT ![s] = d] /\ said' = said
  <2>1. d = [NoCall(pc) EXCEPT !.cmd = cmd, !.fd = fd, !.own = own, !.more = more, !.ino = i]
    BY <1>5, GoingFrom
  <2> QED
    BY <1>1, <1>2, <1>3, <1>4, <2>1 DEF GoesOn
<1>8. /\ call' \in [Session -> CallSet] /\ call'[s] = d
      /\ \A t \in Session \ {s} : call'[t] = call[t]
  BY <1>6, <1>7, CallIs
<1>9. ASSUME NEW u, pc = "close" => own /\ cmd # "ls", pc # "close" /\ cmd = "fin" => more = 2,
             pc # "close" /\ ~own => cmd \in {"ls", "cat"} /\ u.error
      PROVE  Sound(d, u)
  BY <1>1, <1>6, <1>9 DEF Sound, Movers
<1> QED
  BY <1>1, <1>3, <1>4, <1>6, <1>7, <1>8, <1>9

LEMMA TruncateIs ==
  ASSUME Types, NEW i, Truncate(i) \/ UNCHANGED <<size, sparse>>
  PROVE  size' \in [Inode -> 0 .. MaxOff] /\ sparse' \subseteq Inode
<1>1. CASE Truncate(i)
  <2>1. size' = [j \in Inode |-> IF j = i THEN 0 ELSE size[j]] /\ sparse' = sparse \ {i}
    BY <1>1 DEF Truncate
  <2>2. 0 \in 0 .. MaxOff
    BY SessionAssumption
  <2> QED
    BY <2>1, <2>2 DEF Types
<1> QED
  BY <1>1 DEF Types

LEMMA IPutIs ==
  ASSUME Types, NEW i \in Files, IPut(i), full' = full, refs[i] > 0
  PROVE  /\ size' \in [Inode -> 0 .. MaxOff] /\ sparse' \subseteq Inode
         /\ Truncate(i) \/ UNCHANGED <<size, sparse>>
         /\ refs' \in [Files -> Nat] /\ refs' = [refs EXCEPT ![i] = @ - 1]
         /\ Locks
<1>1. Truncate(i) \/ UNCHANGED <<size, sparse>>
  BY DEF IPut
<1>2. size' \in [Inode -> 0 .. MaxOff] /\ sparse' \subseteq Inode
  BY <1>1, TruncateIs
<1>3. refs' = [refs EXCEPT ![i] = @ - 1] /\ refs \in [Files -> Nat]
  BY DEF IPut, Types
<1>4. Locks
  BY UnlockIs DEF IPut
<1> QED
  BY <1>1, <1>2, <1>3, <1>4

\* An open that fails: ls and cat go on with what EAX holds.
LEMMA NotOpenedIs ==
  ASSUME Types, NEW s \in Session, NEW c \in Command \ {"login", "exit"}, NEW x \in Int, NotOpened(s, c, x)
  PROVE  /\ user' \in [Session -> UserSet] /\ \A t \in Session : user'[t].ofiles = user[t].ofiles
         /\ \A t \in Session \ {s} : user'[t] = user[t] /\ call'[t] = call[t]
         /\ call' \in [Session -> CallSet] /\ said' \in SaidSet
         /\ call'[s].pc \in {"idle", "loop"} /\ Sound(call'[s], user'[s])
<1>1. /\ user' \in [Session -> UserSet] /\ user'[s].error = TRUE
      /\ \A t \in Session : user'[t].ofiles = user[t].ofiles
      /\ \A t \in Session \ {s} : user'[t] = user[t]
  BY SetUserIs DEF NotOpened
<1>2. CASE c \in {"ls", "cat"}
  <2>1. PICK d : d = [NoCall("loop") EXCEPT !.cmd = c, !.fd = x]
    OBVIOUS
  <2>2. PICK own \in BOOLEAN : own = FALSE /\ d = Going("loop", c, x, own, 0, Root)
    BY <2>1 DEF NoCall, Going
  <2>3. d \in CallSet /\ d.pc = "loop" /\ d.cmd = c /\ d.own = FALSE /\ d.n = 0
    <3>1. "loop" \in Pc /\ Root \in Files /\ 0 \in 0 .. 2 /\ c \in Command
      BY FilesAre DEF Pc
    <3> QED
      BY <2>2, <3>1, GoingIs
  <2>4. call' = [call EXCEPT ![s] = d] /\ said' = said
    BY <1>2, <2>1 DEF NotOpened
  <2>5. /\ call' \in [Session -> CallSet] /\ call'[s] = d
        /\ \A t \in Session \ {s} : call'[t] = call[t]
    BY <2>3, <2>4, CallIs
  <2>6. Sound(call'[s], user'[s])
    BY <1>1, <1>2, <2>3, <2>5 DEF Sound, Loopers, Movers
  <2> QED
    BY <1>1, <2>3, <2>4, <2>5, <2>6 DEF Types
<1>3. CASE c \notin {"ls", "cat"}
  <2>1. Return(s, c, FALSE)
    BY <1>3 DEF NotOpened
  <2> QED
    BY <1>1, <2>1, ReturnIs
<1> QED
  BY <1>2, <1>3

LEMMA ExactStill ==
  ASSUME RefsExact, Types, refs' \in [Files -> Nat], left' \in [Files -> Nat],
         \A f \in File : file'[f].count = file[f].count /\ file'[f].ino = file[f].ino,
         \A i \in Files : refs'[i] - left'[i] = refs[i] - left[i],
         \A t \in Session : \/ call'[t] = call[t]
                            \/ call[t].pc \notin {"find", "take"} /\ call'[t].pc \notin {"find", "take"}
                            \/ /\ call[t].pc \in {"find", "take"} /\ call'[t].pc \in {"find", "take"}
                               /\ call'[t].ino = call[t].ino
  PROVE  RefsExact'
<1>1. \A i \in Files : Using(i)' = Using(i)
  BY UsingStill
<1>2. \A i \in Files : Opening(i)' = Opening(i)
  BY DEF Opening
<1>3. ASSUME NEW i \in Files
      PROVE  refs'[i] = left'[i] + Cardinality(Using(i)') + Cardinality(Opening(i)')
  <2>1. Cardinality(Using(i)) \in Nat /\ Cardinality(Opening(i)) \in Nat
    BY Finite, FS_Subset, FS_CardinalityType DEF Using, Opening
  <2>2. refs[i] = left[i] + Cardinality(Using(i)) + Cardinality(Opening(i))
    BY ExactIs
  <2>3. refs[i] \in Nat /\ left[i] \in Nat /\ refs'[i] \in Nat /\ left'[i] \in Nat
    BY DEF Types
  <2>4. refs'[i] - left'[i] = refs[i] - left[i]
    OBVIOUS
  <2> QED
    BY <1>1, <1>2, <2>1, <2>2, <2>3, <2>4
<1> QED
  BY <1>3, ExactIs

\* The search from the start of a table finds the first of what it looks for.
LEMMA LowestIs ==
  ASSUME NEW S \in SUBSET Nat, S # {}
  PROVE  Lowest(S) \in S
<1>1. PICK m \in S : \A k \in S : ~ (<<k, m>> \in OpToRel(<, Nat))
  BY NatLessThanWellFounded, WFMin, Zenon
<1>2. ASSUME NEW k \in S, k < m PROVE FALSE
  <2>1. <<k, m>> \in {p \in Nat \X Nat : p[1] < p[2]}
    BY <1>2
  <2>2. <<k, m>> \in OpToRel(<, Nat)
    BY <2>1, Zenon DEF OpToRel
  <2> QED
    BY <1>1, <2>2
<1>3. \A k \in S : m <= k
  BY <1>2
<1> QED
  BY <1>3 DEF Lowest

LEMMA NameIIs ==
  ASSUME dir \in Seq(Entry), NEW path
  PROVE  NameI(path) \in Files \cup {Nobody} /\ (NameI(path) = Root <=> path = "/")
<1> DEFINE at == {k \in DOMAIN dir : dir[k].ino # 0 /\ dir[k].name = path}
<1>1. NameI(path) = IF path = "/" THEN Root ELSE IF at = {} THEN Nobody ELSE dir[Lowest(at)].ino
  BY DEF NameI
<1>2. CASE at # {} /\ path # "/"
  <2>1. at \in SUBSET Nat
    OBVIOUS
  <2>2. PICK k : k = Lowest(at)
    OBVIOUS
  <2>3. k \in at
    <3> HIDE DEF at
    <3> QED
      BY <1>2, <2>1, <2>2, LowestIs
  <2>4. k \in DOMAIN dir /\ dir[k].ino # 0 /\ dir[k] \in Entry
    BY <2>3
  <2>5. NameI(path) = dir[k].ino
    BY <1>1, <1>2, <2>2
  <2> QED
    BY <1>2, <2>4, <2>5, FilesAre DEF Entry
<1>3. CASE path = "/"
  BY <1>1, <1>3, FilesAre
<1>4. CASE at = {} /\ path # "/"
  BY <1>1, <1>4, FilesAre
<1> QED
  BY <1>2, <1>3, <1>4

LEMMA WriteDirIs ==
  ASSUME dir \in Seq(Entry), NEW n \in Name, NEW i \in Inode, WriteDir(n, i)
  PROVE  dir' \in Seq(Entry)
<1> DEFINE free == FreeEntries
<1>1. PICK e : e = [name |-> n, ino |-> i]
  OBVIOUS
<1>2. e \in Entry
  BY <1>1 DEF Entry
<1>3. dir' = IF free = {} THEN Append(dir, e) ELSE [dir EXCEPT ![Lowest(free)] = e]
  BY <1>1 DEF WriteDir
<1>4. Append(dir, e) \in Seq(Entry)
  BY <1>2
<1>5. CASE free # {}
  <2>1. PICK k : k = Lowest(free)
    OBVIOUS
  <2>2. free \in SUBSET Nat /\ free \subseteq DOMAIN dir
    BY DEF FreeEntries
  <2>3. k \in DOMAIN dir
    <3> HIDE DEF free
    <3> QED
      BY <1>5, <2>1, <2>2, LowestIs
  <2>4. [dir EXCEPT ![k] = e] \in Seq(Entry)
    BY <1>2, <2>3
  <2> QED
    BY <1>3, <1>5, <2>1, <2>4
<1> QED
  BY <1>3, <1>4, <1>5

LEMMA FoundIs ==
  ASSUME RefsExact, Types, NEW s \in Session, NEW c \in CallSet,
         c.cmd \in Openers, call[s].pc \notin {"find", "take"},
         NEW i \in Files, NEW mode \in Mode, i = Root => "write" \notin mode,
         Found(s, c, i, mode), UNCHANGED <<file, left>>
  PROVE  /\ refs' \in [Files -> Nat] /\ call' \in [Session -> CallSet] /\ said' = said
         /\ \A t \in Session \ {s} : call'[t] = call[t]
         /\ call'[s].pc = "find" /\ \A u : Sound(call'[s], u)
         /\ RefsExact'
<1>1. PICK d : d = [c EXCEPT !.pc = "find", !.ino = i, !.mode = mode]
  OBVIOUS
<1>2. d \in CallSet /\ d.pc = "find" /\ d.cmd = c.cmd /\ d.ino = i /\ d.mode = mode
  BY <1>1 DEF CallSet, Files, Pc
<1>3. call' = [call EXCEPT ![s] = d] /\ said' = said /\ refs' = [refs EXCEPT ![i] = @ + 1]
  BY <1>1 DEF Found, IGet
<1>4. /\ call' \in [Session -> CallSet] /\ call'[s] = d
      /\ \A t \in Session \ {s} : call'[t] = call[t]
  BY <1>2, <1>3, CallIs
<1>5. refs' \in [Files -> Nat]
  BY <1>3 DEF Types
<1>6. \A u : Sound(call'[s], u)
  BY <1>2, <1>4 DEF Sound, Openers
<1>7. ASSUME NEW j \in Files
      PROVE  refs'[j] = left'[j] + Cardinality(Using(j)') + Cardinality(Opening(j)')
  <2>1. Using(j)' = Using(j) /\ left'[j] = left[j]
    BY DEF Using
  <2>2. /\ Cardinality(Opening(j)) \in Nat /\ Cardinality(Opening(j)') \in Nat
        /\ Cardinality(Opening(j)') = Cardinality(Opening(j)) - IsOpening(call[s], j) + IsOpening(call'[s], j)
    BY <1>4, OpeningStep
  <2>3. IsOpening(call[s], j) = 0 /\ IsOpening(call'[s], j) = IF j = i THEN 1 ELSE 0
    BY <1>2, <1>4 DEF IsOpening
  <2>4. refs'[j] = refs[j] + IF j = i THEN 1 ELSE 0
    BY <1>3 DEF Types
  <2>5. Cardinality(Using(j)) \in Nat /\ refs[j] \in Nat /\ left[j] \in Nat
    BY Finite, FS_Subset, FS_CardinalityType DEF Using, Types
  <2>6. refs[j] = left[j] + Cardinality(Using(j)) + Cardinality(Opening(j))
    BY ExactIs
  <2> QED
    BY <2>1, <2>2, <2>3, <2>4, <2>5, <2>6
<1> QED
  BY <1>2, <1>3, <1>4, <1>5, <1>6, <1>7, ExactIs

LEMMA KeptStill ==
  ASSUME Kept, NEW s \in Session, Len(dir') <= MaxOff,
         \A f \in File : file'[f].ino = Root => "write" \notin file'[f].flag,
         \A t \in Session \ {s} : user'[t] = user[t] /\ call'[t] = call[t],
         Sound(call'[s], user'[s])
  PROVE  Kept'
BY DEF Kept

\* The steps of a session that change neither descriptors, File structures in use, nor
\* the references that somebody will give back.
Quiet(s) ==
  /\ dir' \in Seq(Entry) /\ Len(dir') <= MaxOff
  /\ size' \in [Inode -> 0 .. MaxOff] /\ sparse' \subseteq Inode
  /\ refs' \in [Files -> Nat] /\ left' \in [Files -> Nat]
  /\ \A i \in Files : refs'[i] - left'[i] = refs[i] - left[i]
  /\ file' \in [File -> FileSet]
  /\ \A f \in File : /\ file'[f].count = file[f].count /\ file'[f].ino = file[f].ino
                     /\ file'[f].flag = file[f].flag
  /\ user' \in [Session -> UserSet]
  /\ \A t \in Session : user'[t].ofiles = user[t].ofiles
  /\ \A t \in Session \ {s} : user'[t] = user[t] /\ call'[t] = call[t]
  /\ call' \in [Session -> CallSet]
  /\ call[s].pc \notin {"find", "take"} /\ call'[s].pc \notin {"find", "take"}
  /\ Sound(call'[s], user'[s])
  /\ Locks
  /\ heap' = heap /\ said' \in SaidSet /\ calls' \in 0 .. MaxCalls /\ dead' \in BOOLEAN

LEMMA QuietKeeps ==
  ASSUME Inv, NEW s \in Session, Quiet(s)
  PROVE  Inv'
<1>1. Types /\ FilesCounted /\ RefsExact /\ Kept
  BY TypesAre DEF Inv, CountsInv
<1>2. FilesCounted'
  BY <1>1, CountedStill DEF Quiet
<1>3. RefsExact'
  <2>1. \A t \in Session : \/ call'[t] = call[t]
                           \/ call[t].pc \notin {"find", "take"} /\ call'[t].pc \notin {"find", "take"}
    BY DEF Quiet
  <2> QED
    BY <1>1, <2>1, ExactStill DEF Quiet
<1>4. Types'
  BY <1>1 DEF Types, Quiet, Locks
<1>5. Kept'
  <2>1. \A f \in File : file'[f].ino = Root => "write" \notin file'[f].flag
    BY <1>1 DEF Kept, Quiet
  <2> QED
    BY <1>1, <2>1, KeptStill DEF Quiet
<1> QED
  BY <1>2, <1>3, <1>4, <1>5, TypesAre DEF Inv, CountsInv


LEMMA InvIs ==
  ASSUME Inv
  PROVE  /\ Types /\ FilesCounted /\ RefsExact /\ Kept
         /\ \A s \in Session : call[s] \in CallSet /\ user[s] \in UserSet /\ Sound(call[s], user[s])
BY TypesAre DEF Inv, CountsInv, Types, Kept

\* What leaves directory, files, references and File structures alone.
LEMMA StillQuiet ==
  ASSUME Inv, NEW s \in Session, UNCHANGED <<dir, size, sparse, refs, left, file, heap>>, Locks,
         calls' \in 0 .. MaxCalls, dead' \in BOOLEAN, said' \in SaidSet,
         user' \in [Session -> UserSet], \A t \in Session : user'[t].ofiles = user[t].ofiles,
         call' \in [Session -> CallSet],
         \A t \in Session \ {s} : user'[t] = user[t] /\ call'[t] = call[t],
         call[s].pc \notin {"find", "take"}, call'[s].pc \notin {"find", "take"},
         Sound(call'[s], user'[s])
  PROVE  Quiet(s)
<1>1. Types /\ Kept
  BY InvIs
<1> QED
  BY <1>1 DEF Quiet, Types, Kept

LEMMA NotOpenedQuiet ==
  ASSUME Inv, NEW s \in Session, NEW c \in Command \ {"login", "exit"}, NEW x \in Int, NotOpened(s, c, x),
         call[s].pc \notin {"find", "take"}, Locks, calls' \in 0 .. MaxCalls,
         UNCHANGED <<dir, size, sparse, refs, left, file, heap, dead>>
  PROVE  Quiet(s)
<1>1. Types
  BY InvIs
<1>2. /\ user' \in [Session -> UserSet] /\ \A t \in Session : user'[t].ofiles = user[t].ofiles
      /\ \A t \in Session \ {s} : user'[t] = user[t] /\ call'[t] = call[t]
      /\ call' \in [Session -> CallSet] /\ said' \in SaidSet
      /\ call'[s].pc \in {"idle", "loop"} /\ Sound(call'[s], user'[s])
  BY <1>1, NotOpenedIs
<1>3. dead' \in BOOLEAN
  BY <1>1 DEF Types
<1> QED
  BY <1>2, <1>3, StillQuiet

\* A command that waits for s_flock keeps its reference for ever.
LEMMA HangQuiet ==
  ASSUME Inv, NEW s \in Session, NEW i \in Files, NEW l \in Files, Hang(s, i, l),
         dir' \in Seq(Entry), Len(dir') <= MaxOff, call[s].pc \notin {"find", "take"},
         calls' \in 0 .. MaxCalls, UNCHANGED <<file, heap>>, dead' \in BOOLEAN
  PROVE  Quiet(s)
<1>1. Types /\ Kept
  BY InvIs
<1>2. /\ refs' = [refs EXCEPT ![i] = @ + 1] /\ left' = [left EXCEPT ![i] = @ + 1]
      /\ UNCHANGED <<size, sparse, torn, full, user, said>> /\ locked' = locked \cup {l}
  BY DEF Hang, IGet
<1>3. PICK c : c = NoCall("hung")
  OBVIOUS
<1>4. c \in CallSet /\ c.pc = "hung" /\ \A u : Sound(c, u)
  BY <1>3, NoCallIs DEF Pc
<1>5. call' = [call EXCEPT ![s] = c]
  BY <1>3 DEF Hang
<1>6. /\ call' \in [Session -> CallSet] /\ call'[s] = c
      /\ \A t \in Session \ {s} : call'[t] = call[t]
  BY <1>1, <1>4, <1>5, CallIs
<1>7. refs' \in [Files -> Nat] /\ left' \in [Files -> Nat]
  BY <1>1, <1>2 DEF Types
<1>8. \A j \in Files : refs'[j] - left'[j] = refs[j] - left[j]
  BY <1>1, <1>2 DEF Types
<1>9. Locks
  BY <1>1, <1>2 DEF Locks, Types
<1>10. Sound(call'[s], user'[s])
  BY <1>4, <1>6
<1> QED
  BY <1>1, <1>2, <1>4, <1>6, <1>7, <1>8, <1>9, <1>10 DEF Quiet, Types

LEMMA SetUserZero ==
  ASSUME Types, NEW s \in Session, NEW b \in BOOLEAN, SetUser(s, 0, b)
  PROVE  /\ user' \in [Session -> UserSet]
         /\ \A t \in Session : user'[t].ofiles = user[t].ofiles
         /\ \A t \in Session \ {s} : user'[t] = user[t]
         /\ user'[s].error = b /\ user'[s].eax = 0
<1>1. PICK x \in Int : x = 0
  OBVIOUS
<1>2. SetUser(s, x, b)
  BY <1>1
<1>3. /\ user' \in [Session -> UserSet]
      /\ \A t \in Session : user'[t].ofiles = user[t].ofiles
      /\ \A t \in Session \ {s} : user'[t] = user[t]
      /\ user'[s].error = b /\ user'[s].eax = x
  BY <1>2, SetUserIs
<1> QED
  BY <1>1, <1>3

\* Open1 has found an inode to open.
LEMMA FoundKeeps ==
  ASSUME Inv, NEW s \in Session, NEW c \in CallSet, c.cmd \in Openers, call[s].pc \notin {"find", "take"},
         NEW i \in Files, NEW mode \in Mode, i = Root => "write" \notin mode, Found(s, c, i, mode),
         user' \in [Session -> UserSet], \A t \in Session : user'[t].ofiles = user[t].ofiles,
         \A t \in Session \ {s} : user'[t] = user[t], UNCHANGED <<file, left, heap, dead>>,
         dir' \in Seq(Entry), Len(dir') <= MaxOff,
         size' \in [Inode -> 0 .. MaxOff], sparse' \subseteq Inode, Locks, calls' \in 0 .. MaxCalls
  PROVE  Inv'
<1>1. Types /\ FilesCounted /\ RefsExact /\ Kept
  BY InvIs
<1>3. /\ refs' \in [Files -> Nat] /\ call' \in [Session -> CallSet] /\ said' = said
      /\ \A t \in Session \ {s} : call'[t] = call[t]
      /\ call'[s].pc = "find" /\ \A u : Sound(call'[s], u)
      /\ RefsExact'
  BY <1>1, FoundIs
<1>4. FilesCounted'
  BY <1>1, CountedStill
<1>5. Types'
  BY <1>1, <1>3 DEF Types, Locks
<1>6. Kept'
  <2>1. Sound(call'[s], user'[s])
    BY <1>3
  <2> QED
    BY <1>1, <1>3, <2>1, KeptStill DEF Kept
<1> QED
  BY <1>3, <1>4, <1>5, <1>6, TypesAre DEF Inv, CountsInv

\* Open1 for a name that is there.
LEMMA SysOpenKeeps ==
  ASSUME Inv, NEW s \in Session, NEW c \in CallSet, c.cmd \in Openers, call[s].pc \notin {"find", "take"},
         NEW mode \in Mode, Sys_Open(s, c, mode), calls' \in 0 .. MaxCalls
  PROVE  Inv'
<1>1. Types /\ Kept /\ user[s] \in UserSet
  BY InvIs
<1>2. UNCHANGED <<dir, size, sparse, left, file, heap, lockVars, dead>> /\ Locks
  <2>1. UNCHANGED lockVars
    BY DEF Sys_Open
  <2> QED
    BY <1>1, <2>1, LocksStill DEF Sys_Open
<1>3. PICK i \in Files \cup {Nobody} : i = NameI(c.path)
  BY <1>1, NameIIs DEF Types
<1>4. PICK x \in Int : x = user[s].eax
  BY <1>1 DEF UserSet
<1>5. CASE i # Nobody /\ Loadable(i) /\ ~(i = Root /\ "write" \in mode)
  <2>1. Found(s, c, i, mode) /\ SetUser(s, x, FALSE)
    BY <1>3, <1>4, <1>5 DEF Sys_Open
  <2>2. i \in Files /\ (i = Root => "write" \notin mode)
    BY <1>5
  <2>3. /\ dir' \in Seq(Entry) /\ Len(dir') <= MaxOff
        /\ size' \in [Inode -> 0 .. MaxOff] /\ sparse' \subseteq Inode
    BY <1>1, <1>2 DEF Types, Kept
  <2>4. /\ user' \in [Session -> UserSet]
        /\ \A t \in Session : user'[t].ofiles = user[t].ofiles
        /\ \A t \in Session \ {s} : user'[t] = user[t]
    BY <1>1, <2>1, SetUserIs
  <2> QED
    BY <1>2, <2>1, <2>2, <2>3, <2>4, FoundKeeps
<1>6. CASE ~(i # Nobody /\ Loadable(i) /\ ~(i = Root /\ "write" \in mode))
  <2>1. NotOpened(s, c.cmd, x) /\ refs' = refs
    BY <1>3, <1>4, <1>6 DEF Sys_Open
  <2>2. c.cmd \in Command \ {"login", "exit"}
    BY DEF CallSet, Openers
  <2>3. Quiet(s)
    BY <1>2, <2>1, <2>2, NotOpenedQuiet
  <2> QED
    BY <2>3, QuietKeeps
<1> QED
  BY <1>5, <1>6

LEMMA CreatThereKeeps ==
  ASSUME Inv, NEW s \in Session, NEW c \in CallSet, c.cmd \in Openers, call[s].pc \notin {"find", "take"},
         c.path # "/", CreatThere(s, c), UNCHANGED <<file, heap, dead>>, calls' \in 0 .. MaxCalls
  PROVE  Inv'
<1>1. Types /\ Kept
  BY InvIs
<1>2. PICK i \in Inode : i = NameI(c.path)
  <2>1. NameI(c.path) # Nobody
    BY DEF CreatThere
  <2> QED
    BY <1>1, <2>1, NameIIs DEF Types, Files
<1>3. i \in Files /\ i # Root /\ dir' = dir /\ dir' \in Seq(Entry) /\ Len(dir') <= MaxOff /\ dead' \in BOOLEAN
  <2>1. dir' = dir
    BY DEF CreatThere
  <2> QED
    BY <1>1, <2>1, FilesAre DEF Types, Kept
<1>4. c.cmd \in Command \ {"login", "exit"}
  BY DEF CallSet, Openers
<1>5. \/ /\ Truncate(i) /\ Found(s, c, i, {"write"}) /\ SetUser(s, 0, FALSE)
         /\ UNCHANGED left /\ UNCHANGED lockVars
      \/ Hang(s, i, i)
      \/ NotOpened(s, c.cmd, 0) /\ UNCHANGED <<size, sparse, refs, left>> /\ UNCHANGED lockVars
  BY <1>2 DEF CreatThere
<1>6. CASE /\ Truncate(i) /\ Found(s, c, i, {"write"}) /\ SetUser(s, 0, FALSE)
           /\ UNCHANGED left /\ UNCHANGED lockVars
  <2>1. size' \in [Inode -> 0 .. MaxOff] /\ sparse' \subseteq Inode
    BY <1>1, <1>6, TruncateIs
  <2>2. PICK m \in Mode : m = {"write"}
    BY DEF Mode
  <2>3. Found(s, c, i, m)
    BY <1>6, <2>2
  <2>5. /\ user' \in [Session -> UserSet]
        /\ \A t \in Session : user'[t].ofiles = user[t].ofiles
        /\ \A t \in Session \ {s} : user'[t] = user[t]
    BY <1>1, <1>6, SetUserZero
  <2>4. Locks
    BY <1>1, <1>6, LocksStill
  <2> QED
    BY <1>3, <1>6, <2>1, <2>3, <2>4, <2>5, FoundKeeps
<1>7. CASE Hang(s, i, i)
  BY <1>3, <1>7, HangQuiet, QuietKeeps
<1>8. CASE NotOpened(s, c.cmd, 0) /\ UNCHANGED <<size, sparse, refs, left>> /\ UNCHANGED lockVars
  <2>1. Locks
    BY <1>1, <1>8, LocksStill
  <2>2. Quiet(s)
    BY <1>3, <1>4, <1>8, <2>1, NotOpenedQuiet
  <2> QED
    BY <2>2, QuietKeeps
<1> QED
  BY <1>5, <1>6, <1>7, <1>8

LEMMA CreatNewKeeps ==
  ASSUME Inv, NEW s \in Session, NEW c \in CallSet, c.cmd \in Openers, call[s].pc \notin {"find", "take"},
         c.path \in Name, CreatNew(s, c), UNCHANGED <<file, heap, dead>>, calls' \in 0 .. MaxCalls
  PROVE  Inv'
<1>1. Types /\ Kept /\ dead' \in BOOLEAN
  BY InvIs DEF Types
<1>2. c.cmd \in Command \ {"login", "exit"}
  BY DEF CallSet, Openers
<1>3. dir \in Seq(Entry) /\ Len(dir) \in Nat /\ Len(dir) <= MaxOff /\ MaxOff \in Nat
  BY <1>1, SessionAssumption DEF Types, Kept
<1>4. \/ \E j \in FreeInodes :
             /\ WriteDir(c.path, j) /\ Found(s, c, j, {"write"}) /\ SetUser(s, 0, FALSE)
             /\ (FreeEntries = {} => Len(dir) < MaxOff) /\ UNCHANGED <<size, sparse, left>> /\ UNCHANGED lockVars
      \/ /\ full' \in BOOLEAN /\ NotOpened(s, c.cmd, 0)
         /\ UNCHANGED <<dir, size, sparse, refs, left, locked, torn>>
      \/ (\E j \in FreeInodes : Hang(s, j, Root)) /\ UNCHANGED dir
      \/ /\ locked' = locked \cup {Root} /\ NotOpened(s, c.cmd, 0)
         /\ UNCHANGED <<dir, size, sparse, refs, left, torn, full>>
  BY DEF CreatNew
<1>5. ASSUME NEW j \in FreeInodes, WriteDir(c.path, j), Found(s, c, j, {"write"}), SetUser(s, 0, FALSE),
             FreeEntries = {} => Len(dir) < MaxOff, UNCHANGED <<size, sparse, left>>, UNCHANGED lockVars
      PROVE  Inv'
  <2>1. j \in Inode /\ j \in Files /\ j # Root
    BY FilesAre DEF FreeInodes
  <2>2. PICK m \in Mode : m = {"write"}
    BY DEF Mode
  <2>3. dir' \in Seq(Entry)
    BY <1>3, <1>5, <2>1, WriteDirIs
  <2>4. Len(dir') <= MaxOff
    <3>1. PICK e : e = [name |-> c.path, ino |-> j]
      OBVIOUS
    <3>2. dir' = IF FreeEntries = {} THEN Append(dir, e) ELSE [dir EXCEPT ![Lowest(FreeEntries)] = e]
      BY <1>5, <3>1 DEF WriteDir
    <3>3. CASE FreeEntries = {}
      BY <1>3, <1>5, <3>2, <3>3
    <3>4. CASE FreeEntries # {}
      <4>1. PICK k : k = Lowest(FreeEntries)
        OBVIOUS
      <4>2. dir' = [dir EXCEPT ![k] = e]
        BY <3>2, <3>4, <4>1
      <4>3. k \in 1 .. Len(dir)
        <5>1. FreeEntries \subseteq 1 .. Len(dir)
          BY <1>3 DEF FreeEntries
        <5>2. FreeEntries \in SUBSET Nat
          BY <5>1
        <5>3. k \in FreeEntries
          BY <3>4, <4>1, <5>2, LowestIs
        <5> QED
          BY <5>1, <5>3
      <4>4. e \in Entry
        BY <2>1, <3>1 DEF Entry
      <4>5. Len(dir') = Len(dir)
        BY <1>3, <4>2, <4>3, <4>4, ExceptSeq
      <4> QED
        BY <1>3, <4>5
    <3> QED
      BY <3>3, <3>4
  <2>5. size' \in [Inode -> 0 .. MaxOff] /\ sparse' \subseteq Inode
    BY <1>1, <1>5 DEF Types
  <2>6. Locks
    BY <1>1, <1>5, LocksStill
  <2>7. Found(s, c, j, m)
    BY <1>5, <2>2
  <2>8. /\ user' \in [Session -> UserSet]
        /\ \A t \in Session : user'[t].ofiles = user[t].ofiles
        /\ \A t \in Session \ {s} : user'[t] = user[t]
    BY <1>1, <1>5, SetUserZero
  <2> QED
    BY <1>5, <2>1, <2>3, <2>4, <2>5, <2>6, <2>7, <2>8, FoundKeeps
<1>6. CASE /\ full' \in BOOLEAN /\ NotOpened(s, c.cmd, 0)
           /\ UNCHANGED <<dir, size, sparse, refs, left, locked, torn>>
  <2>1. Locks
    BY <1>1, <1>6 DEF Locks, Types
  <2>2. Quiet(s)
    BY <1>2, <1>6, <2>1, NotOpenedQuiet
  <2> QED
    BY <2>2, QuietKeeps
<1>7. CASE (\E j \in FreeInodes : Hang(s, j, Root)) /\ UNCHANGED dir
  <2>1. PICK j \in FreeInodes : Hang(s, j, Root)
    BY <1>7
  <2>2. j \in Files /\ Root \in Files
    BY FilesAre DEF FreeInodes
  <2>3. dir' \in Seq(Entry) /\ Len(dir') <= MaxOff
    BY <1>3, <1>7
  <2> QED
    BY <1>1, <2>1, <2>2, <2>3, HangQuiet, QuietKeeps
<1>8. CASE /\ locked' = locked \cup {Root} /\ NotOpened(s, c.cmd, 0)
           /\ UNCHANGED <<dir, size, sparse, refs, left, torn, full>>
  <2>1. Locks
    BY <1>1, <1>8, FilesAre DEF Locks, Types
  <2>2. Quiet(s)
    BY <1>2, <1>8, <2>1, NotOpenedQuiet
  <2> QED
    BY <2>2, QuietKeeps
<1> QED
  BY <1>4, <1>5, <1>6, <1>7, <1>8

\* Open1 for a name to be created or emptied.
LEMMA SysCreatKeeps ==
  ASSUME Inv, NEW s \in Session, NEW c \in CallSet, c.cmd \in Openers, call[s].pc \notin {"find", "take"},
         c.path # "/", Sys_Creat(s, c), calls' \in 0 .. MaxCalls
  PROVE  Inv'
<1>1. c.path \in Name
  BY DEF CallSet
<1> QED
  BY <1>1, CreatThereKeeps, CreatNewKeeps DEF Sys_Creat

\* The reference of an open in progress.
LEMMA OpeningHasRef ==
  ASSUME RefsExact, Types, NEW s \in Session, call[s].pc \in {"find", "take"}, NEW i, i = call[s].ino
  PROVE  i \in Files /\ refs[i] > 0
<1>1. i \in Files
  BY DEF Types, CallSet, Files
<1>2. PICK S : S = Opening(i)
  OBVIOUS
<1>3. IsFiniteSet(S) /\ s \in S
  BY <1>2, Finite, FS_Subset DEF Opening
<1>4. Cardinality(S) \in Nat /\ Cardinality(S) # 0
  BY <1>3, FS_CardinalityType, FS_EmptySet
<1>5. Cardinality(Using(i)) \in Nat /\ left[i] \in Nat
  BY <1>1, Finite, FS_Subset, FS_CardinalityType DEF Using, Types
<1>6. refs[i] = left[i] + Cardinality(Using(i)) + Cardinality(S)
  BY <1>1, <1>2, ExactIs
<1> QED
  BY <1>1, <1>4, <1>5, <1>6

LEMMA FindFileKeeps ==
  ASSUME Inv, NEW s \in Session, FindFile(s)
  PROVE  Inv'
<1>1. Types /\ FilesCounted /\ RefsExact /\ Kept
  BY TypesAre DEF Inv, CountsInv
<1>2. UNCHANGED <<dir, left, file, heap, full, calls, dead>> /\ call[s].pc = "find"
  BY DEF FindFile
<1>3. call[s] \in CallSet /\ user[s] \in UserSet
  BY <1>1 DEF Types
<1>4. CASE FreeFds(s) # {} /\ FreeFiles # {} /\ call'[s].pc = "take"
  <2>1. PICK d : d = Lowest(FreeFds(s))
    OBVIOUS
  <2>2. PICK f : f = Lowest(FreeFiles)
    OBVIOUS
  <2>3. PICK b \in BOOLEAN : b = user[s].error
    BY <1>3 DEF UserSet
  <2>4. d \in Fd /\ user[s].ofiles[d] = Null /\ d \in Int
    <3>1. FreeFds(s) \subseteq Nat /\ FreeFds(s) # {}
      BY <1>4, Finite DEF FreeFds
    <3>2. d \in FreeFds(s)
      BY <2>1, <3>1, LowestIs
    <3> QED
      BY <3>1, <3>2 DEF FreeFds
  <2>5. f \in File
    <3>1. FreeFiles \subseteq Nat /\ FreeFiles # {}
      BY <1>4, Finite DEF FreeFiles
    <3>2. f \in FreeFiles
      BY <2>2, <3>1, LowestIs
    <3> QED
      BY <3>1, <3>2 DEF FreeFiles
  <2>6. PICK c : c = [call[s] EXCEPT !.pc = "take", !.fd = d, !.file = f]
    OBVIOUS
  <2>7. /\ c \in CallSet /\ c.pc = "take" /\ c.ino = call[s].ino /\ c.mode = call[s].mode
        /\ c.cmd = call[s].cmd /\ c.fd = d /\ c.file = f
    BY <1>3, <2>4, <2>5, <2>6 DEF CallSet, Pc
  <2>8. /\ SetUser(s, d, b)
        /\ call' = [call EXCEPT ![s].pc = "take", ![s].fd = d, ![s].file = f]
        /\ UNCHANGED <<size, sparse, refs, locked, torn, said>>
    BY <1>4, <2>1, <2>2, <2>3 DEF FindFile
  <2>9. call' = [call EXCEPT ![s] = c]
    BY <1>1, <2>6, <2>8 DEF Types
  <2>10. /\ user' \in [Session -> UserSet]
         /\ \A t \in Session : user'[t].ofiles = user[t].ofiles
         /\ \A t \in Session \ {s} : user'[t] = user[t]
    BY <1>1, <2>4, <2>8, SetUserIs
  <2>11. /\ call' \in [Session -> CallSet] /\ call'[s] = c
         /\ \A t \in Session \ {s} : call'[t] = call[t]
    BY <1>1, <2>7, <2>9, CallIs
  <2>12. FilesCounted'
    BY <1>1, <1>2, <2>10, CountedStill
  <2>13. Types'
    BY <1>1, <1>2, <2>8, <2>10, <2>11 DEF Types
  <2>14. RefsExact'
    <3>1. \A t \in Session : \/ call'[t] = call[t]
                             \/ /\ call[t].pc \in {"find", "take"} /\ call'[t].pc \in {"find", "take"}
                                /\ call'[t].ino = call[t].ino
      BY <1>2, <2>7, <2>11
    <3>2. refs' \in [Files -> Nat] /\ left' \in [Files -> Nat]
      BY <2>13 DEF Types
    <3> QED
      BY <1>1, <1>2, <2>8, <3>1, <3>2, ExactStill
  <2>15. Kept'
    <3>1. Sound(call[s], user[s])
      BY <1>1 DEF Kept
    <3>2. Sound(call'[s], user'[s])
      BY <3>1, <1>2, <2>4, <2>5, <2>7, <2>10, <2>11 DEF Sound
    <3> QED
      BY <1>1, <1>2, <2>10, <2>11, <3>2, KeptStill DEF Kept
  <2> QED
    BY <2>12, <2>13, <2>14, <2>15, TypesAre DEF Inv, CountsInv
<1>5. CASE FreeFds(s) = {} \/ FreeFiles = {}
  <2>1. PICK x : x = IF FreeFds(s) = {} THEN -1 ELSE Lowest(FreeFds(s))
    OBVIOUS
  <2>2. x \in Int
    <3>1. FreeFds(s) \subseteq Nat
      BY Finite DEF FreeFds
    <3>2. FreeFds(s) # {} => Lowest(FreeFds(s)) \in FreeFds(s)
      BY <3>1, LowestIs
    <3> QED
      BY <2>1, <3>1, <3>2
  <2>3. PICK cmd : cmd = call[s].cmd
    OBVIOUS
  <2>4. PICK i : i = call[s].ino
    OBVIOUS
  <2>5. cmd \in Command \ {"login", "exit"}
    BY <1>1, <1>3, <2>3 DEF Kept, Sound, CallSet
  <2>6. NotOpened(s, cmd, x) /\ IPut(i)
    <3>1. NotOpened(s, call[s].cmd, IF FreeFds(s) = {} THEN -1 ELSE Lowest(FreeFds(s))) /\ IPut(call[s].ino)
      BY <1>5 DEF FindFile
    <3> QED
      BY <3>1, <2>1, <2>3, <2>4 DEF NotOpened, SetUser, Return, Answer, IPut, Truncate, Unlock, Frees
  <2>7. /\ user' \in [Session -> UserSet] /\ \A t \in Session : user'[t].ofiles = user[t].ofiles
        /\ \A t \in Session \ {s} : user'[t] = user[t] /\ call'[t] = call[t]
        /\ call' \in [Session -> CallSet] /\ said' \in SaidSet
        /\ call'[s].pc \in {"idle", "loop"} /\ Sound(call'[s], user'[s])
    BY <1>1, <2>2, <2>5, <2>6, NotOpenedIs
  <2>8. i \in Files /\ refs[i] > 0
    BY <1>1, <1>2, <2>4, OpeningHasRef
  <2>9. /\ size' \in [Inode -> 0 .. MaxOff] /\ sparse' \subseteq Inode
        /\ refs' \in [Files -> Nat] /\ refs' = [refs EXCEPT ![i] = @ - 1]
        /\ Locks
    BY <1>1, <1>2, <2>6, <2>8, IPutIs
  <2>10. FilesCounted'
    BY <1>1, <1>2, <2>7, CountedStill
  <2>11. Types'
    BY <1>1, <1>2, <2>7, <2>9 DEF Types, Locks
  <2>12. ASSUME NEW j \in Files
         PROVE  refs'[j] = left'[j] + Cardinality(Using(j)') + Cardinality(Opening(j)')
    <3>1. Using(j)' = Using(j) /\ left'[j] = left[j]
      BY <1>2 DEF Using
    <3>2. /\ Cardinality(Opening(j)) \in Nat /\ Cardinality(Opening(j)') \in Nat
          /\ Cardinality(Opening(j)') = Cardinality(Opening(j)) - IsOpening(call[s], j) + IsOpening(call'[s], j)
      BY <2>7, OpeningStep
    <3>3. IsOpening(call'[s], j) = 0 /\ IsOpening(call[s], j) = IF j = i THEN 1 ELSE 0
      BY <1>2, <2>4, <2>7 DEF IsOpening
    <3>4. refs'[j] = refs[j] - IF j = i THEN 1 ELSE 0
      BY <1>1, <2>9 DEF Types
    <3>5. Cardinality(Using(j)) \in Nat /\ refs[j] \in Nat /\ left[j] \in Nat
      BY <1>1, Finite, FS_Subset, FS_CardinalityType DEF Using, Types
    <3>6. refs[j] = left[j] + Cardinality(Using(j)) + Cardinality(Opening(j))
      BY <1>1, ExactIs
    <3> QED
      BY <3>1, <3>2, <3>3, <3>4, <3>5, <3>6
  <2>13. Kept'
    BY <1>1, <1>2, <2>7, KeptStill DEF Kept
  <2> QED
    BY <2>10, <2>11, <2>12, <2>13, ExactIs, TypesAre DEF Inv, CountsInv
<1>6. \/ FreeFds(s) # {} /\ FreeFiles # {} /\ call'[s].pc = "take"
      \/ FreeFds(s) = {} \/ FreeFiles = {}
  BY <1>1 DEF FindFile, Types, CallSet
<1> QED
  BY <1>4, <1>5, <1>6

LEMMA OpenedIs ==
  ASSUME Types, NEW s \in Session, Sound(call[s], user[s]), Opened(s), call[s].cmd \in Openers
  PROVE  /\ call' \in [Session -> CallSet] /\ said' \in SaidSet
         /\ \A t \in Session \ {s} : call'[t] = call[t]
         /\ call'[s].pc \in {"idle", "reopen", "loop", "close"} /\ \A u : Sound(call'[s], u)
<1>1. PICK c \in CallSet : c = call[s]
  BY DEF Types
<1>2. PICK cmd \in Openers : cmd = c.cmd /\ cmd \in Command
  BY <1>1 DEF CallSet
<1>3. PICK fd \in Int : fd = c.fd
  BY DEF CallSet
<1>4. PICK more \in 0 .. 2 : more = c.more
  BY DEF CallSet
<1>5. CASE cmd = "open"
  <2>1. Answer(s, "open", TRUE, 0, fd) /\ call' = [call EXCEPT ![s] = NoCall("idle")]
    BY <1>1, <1>2, <1>3, <1>5 DEF Opened
  <2>2. PICK ok \in BOOLEAN : ok = TRUE
    OBVIOUS
  <2>3. said' = [by |-> s, cmd |-> "open", ok |-> ok, asked |-> 0, n |-> fd]
    BY <2>1, <2>2 DEF Answer
  <2>4. said' \in SaidSet
    BY <2>3 DEF SaidSet, Command
  <2>5. PICK d : d = NoCall("idle")
    OBVIOUS
  <2>6. d \in CallSet /\ d.pc = "idle" /\ \A u : Sound(d, u)
    BY <2>5, NoCallIs DEF Pc
  <2> QED
    BY <2>1, <2>4, <2>5, <2>6, CallIs
<1>6. CASE cmd = "touch"
  <2>1. Return(s, "touch", TRUE)
    BY <1>1, <1>2, <1>6 DEF Opened
  <2> QED
    BY <2>1, ReturnIs DEF Command
<1>7. CASE cmd = "fin" /\ more = 0
  <2>1. PICK d : d = [c EXCEPT !.pc = "reopen"]
    OBVIOUS
  <2>2. d \in CallSet /\ d.pc = "reopen" /\ d.cmd = "fin"
    BY <1>2, <1>7, <2>1 DEF CallSet, Pc
  <2>3. call' = [call EXCEPT ![s].pc = "reopen"] /\ said' = said
    BY <1>1, <1>2, <1>4, <1>7 DEF Opened
  <2>4. call' = [call EXCEPT ![s] = d]
    BY <1>1, <2>1, <2>3 DEF Types
  <2>5. \A u : Sound(d, u)
    BY <2>2 DEF Sound
  <2>6. /\ call' \in [Session -> CallSet] /\ call'[s] = d
        /\ \A t \in Session \ {s} : call'[t] = call[t]
    BY <2>2, <2>4, CallIs
  <2> QED
    BY <2>2, <2>3, <2>5, <2>6 DEF Types
<1>8. CASE cmd \notin {"open", "touch"} /\ ~(cmd = "fin" /\ more = 0)
  <2>1. PICK pc \in {"loop", "close"} : pc = Further(c) /\ (pc = "loop" /\ cmd = "fin" => more = 2)
    BY <1>2, <1>4, <1>8 DEF Further
  <2>2. PICK own \in BOOLEAN : own = TRUE
    OBVIOUS
  <2>3. PICK d : d = [c EXCEPT !.own = own]
    OBVIOUS
  <2>4. d \in CallSet /\ d.cmd = cmd /\ d.own = own /\ d.more = more
    BY <1>2, <1>4, <2>3 DEF CallSet
  <2>5. GoesOn(s, d, pc, Root)
    BY <1>1, <1>2, <1>4, <1>8, <2>1, <2>2, <2>3 DEF Opened
  <2>6. d.cmd \in Loopers
    BY <1>2, <1>8, <2>4 DEF Openers, Loopers
  <2>7. pc \in {"loop", "entry", "close"} /\ Root \in Files
    BY FilesAre
  <2>8. /\ call' \in [Session -> CallSet] /\ said' = said
        /\ \A t \in Session \ {s} : call'[t] = call[t]
        /\ call'[s].pc = pc
        /\ \A u : /\ pc = "close" => d.own /\ d.cmd # "ls"
                  /\ pc # "close" /\ d.cmd = "fin" => d.more = 2
                  /\ pc # "close" /\ ~d.own => d.cmd \in {"ls", "cat"} /\ u.error
                  => Sound(call'[s], u)
    BY <2>4, <2>5, <2>6, <2>7, GoesOnIs
  <2>9. \A u : Sound(call'[s], u)
    <3>1. pc = "close" => cmd = "fin"
      BY <1>2, <2>1 DEF Further
    <3>2. CASE pc = "close"
      BY <2>2, <2>4, <2>8, <3>1, <3>2
    <3>3. CASE pc = "loop"
      BY <2>1, <2>2, <2>4, <2>8, <3>3
    <3> QED
      BY <3>2, <3>3
  <2> QED
    BY <2>1, <2>8, <2>9 DEF Types
<1> QED
  BY <1>5, <1>6, <1>7, <1>8

LEMMA TakeFileKeeps ==
  ASSUME Inv, NEW s \in Session, TakeFile(s)
  PROVE  Inv'
<1>1. Types /\ FilesCounted /\ RefsExact /\ Kept
  BY TypesAre DEF Inv, CountsInv
<1>2. /\ UNCHANGED <<dir, size, sparse, refs, heap, locked, full, calls, dead>> /\ call[s].pc = "take"
      /\ Opened(s) /\ call[s] \in CallSet /\ user[s] \in UserSet /\ Sound(call[s], user[s])
  BY <1>1 DEF TakeFile, Types, Kept
<1>3. PICK f \in File : f = call[s].file
  BY <1>2 DEF Sound
<1>4. PICK d \in Fd : d = call[s].fd /\ user[s].ofiles[d] = Null
  BY <1>2 DEF Sound
<1>5. PICK i \in Files : i = call[s].ino
  BY <1>2 DEF CallSet, Files
<1>6. PICK mode \in Mode : mode = call[s].mode
  BY <1>2 DEF CallSet
<1>7. PICK old \in FileSet : old = file[f]
  BY <1>1 DEF Types
<1>8. PICK new : new = [count |-> old.count + 1, flag |-> mode, off |-> 0, ino |-> i]
  OBVIOUS
<1>9. new \in FileSet /\ new.count = old.count + 1 /\ new.ino = i /\ new.flag = mode
  BY <1>7, <1>8, SessionAssumption DEF FileSet, Files
<1>10. /\ user' = [user EXCEPT ![s].ofiles[d] = f]
       /\ file' = [file EXCEPT ![f] = new]
       /\ left' = IF old.count = 0 THEN left ELSE [left EXCEPT ![old.ino] = @ + 1]
  BY <1>3, <1>4, <1>5, <1>6, <1>7, <1>8 DEF TakeFile
<1>11. file' \in [File -> FileSet] /\ file'[f] = new /\ \A g \in File \ {f} : file'[g] = file[g]
  BY <1>1, <1>9, <1>10 DEF Types
<1>12. /\ user' \in [Session -> UserSet] /\ user'[s].ofiles[d] = f
       /\ \A t \in Session \ {s} : user'[t] = user[t]
       /\ \A t \in Session, e \in Fd : <<t, e>> # <<s, d>> => user'[t].ofiles[e] = user[t].ofiles[e]
  BY <1>1, <1>10 DEF Types, UserSet
<1>13. old.ino \in Files /\ old.count \in Nat
  BY DEF FileSet, Files
<1>14. /\ left' \in [Files -> Nat]
       /\ \A j \in Files : left'[j] = left[j] + IsUsing(old, j)
  BY <1>1, <1>10, <1>13 DEF Types, IsUsing
<1>15. /\ call' \in [Session -> CallSet] /\ said' \in SaidSet
       /\ \A t \in Session \ {s} : call'[t] = call[t]
       /\ call'[s].pc \in {"idle", "reopen", "loop", "close"} /\ \A u : Sound(call'[s], u)
  <2>1. call[s].cmd \in Openers
    BY <1>2 DEF Sound
  <2> QED
    BY <1>1, <1>2, <2>1, OpenedIs
<1>16. Types'
  <2>1. torn' \subseteq Session
    BY <1>1 DEF TakeFile, Types
  <2> QED
    BY <1>1, <1>2, <1>11, <1>12, <1>14, <1>15, <2>1 DEF Types
<1>17. ASSUME NEW g \in File
       PROVE  file'[g].count = Cardinality(Held(g)') + Cardinality(Freed(g)')
  <2>1. Freed(g)' = Freed(g)
    BY <1>2 DEF Freed
  <2>2. /\ Cardinality(Held(g)) \in Nat /\ Cardinality(Held(g)') \in Nat
        /\ Cardinality(Held(g)') = Cardinality(Held(g)) - (IF user[s].ofiles[d] = g THEN 1 ELSE 0)
                                                        + (IF user'[s].ofiles[d] = g THEN 1 ELSE 0)
    BY <1>12, HeldStep
  <2>3. user[s].ofiles[d] # g
    BY <1>4, Finite DEF Null
  <2>4. Cardinality(Freed(g)) \in Nat
    BY <1>1, FreedFinite DEF Types
  <2>5. file[g].count = Cardinality(Held(g)) + Cardinality(Freed(g))
    BY <1>1, CountedIs
  <2>6. file'[g].count = file[g].count + IF g = f THEN 1 ELSE 0
    <3>1. file[g].count \in Nat
      BY <1>1 DEF Types, FileSet
    <3> QED
      BY <1>7, <1>9, <1>11, <3>1
  <2> QED
    BY <1>12, <2>1, <2>2, <2>3, <2>4, <2>5, <2>6
<1>18. ASSUME NEW j \in Files
       PROVE  refs'[j] = left'[j] + Cardinality(Using(j)') + Cardinality(Opening(j)')
  <2>1. /\ Cardinality(Opening(j)) \in Nat /\ Cardinality(Opening(j)') \in Nat
        /\ Cardinality(Opening(j)') = Cardinality(Opening(j)) - IsOpening(call[s], j) + IsOpening(call'[s], j)
    BY <1>15, OpeningStep
  <2>2. /\ Cardinality(Using(j)) \in Nat /\ Cardinality(Using(j)') \in Nat
        /\ Cardinality(Using(j)') = Cardinality(Using(j)) - IsUsing(file[f], j) + IsUsing(file'[f], j)
    BY <1>11, UsingStep
  <2>3. IsOpening(call[s], j) = (IF j = i THEN 1 ELSE 0) /\ IsOpening(call'[s], j) = 0
    BY <1>2, <1>5, <1>15 DEF IsOpening
  <2>4. IsUsing(file[f], j) = IsUsing(old, j) /\ IsUsing(file'[f], j) = (IF j = i THEN 1 ELSE 0)
    BY <1>7, <1>9, <1>11, <1>13 DEF IsUsing
  <2>5. left'[j] = left[j] + IsUsing(old, j) /\ refs'[j] = refs[j]
    BY <1>2, <1>14
  <2>6. refs[j] = left[j] + Cardinality(Using(j)) + Cardinality(Opening(j))
    BY <1>1, ExactIs
  <2>7. refs[j] \in Nat /\ left[j] \in Nat /\ IsUsing(old, j) \in {0, 1}
    BY <1>1 DEF Types, IsUsing
  <2> QED
    BY <2>1, <2>2, <2>3, <2>4, <2>5, <2>6, <2>7
<1>19. Kept'
  <2>1. i = Root => "write" \notin mode
    BY <1>2, <1>5, <1>6 DEF Sound
  <2>2. \A g \in File : file'[g].ino = Root => "write" \notin file'[g].flag
    BY <1>1, <1>9, <1>11, <2>1 DEF Kept
  <2>3. Sound(call'[s], user'[s])
    BY <1>15
  <2> QED
    BY <1>1, <1>2, <1>12, <1>15, <2>2, <2>3, KeptStill DEF Kept
<1> QED
  BY <1>16, <1>17, <1>18, <1>19, CountedIs, ExactIs, TypesAre DEF Inv, CountsInv

LEMMA LengthIs ==
  ASSUME Types, Kept, NEW i \in Files
  PROVE  Length(i) \in 0 .. MaxOff
<1>1. Len(dir) \in Nat /\ Len(dir) <= MaxOff /\ MaxOff \in Nat
  BY SessionAssumption DEF Types, Kept
<1>2. i # Root => size[i] \in 0 .. MaxOff
  BY DEF Types, Files
<1> QED
  BY <1>1, <1>2 DEF Length

LEMMA OpenIs ==
  ASSUME Types, NEW s \in Session, NEW fd \in Fd, user[s].ofiles[fd] # Null
  PROVE  /\ user[s].ofiles[fd] \in File
         /\ FileOf(s, fd) = file[user[s].ofiles[fd]] /\ FileOf(s, fd) \in FileSet
<1>1. user[s].ofiles[fd] \in File
  BY DEF Types, UserSet
<1> QED
  BY <1>1 DEF FileOf, Types

\* A command that reads or writes: what Sound says of it.
Moving(c, u) ==
  /\ c.cmd \in Loopers \cup Movers
  /\ c.cmd \in Movers => c.asked \in Counts
  /\ c.cmd = "fin" => c.more = 2
  /\ ~c.own /\ c.cmd \notin Movers => c.cmd \in {"ls", "cat"} /\ u.error /\ c.n = 0

\* The command after its read or write.
LEMMA AfterIs ==
  ASSUME Types, NEW s \in Session, NEW c \in CallSet, Moving(c, user[s]),
         NEW n \in Nat, NEW x \in Int, NEW b \in BOOLEAN, After(s, c, Outcome(n, x, b)),
         user[s].error => b
  PROVE  /\ user' \in [Session -> UserSet] /\ \A t \in Session : user'[t].ofiles = user[t].ofiles
         /\ \A t \in Session \ {s} : user'[t] = user[t] /\ call'[t] = call[t]
         /\ call' \in [Session -> CallSet] /\ said' \in SaidSet
         /\ call'[s].pc \in {"idle", "loop", "entry", "close"} /\ Sound(call'[s], user'[s])
<1>1. PICK o : o = Outcome(n, x, b)
  OBVIOUS
<1>2. o.n = n /\ o.eax = x /\ o.error = b
  BY <1>1 DEF Outcome
<1>3. SetUser(s, x, b)
  BY <1>1, <1>2 DEF After
<1>4. /\ user' \in [Session -> UserSet] /\ \A t \in Session : user'[t].ofiles = user[t].ofiles
      /\ \A t \in Session \ {s} : user'[t] = user[t]
      /\ user'[s].error = b
  BY <1>3, SetUserIs
<1>5. c.cmd \in Command /\ c.cmd \in Loopers \cup Movers
  BY DEF Moving, CallSet
<1>6. CASE c.cmd \in Movers
  <2>1. PICK ok \in BOOLEAN : ok = ~b
    OBVIOUS
  <2>2. Answer(s, c.cmd, ok, c.asked, x) /\ call' = [call EXCEPT ![s] = NoCall("idle")]
    BY <1>1, <1>2, <1>6, <2>1 DEF After, Movers
  <2>3. c.asked \in Counts \cup {0}
    BY <1>6 DEF Moving
  <2>4. said' \in SaidSet
    BY <1>5, <2>2, <2>3, AnswerIs
  <2>5. PICK d : d = NoCall("idle")
    OBVIOUS
  <2>6. d \in CallSet /\ d.pc = "idle" /\ \A u : Sound(d, u)
    BY <2>5, NoCallIs DEF Pc
  <2>7. /\ call' \in [Session -> CallSet] /\ call'[s] = d
        /\ \A t \in Session \ {s} : call'[t] = call[t]
    BY <2>2, <2>5, <2>6, CallIs
  <2> QED
    BY <1>4, <2>4, <2>6, <2>7
<1>7. ASSUME Return(s, c.cmd, TRUE) \/ Return(s, c.cmd, FALSE)
      PROVE  /\ call' \in [Session -> CallSet] /\ call'[s].pc = "idle" /\ \A u : Sound(call'[s], u)
             /\ \A t \in Session \ {s} : call'[t] = call[t]
             /\ said' \in SaidSet
  BY <1>5, <1>7, ReturnIs
<1>8. ASSUME NEW pc \in {"loop", "entry", "close"}, NEW i \in Files, NEW e \in CallSet, GoesOn(s, e, pc, i),
             e.cmd \in Loopers, pc = "close" => e.own /\ e.cmd # "ls", pc # "close" => e.cmd # "fin",
             pc # "close" /\ ~e.own => e.cmd \in {"ls", "cat"} /\ user'[s].error
      PROVE  /\ call' \in [Session -> CallSet] /\ said' \in SaidSet
             /\ \A t \in Session \ {s} : call'[t] = call[t]
             /\ call'[s].pc \in {"loop", "entry", "close"} /\ Sound(call'[s], user'[s])
  <2>1. said \in SaidSet
    BY DEF Types
  <2>2. /\ call' \in [Session -> CallSet] /\ said' = said
        /\ \A t \in Session \ {s} : call'[t] = call[t]
        /\ call'[s].pc = pc
        /\ \A u : /\ pc = "close" => e.own /\ e.cmd # "ls"
                  /\ pc # "close" /\ e.cmd = "fin" => e.more = 2
                  /\ pc # "close" /\ ~e.own => e.cmd \in {"ls", "cat"} /\ u.error
                  => Sound(call'[s], u)
    BY <1>8, GoesOnIs
  <2> QED
    BY <1>8, <2>1, <2>2
<1>9. CASE c.cmd = "ls"
  <2>1. CASE Return(s, c.cmd, TRUE)
    BY <1>4, <1>7, <2>1
  <2>2. ASSUME NEW i \in LsReads(c, o), GoesOn(s, c, IF i = 0 THEN "loop" ELSE "entry", i)
        PROVE  /\ call' \in [Session -> CallSet] /\ said' \in SaidSet
               /\ \A t \in Session \ {s} : call'[t] = call[t]
               /\ call'[s].pc \in {"loop", "entry", "close"} /\ Sound(call'[s], user'[s])
    <3>1. i \in Files
      <4>1. \A k \in DOMAIN dir : dir[k].ino \in Files
        <5>1. \A k \in DOMAIN dir : dir[k] \in Entry
          BY DEF Types
        <5> QED
          BY <5>1, FilesAre DEF Entry, Files
      <4>2. 0 \in Files /\ Inode \subseteq Files
        BY FilesAre
      <4> QED
        BY <2>2, <4>1, <4>2 DEF LsReads
    <3>2. PICK pc \in {"loop", "entry", "close"} : pc = (IF i = 0 THEN "loop" ELSE "entry") /\ pc # "close"
      OBVIOUS
    <3>3. GoesOn(s, c, pc, i)
      BY <2>2, <3>2
    <3>4. c.cmd \in Loopers /\ c.cmd # "fin"
      BY <1>9 DEF Loopers
    <3>5. ~c.own => c.cmd \in {"ls", "cat"} /\ user'[s].error
      BY <1>4, <1>9 DEF Moving, Movers
    <3> QED
      BY <1>8, <3>1, <3>2, <3>3, <3>4, <3>5
  <2>3. \/ Return(s, c.cmd, TRUE)
        \/ \E i \in LsReads(c, o) : GoesOn(s, c, IF i = 0 THEN "loop" ELSE "entry", i)
    BY <1>1, <1>9 DEF After
  <2> QED
    BY <1>4, <2>1, <2>2, <2>3
<1>10. CASE c.cmd \in {"cat", "fout"}
  <2>1. \/ GoesOn(s, c, "loop", Root) \/ Return(s, c.cmd, FALSE)
        \/ ~b /\ GoesOn(s, c, "close", Root)
    BY <1>1, <1>2, <1>10 DEF After
  <2>2. c.cmd \in Loopers /\ c.cmd # "fin" /\ Root \in Files
    BY <1>10, FilesAre DEF Loopers
  <2>3. ~c.own => c.cmd \in {"ls", "cat"} /\ b
    BY <1>10 DEF Moving, Movers
  <2>4. CASE Return(s, c.cmd, FALSE)
    BY <1>4, <1>7, <2>4
  <2>5. CASE GoesOn(s, c, "loop", Root)
    BY <1>4, <1>8, <2>2, <2>3, <2>5
  <2>6. CASE ~b /\ GoesOn(s, c, "close", Root)
    <3>1. c.cmd # "ls" /\ c.own
      BY <1>10, <2>3, <2>6
    <3> QED
      BY <1>4, <1>8, <2>2, <2>6, <3>1
  <2> QED
    BY <2>1, <2>4, <2>5, <2>6
<1>11. CASE c.cmd = "fin"
  <2>1. PICK one \in 0 .. 2 : one = c.more - 1 /\ one = 1
    BY <1>11 DEF Moving
  <2>2. PICK e : e = [c EXCEPT !.more = one]
    OBVIOUS
  <2>3. e \in CallSet /\ e.cmd = "fin" /\ e.more = 1 /\ e.own = c.own
    BY <1>11, <2>1, <2>2 DEF CallSet
  <2>6. e.own
    BY <1>11, <2>3 DEF Moving, Movers
  <2>4. GoesOn(s, e, "close", Root)
    <3>1. GoesOn(s, e, Further(e), Root)
      BY <1>1, <1>11, <2>1, <2>2 DEF After
    <3>2. Further(e) = "close"
      BY <2>3 DEF Further
    <3> QED
      BY <3>1, <3>2
  <2>5. e.cmd \in Loopers /\ Root \in Files
    BY <2>3, FilesAre DEF Loopers
  <2> QED
    BY <1>4, <1>8, <2>3, <2>4, <2>5, <2>6
<1> QED
  BY <1>5, <1>6, <1>9, <1>10, <1>11 DEF Loopers

\* Rdwr, up to its NFlock.
LEMMA RdwrQuiet ==
  ASSUME Inv, NEW s \in Session, NEW c \in CallSet, Moving(c, user[s]), c.n = 0, Rdwr(s, c),
         call[s].pc \notin {"find", "take"}, calls' \in 0 .. MaxCalls
  PROVE  Quiet(s)
<1>1. Types /\ Kept /\ user[s] \in UserSet /\ MaxOff \in Nat
  BY InvIs, SessionAssumption
<1>2. UNCHANGED <<dir, size, sparse, refs, left, file, heap>> /\ Locks /\ dead' \in BOOLEAN
  <2>1. UNCHANGED lockVars /\ UNCHANGED dead
    BY DEF Rdwr
  <2> QED
    BY <1>1, <2>1, LocksStill DEF Rdwr, Types
<1>3. CASE /\ Usable(s, c.fd, Direction(c))
           /\ call' = [call EXCEPT ![s] =
                      [c EXCEPT !.pc = "lock", !.ino = FileOf(s, c.fd).ino, !.mode = FileOf(s, c.fd).flag]]
           /\ said' = Silence
           /\ user' = user
  <2>1. c.fd \in Fd /\ user[s].ofiles[c.fd] # Null /\ Direction(c) \in FileOf(s, c.fd).flag
    BY <1>3 DEF Usable, IsOpen
  <2>2. PICK f \in File : f = user[s].ofiles[c.fd] /\ FileOf(s, c.fd) = file[f] /\ file[f] \in FileSet
    BY <1>1, <2>1, OpenIs
  <2>3. PICK i \in Files : i = file[f].ino
    BY <2>2 DEF FileSet, Files
  <2>4. PICK m \in Mode : m = file[f].flag
    BY <2>2 DEF FileSet
  <2>5. PICK d : d = [c EXCEPT !.pc = "lock", !.ino = i, !.mode = m]
    OBVIOUS
  <2>6. /\ d \in CallSet /\ d.pc = "lock" /\ d.ino = i /\ d.mode = m /\ d.cmd = c.cmd /\ d.own = c.own
        /\ d.more = c.more /\ d.n = 0 /\ d.asked = c.asked /\ d.off = c.off /\ d.fd = c.fd
    BY <2>5 DEF CallSet, Files, Pc
  <2>7. call' = [call EXCEPT ![s] = d]
    BY <1>3, <2>2, <2>3, <2>4, <2>5
  <2>8. /\ call' \in [Session -> CallSet] /\ call'[s] = d
        /\ \A t \in Session \ {s} : call'[t] = call[t]
    BY <1>1, <2>6, <2>7, CallIs
  <2>9. i = Root => "write" \notin m
    BY <1>1, <2>2, <2>3, <2>4 DEF Kept
  <2>10. Fits(d, user[s])
    <3>1. Direction(d) = Direction(c)
      BY <2>6 DEF Direction
    <3>2. d.asked \in Nat /\ d.off \in 0 .. MaxOff
      BY <2>6 DEF CallSet
    <3> QED
      BY <1>1, <2>1, <2>2, <2>4, <2>6, <3>1, <3>2 DEF Fits
  <2>11. Sound(d, user[s])
    BY <2>6, <2>9, <2>10 DEF Sound, Moving, Loopers, Movers
  <2>12. said' \in SaidSet
    BY <1>3, SilenceIs
  <2>13. user' \in [Session -> UserSet]
    BY <1>1, <1>3 DEF Types
  <2> QED
    BY <1>2, <1>3, <2>6, <2>8, <2>11, <2>12, <2>13, StillQuiet
<1>4. CASE After(s, c, Outcome(0, user[s].eax, TRUE))
  <2>1. PICK x \in Int : x = user[s].eax
    BY <1>1 DEF UserSet
  <2>2. PICK n \in Nat : n = 0
    OBVIOUS
  <2>3. PICK b \in BOOLEAN : b = TRUE
    OBVIOUS
  <2>4. After(s, c, Outcome(n, x, b)) /\ (user[s].error => b)
    BY <1>4, <2>1, <2>2, <2>3
  <2>5. /\ user' \in [Session -> UserSet] /\ \A t \in Session : user'[t].ofiles = user[t].ofiles
        /\ \A t \in Session \ {s} : user'[t] = user[t] /\ call'[t] = call[t]
        /\ call' \in [Session -> CallSet] /\ said' \in SaidSet
        /\ call'[s].pc \in {"idle", "loop", "entry", "close"} /\ Sound(call'[s], user'[s])
    BY <1>1, <2>4, AfterIs
  <2> QED
    BY <1>2, <2>5, StillQuiet
<1> QED
  BY <1>3, <1>4 DEF Rdwr

-----------------------------------------------------------------------------
(* A read or write, block by block *)

LEMMA IoIs ==
  ASSUME Inv, NEW s \in Session, NEW c, c = call[s], c.pc \in {"lock", "io"}
  PROVE  /\ c \in CallSet /\ Fits(c, user[s]) /\ Moving(c, user[s])
         /\ c.ino \in Files /\ (c.ino = Root => "write" \notin c.mode)
         /\ Direction(c) = "write" => c.ino \in Inode
         /\ user[s].ofiles[c.fd] \in File /\ FileOf(s, c.fd) = file[user[s].ofiles[c.fd]]
         /\ FileOf(s, c.fd) \in FileSet
<1>1. Types /\ c \in CallSet /\ Sound(c, user[s])
  BY InvIs
<1>2. Fits(c, user[s]) /\ Moving(c, user[s])
  BY <1>1 DEF Sound, Moving
<1>3. c.ino \in Files /\ (c.ino = Root => "write" \notin c.mode)
  BY <1>1 DEF Sound, CallSet, Files
<1>4. Direction(c) = "write" => c.ino \in Inode
  BY <1>2, <1>3 DEF Fits, Files
<1>5. c.fd \in Fd /\ user[s].ofiles[c.fd] # Null
  BY <1>2 DEF Fits
<1> QED
  BY <1>1, <1>2, <1>3, <1>4, <1>5, OpenIs

LEMMA RdwrLockQuiet ==
  ASSUME Inv, NEW s \in Session, RdwrLock(s)
  PROVE  Quiet(s)
<1>1. Types /\ Kept /\ Sound(call[s], user[s]) /\ MaxOff \in Nat
  BY InvIs, SessionAssumption
<1>2. PICK c : c = call[s]
  OBVIOUS
<1>3. c.pc = "lock" /\ UNCHANGED <<dir, size, sparse, refs, left, file, user, heap, full, said, calls, dead>>
  BY <1>2 DEF RdwrLock
<1>4. /\ c \in CallSet /\ Fits(c, user[s]) /\ c.ino \in Files /\ FileOf(s, c.fd) \in FileSet
  BY <1>2, <1>3, IoIs
<1>5. PICK x \in 0 .. MaxOff : x = FileOf(s, c.fd).off
  BY <1>4 DEF FileSet
<1>6. PICK d : d = [c EXCEPT !.pc = "io", !.off = x]
  OBVIOUS
<1>7. /\ d \in CallSet /\ d.pc = "io" /\ d.ino = c.ino /\ d.mode = c.mode /\ d.cmd = c.cmd /\ d.own = c.own
      /\ d.more = c.more /\ d.n = c.n /\ d.asked = c.asked /\ d.off = x /\ d.fd = c.fd
  BY <1>4, <1>6 DEF CallSet, Pc
<1>8. call' = [call EXCEPT ![s] = d]
  <2>1. call' = [call EXCEPT ![s].pc = "io", ![s].off = x]
    BY <1>2, <1>5 DEF RdwrLock
  <2> QED
    BY <1>1, <1>2, <1>6, <2>1 DEF Types
<1>9. /\ call' \in [Session -> CallSet] /\ call'[s] = d
      /\ \A t \in Session \ {s} : call'[t] = call[t]
  BY <1>1, <1>7, <1>8, CallIs
<1>10. c.n = 0
  BY <1>1, <1>2, <1>3 DEF Sound
<1>11. Fits(d, user[s])
  <2>1. Direction(d) = Direction(c)
    BY <1>7 DEF Direction
  <2> QED
    BY <1>1, <1>4, <1>7, <1>10, <2>1 DEF Fits
<1>12. Sound(d, user[s])
  BY <1>1, <1>2, <1>3, <1>7, <1>11 DEF Sound, Movers
<1>13. Locks
  <2>1. locked' = locked \cup {c.ino}
    BY <1>2 DEF RdwrLock
  <2>2. torn' \subseteq torn \cup {s}
    BY DEF RdwrLock
  <2> QED
    BY <1>1, <1>3, <1>4, <2>1, <2>2 DEF Locks, Types
<1>14. calls' \in 0 .. MaxCalls /\ dead' \in BOOLEAN /\ said' \in SaidSet /\ user' \in [Session -> UserSet]
  BY <1>1, <1>3 DEF Types
<1> QED
  BY <1>2, <1>3, <1>7, <1>9, <1>12, <1>13, <1>14, StillQuiet

LEMMA ModIs ==
  ASSUME NEW n \in Nat
  PROVE  n % Sector \in 0 .. Sector - 1
<1>1. Sector \in Nat \ {0}
  BY SessionAssumption
<1> QED
  BY <1>1

\* nbytes: no more than was asked for, and a read stays within the file.
LEMMA PartIs ==
  ASSUME Types, Kept, NEW c \in CallSet, c.n <= c.asked, c.n # c.asked,
         Direction(c) = "read" => At(c) < Length(c.ino)
  PROVE  /\ Part(c) \in Nat /\ c.n + Part(c) <= c.asked /\ At(c) \in Nat /\ Part(c) > 0
         /\ Direction(c) = "read" => At(c) + Part(c) <= Length(c.ino)
<1>1. c.n \in Nat /\ c.asked \in Nat /\ c.off \in Nat /\ c.ino \in Files
  BY SessionAssumption DEF CallSet, Files
<1>2. PICK at \in Nat : at = At(c)
  BY <1>1 DEF At
<1>3. PICK l \in Nat : l = Length(c.ino)
  BY <1>1, LengthIs, SessionAssumption
<1>4. PICK space \in Nat \ {0} : space = Sector - (at % Sector)
  <2>1. Sector \in Nat \ {0} /\ at % Sector \in 0 .. Sector - 1
    BY SessionAssumption, ModIs
  <2> QED
    BY <2>1
<1>5. PICK rest \in Nat \ {0} : rest = c.asked - c.n
  BY <1>1
<1>6. PICK block \in Nat \ {0} : block = Least(rest, space) /\ block <= rest
  BY DEF Least
<1>7. Part(c) = IF Direction(c) = "read" THEN Least(block, l - at) ELSE block
  BY <1>2, <1>3, <1>4, <1>5, <1>6 DEF Part
<1>8. CASE Direction(c) = "read"
  <2>1. at < l
    BY <1>2, <1>3, <1>8
  <2>2. Part(c) = IF block < l - at THEN block ELSE l - at
    BY <1>7, <1>8 DEF Least
  <2> QED
    BY <1>1, <1>2, <1>3, <1>5, <1>6, <2>1, <2>2
<1>9. CASE Direction(c) # "read"
  BY <1>1, <1>2, <1>5, <1>6, <1>7, <1>9
<1> QED
  BY <1>8, <1>9

\* A block: what changes of the call and of the file.
LEMMA TurnIs ==
  ASSUME Inv, NEW s \in Session, NEW c, c = call[s], Turn(s)
  PROVE  /\ c \in CallSet /\ c.pc = "io" /\ c.n # c.asked /\ ~user[s].error
         /\ Part(c) \in Nat /\ c.n + Part(c) <= c.asked /\ At(c) + Part(c) <= MaxOff /\ Part(c) > 0
         /\ Direction(c) = "read" => At(c) < Length(c.ino) /\ At(c) + Part(c) <= Length(c.ino)
         /\ call' = [call EXCEPT ![s].n = c.n + Part(c)]
         /\ UNCHANGED <<dir, refs, left, file, user, heap, lockVars, said, calls, dead>>
<1>1. Types /\ Kept
  BY InvIs
<1>2. c.pc = "io" /\ ~Over(s) /\ ~TooBig(c) /\ call' = [call EXCEPT ![s].n = @ + Part(c)]
  BY DEF Turn
<1>3. c \in CallSet /\ c.n <= c.asked
  BY <1>2, IoIs DEF Fits
<1>4. c.n \in Nat /\ c.asked \in Nat /\ c.off \in Nat /\ c.ino \in Files /\ MaxOff \in Nat
  BY <1>3, SessionAssumption DEF CallSet, Files
<1>5. Length(c.ino) \in Nat /\ At(c) \in Nat
  BY <1>1, <1>4, LengthIs DEF At
<1>6. ~user[s].error /\ c.n # c.asked /\ (Direction(c) = "read" => At(c) < Length(c.ino))
  BY <1>2, <1>5 DEF Over, Blocked
<1>7. /\ Part(c) \in Nat /\ c.n + Part(c) <= c.asked /\ Part(c) > 0
      /\ Direction(c) = "read" => At(c) + Part(c) <= Length(c.ino)
  BY <1>1, <1>3, <1>6, PartIs
<1>8. At(c) + Part(c) <= MaxOff
  BY <1>2, <1>4, <1>5, <1>7 DEF TooBig
<1>9. call' = [call EXCEPT ![s].n = c.n + Part(c)]
  BY <1>1, <1>2 DEF Types
<1> QED
  BY <1>2, <1>3, <1>6, <1>7, <1>8, <1>9 DEF Turn

LEMMA TurnQuiet ==
  ASSUME Inv, NEW s \in Session, Turn(s)
  PROVE  Quiet(s)
<1>1. Types /\ Kept /\ Sound(call[s], user[s]) /\ MaxOff \in Nat
  BY InvIs, SessionAssumption
<1>2. PICK c \in CallSet : c = call[s]
  BY InvIs
<1>3. /\ c.pc = "io" /\ Part(c) \in Nat /\ c.n + Part(c) <= c.asked /\ At(c) + Part(c) <= MaxOff
      /\ call' = [call EXCEPT ![s].n = c.n + Part(c)]
      /\ UNCHANGED <<dir, refs, left, file, user, heap, lockVars, said, calls, dead>>
      /\ c.n # c.asked /\ ~user[s].error
  BY <1>2, TurnIs
<1>4. Fits(c, user[s]) /\ c.ino \in Files /\ (Direction(c) = "write" => c.ino \in Inode)
  BY <1>2, <1>3, IoIs
<1>5. c.n \in Nat /\ c.off \in Nat /\ At(c) = c.off + c.n
  BY DEF CallSet, At
<1>6. PICK k \in Nat : k = c.n + Part(c)
  BY <1>3, <1>5
<1>7. PICK d : d = [c EXCEPT !.n = k]
  OBVIOUS
<1>8. /\ d \in CallSet /\ d.pc = "io" /\ d.ino = c.ino /\ d.mode = c.mode /\ d.cmd = c.cmd /\ d.own = c.own
      /\ d.more = c.more /\ d.n = k /\ d.asked = c.asked /\ d.off = c.off /\ d.fd = c.fd
  BY <1>3, <1>7 DEF CallSet
<1>9. call' = [call EXCEPT ![s] = d]
  BY <1>1, <1>2, <1>3, <1>6, <1>7 DEF Types
<1>10. /\ call' \in [Session -> CallSet] /\ call'[s] = d
       /\ \A t \in Session \ {s} : call'[t] = call[t]
  BY <1>1, <1>8, <1>9, CallIs
<1>11. Fits(d, user[s])
  <2>1. Direction(d) = Direction(c)
    BY <1>8 DEF Direction
  <2>2. d.n <= d.asked /\ d.off + d.n <= MaxOff
    BY <1>3, <1>5, <1>6, <1>8
  <2> QED
    BY <1>4, <1>8, <2>1, <2>2 DEF Fits
<1>12. Sound(d, user[s])
  BY <1>1, <1>2, <1>3, <1>8, <1>11 DEF Sound, Movers
<1>13. size' \in [Inode -> 0 .. MaxOff] /\ sparse' \subseteq Inode
  <2>1. CASE Direction(c) = "read"
    <3>1. UNCHANGED <<size, sparse>>
      BY <1>2, <2>1 DEF Turn
    <3> QED
      BY <1>1, <3>1 DEF Types
  <2>2. CASE Direction(c) = "write"
    <3>1. PICK end \in 0 .. MaxOff : end = At(c) + Part(c)
      BY <1>1, <1>3, <1>5
    <3>2. /\ size' = [size EXCEPT ![c.ino] = IF @ < end THEN end ELSE @]
          /\ sparse' = IF size[c.ino] < At(c) THEN sparse \cup {c.ino} ELSE sparse
      BY <1>2, <2>2, <3>1 DEF Turn
    <3> QED
      BY <1>1, <1>4, <2>2, <3>2 DEF Types
  <2> QED
    BY <2>1, <2>2 DEF Direction
<1>14. Locks
  BY <1>1, <1>3, LocksStill
<1>15. /\ dir' \in Seq(Entry) /\ Len(dir') <= MaxOff /\ refs' \in [Files -> Nat] /\ left' \in [Files -> Nat]
       /\ file' \in [File -> FileSet] /\ user' \in [Session -> UserSet]
       /\ said' \in SaidSet /\ calls' \in 0 .. MaxCalls /\ dead' \in BOOLEAN
  BY <1>1, <1>3 DEF Types, Kept
<1> QED
  BY <1>2, <1>3, <1>8, <1>10, <1>12, <1>13, <1>14, <1>15 DEF Quiet

LEMMA TurnFailsQuiet ==
  ASSUME Inv, NEW s \in Session, TurnFails(s)
  PROVE  Quiet(s)
<1>1. Types /\ Kept /\ Sound(call[s], user[s]) /\ user[s] \in UserSet
  BY InvIs
<1>2. /\ call[s].pc = "io" /\ full' \in BOOLEAN
      /\ UNCHANGED <<dir, size, sparse, refs, left, file, call, heap, locked, torn, said, calls, dead>>
  BY <1>1 DEF TurnFails, Types
<1>3. PICK x \in Int : x = user[s].eax
  BY <1>1 DEF UserSet
<1>4. SetUser(s, x, TRUE)
  BY <1>3 DEF TurnFails
<1>5. /\ user' \in [Session -> UserSet] /\ \A t \in Session : user'[t].ofiles = user[t].ofiles
      /\ \A t \in Session \ {s} : user'[t] = user[t]
      /\ user'[s].error = TRUE
  BY <1>1, <1>4, SetUserIs
<1>6. Locks
  BY <1>1, <1>2 DEF Locks, Types
<1>7. Sound(call'[s], user'[s])
  <2>1. Fits(call[s], user[s]) => Fits(call[s], user'[s])
    BY <1>5 DEF Fits
  <2> QED
    BY <1>1, <1>2, <1>5, <2>1 DEF Sound
<1>8. call' \in [Session -> CallSet] /\ said' \in SaidSet /\ calls' \in 0 .. MaxCalls /\ dead' \in BOOLEAN
  BY <1>1, <1>2 DEF Types
<1> QED
  BY <1>2, <1>5, <1>6, <1>7, <1>8, StillQuiet

LEMMA TurnHangsQuiet ==
  ASSUME Inv, NEW s \in Session, TurnHangs(s)
  PROVE  Quiet(s)
<1>1. Types /\ Kept
  BY InvIs
<1>2. /\ call[s].pc = "io" /\ torn' = torn \ {s}
      /\ UNCHANGED <<dir, size, sparse, refs, left, file, user, heap, locked, full, said, calls, dead>>
  BY DEF TurnHangs
<1>3. PICK c : c = NoCall("hung")
  OBVIOUS
<1>4. c \in CallSet /\ c.pc = "hung" /\ \A u : Sound(c, u)
  BY <1>3, NoCallIs DEF Pc
<1>5. call' = [call EXCEPT ![s] = c]
  BY <1>3 DEF TurnHangs
<1>6. /\ call' \in [Session -> CallSet] /\ call'[s] = c
      /\ \A t \in Session \ {s} : call'[t] = call[t]
  BY <1>1, <1>4, <1>5, CallIs
<1>7. Locks
  BY <1>1, <1>2 DEF Locks, Types
<1>8. user' \in [Session -> UserSet] /\ said' \in SaidSet /\ calls' \in 0 .. MaxCalls /\ dead' \in BOOLEAN
  BY <1>1, <1>2 DEF Types
<1>9. Sound(call'[s], user'[s])
  BY <1>4, <1>6
<1> QED
  BY <1>2, <1>4, <1>6, <1>7, <1>8, <1>9, StillQuiet

\* File structures of which only the offsets differ.
SameUse(f, g) ==
  /\ g \in [File -> FileSet]
  /\ \A h \in File : g[h].count = f[h].count /\ g[h].ino = f[h].ino /\ g[h].flag = f[h].flag

\* An offset is set.
Positioned(f, to) == file' = [file EXCEPT ![f].off = to]

LEMMA OffsetIs ==
  ASSUME Types, NEW f \in File, NEW to \in 0 .. MaxOff, Positioned(f, to)
  PROVE  SameUse(file, file') /\ file'[f].off = to /\ \A h \in File \ {f} : file'[h] = file[h]
<1>0. PICK g : g = file'
  OBVIOUS
<1>1. PICK h : h = [file[f] EXCEPT !.off = to]
  OBVIOUS
<1>2. file[f] \in FileSet
  BY DEF Types
<1>3. h \in FileSet /\ h.count = file[f].count /\ h.ino = file[f].ino /\ h.flag = file[f].flag /\ h.off = to
  BY <1>1, <1>2 DEF FileSet
<1>4. g = [file EXCEPT ![f] = h]
  BY <1>0, <1>1 DEF Types, Positioned
<1> QED
  BY <1>0, <1>3, <1>4 DEF Types, SameUse

\* What RdwrEnd does, to the offset of the File structure f and to the command.
LEMMA RdwrEndIs ==
  ASSUME Inv, NEW s \in Session, NEW c, c = call[s], NEW f, f = user[s].ofiles[c.fd], RdwrEnd(s)
  PROVE  /\ c \in CallSet /\ c.pc = "io" /\ c.n \in Nat /\ f \in File /\ file[f] = FileOf(s, c.fd)
         /\ \E to \in 0 .. MaxOff : to = Least(file[f].off + c.n, MaxOff) /\ Positioned(f, to)
         /\ SameUse(file, file')
         /\ \E b \in BOOLEAN : b = user[s].error /\ After(s, c, Outcome(c.n, c.n, b))
         /\ UNCHANGED <<dir, size, sparse, refs, left, heap, full, calls, dead>>
<1>1. Types /\ Kept /\ user[s] \in UserSet /\ MaxOff \in Nat
  BY InvIs, SessionAssumption
<1>2. c.pc = "io" /\ UNCHANGED <<dir, size, sparse, refs, left, heap, full, calls, dead>>
  BY DEF RdwrEnd
<1>3. c \in CallSet /\ f \in File /\ file[f] = FileOf(s, c.fd) /\ file[f] \in FileSet
  BY <1>2, IoIs
<1>4. c.n \in Nat /\ file[f].off \in Nat
  BY <1>1, <1>3 DEF CallSet, FileSet
<1>5. PICK to \in 0 .. MaxOff : to = Least(file[f].off + c.n, MaxOff)
  BY <1>1, <1>4 DEF Least
<1>6. Positioned(f, to)
  BY <1>1, <1>3, <1>5 DEF RdwrEnd, Types, Positioned
<1>7. SameUse(file, file')
  BY <1>1, <1>3, <1>6, OffsetIs
<1>8. PICK b \in BOOLEAN : b = user[s].error
  BY <1>1 DEF UserSet
<1>9. After(s, c, Outcome(c.n, c.n, b))
  BY <1>8 DEF RdwrEnd, Moved
<1> QED
  BY <1>2, <1>3, <1>4, <1>5, <1>6, <1>7, <1>8, <1>9

LEMMA RdwrEndQuiet ==
  ASSUME Inv, NEW s \in Session, RdwrEnd(s)
  PROVE  Quiet(s)
<1>1. Types /\ Kept
  BY InvIs
<1>2. PICK c : c = call[s]
  OBVIOUS
<1>3. /\ c \in CallSet /\ c.pc = "io" /\ c.n \in Nat
      /\ SameUse(file, file')
      /\ UNCHANGED <<dir, size, sparse, refs, left, heap, full, calls, dead>>
  BY <1>2, RdwrEndIs
<1>4. PICK b \in BOOLEAN : b = user[s].error /\ After(s, c, Outcome(c.n, c.n, b))
  BY <1>2, RdwrEndIs
<1>5. Moving(c, user[s])
  BY <1>2, <1>3, IoIs
<1>6. PICK n \in Nat : n = c.n
  BY <1>3
<1>7. n \in Int /\ After(s, c, Outcome(n, n, b)) /\ (user[s].error => b)
  BY <1>4, <1>6
<1>8. /\ user' \in [Session -> UserSet] /\ \A t \in Session : user'[t].ofiles = user[t].ofiles
      /\ \A t \in Session \ {s} : user'[t] = user[t] /\ call'[t] = call[t]
      /\ call' \in [Session -> CallSet] /\ said' \in SaidSet
      /\ call'[s].pc \in {"idle", "loop", "entry", "close"} /\ Sound(call'[s], user'[s])
  BY <1>1, <1>3, <1>5, <1>7, AfterIs
<1>9. Locks
  <2>1. locked' \subseteq locked /\ torn' \subseteq Session
    BY <1>1 DEF RdwrEnd, Transferring, Types
  <2> QED
    BY <1>1, <1>3, <2>1 DEF Locks, Types
<1>10. /\ dir' \in Seq(Entry) /\ Len(dir') <= MaxOff /\ refs' \in [Files -> Nat] /\ left' \in [Files -> Nat]
       /\ size' \in [Inode -> 0 .. MaxOff] /\ sparse' \subseteq Inode
       /\ calls' \in 0 .. MaxCalls /\ dead' \in BOOLEAN
  BY <1>1, <1>3 DEF Types, Kept
<1>11. \A i \in Files : refs'[i] - left'[i] = refs[i] - left[i]
  BY <1>3
<1> QED
  BY <1>2, <1>3, <1>8, <1>9, <1>10, <1>11 DEF Quiet, SameUse

-----------------------------------------------------------------------------
(* The other steps that open and close nothing *)

LEMMA LoopQuiet ==
  ASSUME Inv, NEW s \in Session, Loop(s)
  PROVE  Quiet(s)
<1>1. Types /\ Sound(call[s], user[s]) /\ call[s] \in CallSet /\ calls \in 0 .. MaxCalls
  BY InvIs DEF Types
<1>2. PICK k \in Nat : k = IF call[s].cmd = "ls" THEN 1 ELSE BUF
  BY SessionAssumption
<1>3. PICK c : c = [call[s] EXCEPT !.asked = k]
  OBVIOUS
<1>4. Rdwr(s, c) /\ call[s].pc = "loop" /\ calls' = calls
  BY <1>2, <1>3 DEF Loop
<1>5. /\ c \in CallSet /\ c.cmd = call[s].cmd /\ c.own = call[s].own /\ c.more = call[s].more
      /\ c.n = call[s].n
  BY <1>1, <1>3 DEF CallSet
<1>6. c.n = 0 /\ Moving(c, user[s])
  BY <1>1, <1>4, <1>5 DEF Sound, Moving
<1> QED
  BY <1>1, <1>4, <1>5, <1>6, RdwrQuiet

LEMMA LsEntryQuiet ==
  ASSUME Inv, NEW s \in Session, LsEntry(s)
  PROVE  Quiet(s)
<1>1. Types /\ Kept /\ Sound(call[s], user[s]) /\ call[s] \in CallSet
  BY InvIs
<1>2. PICK i \in Files : i = call[s].ino
  BY <1>1 DEF CallSet, Files
<1>3. /\ call[s].pc = "entry" /\ UNCHANGED <<dir, size, sparse, file, user, heap, calls>> /\ UNCHANGED lockVars
  BY DEF LsEntry
<1>4. /\ Locks /\ calls' \in 0 .. MaxCalls /\ user' \in [Session -> UserSet] /\ file' \in [File -> FileSet]
      /\ dir' \in Seq(Entry) /\ Len(dir') <= MaxOff /\ size' \in [Inode -> 0 .. MaxOff] /\ sparse' \subseteq Inode
  BY <1>1, <1>3, LocksStill DEF Types, Kept
<1>5. CASE IGet(i) /\ left' = [left EXCEPT ![i] = @ + 1] /\ GoesOn(s, call[s], "loop", Root) /\ dead' = dead
  <2>1. call[s].cmd \in Loopers
    BY <1>1, <1>3 DEF Sound
  <2>2. /\ call' \in [Session -> CallSet] /\ said' = said
        /\ \A t \in Session \ {s} : call'[t] = call[t]
        /\ call'[s].pc = "loop"
        /\ \A u : /\ call[s].cmd = "fin" => call[s].more = 2
                  /\ ~call[s].own => call[s].cmd \in {"ls", "cat"} /\ u.error
                  => Sound(call'[s], u)
    <3>1. Root \in Files /\ "loop" \in {"loop", "entry", "close"}
      BY FilesAre
    <3> QED
      BY <1>1, <1>5, <2>1, <3>1, GoesOnIs
  <2>3. Sound(call'[s], user'[s])
    BY <1>1, <1>3, <2>1, <2>2 DEF Sound, Loopers, Movers
  <2>4. refs' = [refs EXCEPT ![i] = @ + 1] /\ refs' \in [Files -> Nat] /\ left' \in [Files -> Nat]
    BY <1>1, <1>5 DEF Types, IGet
  <2>5. \A j \in Files : refs'[j] - left'[j] = refs[j] - left[j]
    BY <1>1, <1>5, <2>4 DEF Types
  <2>6. dead' \in BOOLEAN /\ said' \in SaidSet
    BY <1>1, <1>5, <2>2 DEF Types
  <2> QED
    BY <1>3, <1>4, <2>2, <2>3, <2>4, <2>5, <2>6 DEF Quiet
<1>6. CASE dead' = TRUE /\ UNCHANGED <<refs, left, call, said>>
  <2>1. /\ call' \in [Session -> CallSet] /\ said' \in SaidSet /\ dead' \in BOOLEAN
        /\ refs' \in [Files -> Nat] /\ left' \in [Files -> Nat]
    BY <1>1, <1>6 DEF Types
  <2> QED
    BY <1>1, <1>3, <1>4, <1>6, <2>1 DEF Quiet
<1> QED
  BY <1>2, <1>5, <1>6 DEF LsEntry

LEMMA AskIs ==
  ASSUME Inv, NEW s \in Session, Ask(s)
  PROVE  call[s].pc = "idle" /\ calls' \in 0 .. MaxCalls /\ \A u : Sound(call[s], u)
<1>1. Types /\ Sound(call[s], user[s])
  BY InvIs
<1>2. call[s].pc = "idle" /\ calls' \in 0 .. MaxCalls
  BY <1>1, SessionAssumption DEF Ask, Types
<1> QED
  BY <1>1, <1>2 DEF Sound

LEMMA TransferIs ==
  ASSUME NEW c \in Movers, NEW fd \in Fds, NEW k \in Counts, NEW t, t = Transfer(c, fd, k), NEW u
  PROVE  t \in CallSet /\ t.cmd = c /\ t.fd = fd /\ t.asked = k /\ t.n = 0 /\ Moving(t, u)
<1>1. PICK b \in BOOLEAN : b = FALSE
  OBVIOUS
<1>2. t = [pc |-> "idle", cmd |-> c, ino |-> Root, mode |-> {}, fd |-> fd,
           file |-> Null, own |-> b, path |-> "/", more |-> 0,
           off |-> 0, asked |-> k, n |-> 0]
  <2>1. PICK idle : idle = [pc |-> "idle", cmd |-> "cd", ino |-> Root, mode |-> {}, fd |-> 0,
           file |-> Null, own |-> b, path |-> "/", more |-> 0,
           off |-> 0, asked |-> 0, n |-> 0]
    OBVIOUS
  <2>2. idle = NoCall("idle")
    BY <1>1, <2>1 DEF NoCall
  <2>3. t = [idle EXCEPT !.cmd = c, !.fd = fd, !.asked = k]
    BY <2>2 DEF Transfer
  <2> QED
    BY <2>1, <2>3
<1>3. k \in Nat /\ fd \in Int /\ {} \in Mode /\ 0 \in 0 .. MaxOff /\ c \in Command
  BY SessionAssumption DEF Mode, Movers, Command
<1>4. t \in CallSet
  BY <1>2, <1>3 DEF CallSet, Pc
<1> QED
  BY <1>2, <1>4 DEF Moving, Movers

LEMMA ReadQuiet ==
  ASSUME Inv, NEW s \in Session, NEW fd \in Fds, NEW asked \in Counts, Read(s, fd, asked)
  PROVE  Quiet(s)
<1>1. Types /\ call[s].pc = "idle" /\ calls' \in 0 .. MaxCalls /\ \A u : Sound(call[s], u)
  BY InvIs, AskIs DEF Read
<1>2. CASE Rdwr(s, Transfer("read", fd, asked))
  <2>1. PICK c : c = Transfer("read", fd, asked)
    OBVIOUS
  <2>2. c \in CallSet /\ c.n = 0 /\ Moving(c, user[s])
    <3>1. "read" \in Movers
      BY DEF Movers
    <3> QED
      BY <2>1, <3>1, TransferIs
  <2> QED
    BY <1>1, <1>2, <2>1, <2>2, RdwrQuiet
<1>3. ASSUME NEW ok \in BOOLEAN, Answer(s, "read", ok, asked, -1),
             UNCHANGED <<dir, size, sparse, refs, left, file, user, call, heap, dead>>, UNCHANGED lockVars
      PROVE  Quiet(s)
  <2>1. said' \in SaidSet
    BY <1>3, AnswerIs DEF Command
  <2>2. /\ Locks /\ user' \in [Session -> UserSet] /\ call' \in [Session -> CallSet] /\ dead' \in BOOLEAN
    BY <1>1, <1>3, LocksStill DEF Types
  <2>3. Sound(call'[s], user'[s])
    BY <1>1, <1>3
  <2> QED
    BY <1>1, <1>3, <2>1, <2>2, <2>3, StillQuiet
<1> QED
  BY <1>2, <1>3 DEF Read

LEMMA WriteQuiet ==
  ASSUME Inv, NEW s \in Session, NEW fd \in Fds, NEW asked \in Counts, Write(s, fd, asked)
  PROVE  Quiet(s)
<1>1. Types /\ call[s].pc = "idle" /\ calls' \in 0 .. MaxCalls
  BY InvIs, AskIs DEF Write
<1>2. PICK c : c = Transfer("write", fd, asked)
  OBVIOUS
<1>3. c \in CallSet /\ c.n = 0 /\ Moving(c, user[s])
  <2>1. "write" \in Movers
    BY DEF Movers
  <2> QED
    BY <1>2, <2>1, TransferIs
<1>4. Rdwr(s, c)
  BY <1>2 DEF Write
<1> QED
  BY <1>1, <1>3, <1>4, RdwrQuiet

\* Seek of an open file.
LEMMA SeekIs ==
  ASSUME Types, Kept, NEW s \in Session, NEW fd, NEW j \in Jumps, Seek(s, fd, j[1], j[2]), IsOpen(s, fd)
  PROVE  /\ fd \in Fd /\ user[s].ofiles[fd] \in File
         /\ \E to \in 0 .. MaxOff : Positioned(user[s].ofiles[fd], to)
<1>1. fd \in Fd /\ user[s].ofiles[fd] # Null
  BY DEF IsOpen
<1>2. PICK f \in File : f = user[s].ofiles[fd] /\ file[f] = FileOf(s, fd) /\ file[f] \in FileSet
  BY <1>1, OpenIs
<1>3. PICK g \in FileSet : g = file[f] /\ g = FileOf(s, fd)
  BY <1>2
<1>4. PICK to : to = Target(g, j[1], j[2])
  OBVIOUS
<1>5. g.ino \in Files /\ g.off \in Nat
  BY SessionAssumption DEF FileSet, Files
<1>6. PICK l \in Nat : l = Length(g.ino)
  BY <1>5, LengthIs, SessionAssumption
<1>7. to \in Nat
  <2>1. j[1] \in Nat /\ j[2] \in Nat /\ Sector \in Nat
    BY SessionAssumption
  <2>2. PICK by \in Nat : by = IF j[2] > 2 THEN j[1] * Sector ELSE j[1]
    BY <2>1
  <2>3. PICK from : from = IF j[2] > 2 THEN j[2] - 3 ELSE j[2]
    OBVIOUS
  <2>4. to = CASE from = 0 -> by [] from = 1 -> g.off + by [] from = 2 -> l + by [] OTHER -> g.off
    BY <1>4, <1>6, <2>2, <2>3 DEF Target
  <2> QED
    BY <1>5, <2>4
<1>8. to <= MaxOff /\ Positioned(f, to)
  BY <1>2, <1>3, <1>4 DEF Seek, Positioned
<1>9. to \in 0 .. MaxOff
  BY <1>7, <1>8, SessionAssumption
<1> QED
  BY <1>1, <1>2, <1>8, <1>9

LEMMA SeekQuiet ==
  ASSUME Inv, NEW s \in Session, NEW fd, NEW j \in Jumps, Seek(s, fd, j[1], j[2])
  PROVE  Quiet(s)
<1>1. Types /\ Kept /\ user[s] \in UserSet
  BY InvIs
<1>2. /\ call[s].pc = "idle" /\ calls' \in 0 .. MaxCalls /\ \A u : Sound(call[s], u)
      /\ UNCHANGED <<dir, size, sparse, refs, left, call, heap, dead>> /\ UNCHANGED lockVars
  BY AskIs DEF Seek
<1>3. PICK b \in BOOLEAN : SetUser(s, 0, b)
  <2>1. PICK e \in BOOLEAN : e = user[s].error
    BY <1>1 DEF UserSet
  <2>2. CASE IsOpen(s, fd)
    <3>1. SetUser(s, 0, e)
      BY <2>1, <2>2 DEF Seek
    <3> QED
      BY <3>1
  <2>3. CASE ~IsOpen(s, fd)
    BY <2>3 DEF Seek
  <2> QED
    BY <2>2, <2>3
<1>4. /\ user' \in [Session -> UserSet] /\ \A t \in Session : user'[t].ofiles = user[t].ofiles
      /\ \A t \in Session \ {s} : user'[t] = user[t]
      /\ user'[s].error = b
  BY <1>1, <1>3, SetUserZero
<1>5. said' \in SaidSet
  <2>1. PICK ok \in BOOLEAN : ok = ~b
    OBVIOUS
  <2>2. said' = [by |-> s, cmd |-> "seek", ok |-> ok, asked |-> 0, n |-> 0]
    BY <1>4, <2>1 DEF Seek, Answer
  <2> QED
    BY <2>2 DEF SaidSet, Command
<1>6. SameUse(file, file')
  <2>1. CASE IsOpen(s, fd)
    <3>1. /\ user[s].ofiles[fd] \in File
          /\ \E to \in 0 .. MaxOff : Positioned(user[s].ofiles[fd], to)
      BY <1>1, <2>1, SeekIs
    <3>2. PICK f \in File : f = user[s].ofiles[fd]
      BY <3>1
    <3>3. PICK to \in 0 .. MaxOff : Positioned(f, to)
      BY <3>1, <3>2
    <3> QED
      BY <1>1, <3>3, OffsetIs
  <2>2. CASE ~IsOpen(s, fd)
    <3>1. file' = file
      BY <2>2 DEF Seek
    <3> QED
      BY <1>1, <3>1 DEF SameUse, Types
  <2> QED
    BY <2>1, <2>2
<1>7. Locks
  BY <1>1, <1>2, LocksStill
<1>8. /\ dir' \in Seq(Entry) /\ Len(dir') <= MaxOff /\ refs' \in [Files -> Nat] /\ left' \in [Files -> Nat]
      /\ size' \in [Inode -> 0 .. MaxOff] /\ sparse' \subseteq Inode /\ call' \in [Session -> CallSet]
      /\ dead' \in BOOLEAN
  BY <1>1, <1>2 DEF Types, Kept
<1>9. Sound(call'[s], user'[s])
  BY <1>2
<1> QED
  BY <1>2, <1>4, <1>5, <1>6, <1>7, <1>8, <1>9 DEF Quiet, SameUse

\* UnLink takes all entries of the inode out of the directory.
LEMMA UnlinkedIs ==
  ASSUME Types, Kept, NEW i,
         dir' = [k \in DOMAIN dir |-> IF dir[k].ino = i THEN [dir[k] EXCEPT !.ino = 0] ELSE dir[k]]
  PROVE  dir' \in Seq(Entry) /\ Len(dir') = Len(dir) /\ Len(dir') <= MaxOff
<1>1. PICK n \in Nat : n = Len(dir) /\ DOMAIN dir = 1 .. n /\ n <= MaxOff
  <2>1. dir \in Seq(Entry) /\ Len(dir) <= MaxOff
    BY DEF Types, Kept
  <2>2. Len(dir) \in Nat /\ DOMAIN dir = 1 .. Len(dir)
    BY <2>1
  <2> QED
    BY <2>1, <2>2
<1>2. \A k \in 1 .. n : dir[k] \in Entry
  BY <1>1 DEF Types
<1>3. \A k \in 1 .. n : (IF dir[k].ino = i THEN [dir[k] EXCEPT !.ino = 0] ELSE dir[k]) \in Entry
  BY <1>2 DEF Entry
<1>4. dir' = [k \in 1 .. n |-> IF dir[k].ino = i THEN [dir[k] EXCEPT !.ino = 0] ELSE dir[k]]
  BY <1>1
<1> QED
  BY <1>1, <1>3, <1>4

LEMMA RmQuiet ==
  ASSUME Inv, NEW s \in Session, Rm(s)
  PROVE  Quiet(s)
<1>1. Types /\ Kept /\ Sound(call[s], user[s])
  BY InvIs
<1>2. call[s].pc = "name" /\ calls' \in 0 .. MaxCalls /\ UNCHANGED <<file, heap>>
  BY <1>1 DEF Rm, Looks, Types
<1>3. PICK i : i = NameI(call[s].path)
  OBVIOUS
<1>4. dead \in BOOLEAN /\ "rm" \in Command /\ dir \in Seq(Entry) /\ Len(dir) <= MaxOff
  BY <1>1 DEF Types, Kept, Command
<1>5. CASE /\ SetUser(s, 0, TRUE) /\ Return(s, "rm", FALSE)
           /\ UNCHANGED <<dir, size, sparse, refs, left, dead>> /\ UNCHANGED lockVars
  <2>1. /\ user' \in [Session -> UserSet] /\ \A t \in Session : user'[t].ofiles = user[t].ofiles
        /\ \A t \in Session \ {s} : user'[t] = user[t]
    BY <1>1, <1>5, SetUserZero
  <2>2. /\ call' \in [Session -> CallSet] /\ call'[s].pc = "idle" /\ \A u : Sound(call'[s], u)
        /\ \A t \in Session \ {s} : call'[t] = call[t]
        /\ said' \in SaidSet
    BY <1>1, <1>4, <1>5, ReturnIs
  <2>3. Locks
    BY <1>1, <1>5, LocksStill
  <2> QED
    BY <1>2, <1>4, <1>5, <2>1, <2>2, <2>3, StillQuiet
<1>6. CASE dead' = TRUE /\ UNCHANGED <<dir, size, sparse, refs, left, user, call, said>> /\ UNCHANGED lockVars
  <2>1. Locks /\ user' \in [Session -> UserSet] /\ call' \in [Session -> CallSet] /\ said' \in SaidSet
    BY <1>1, <1>6, LocksStill DEF Types
  <2> QED
    BY <1>1, <1>2, <1>6, <2>1, StillQuiet
<1>7. ASSUME i \in Inode,
             dir' = [k \in DOMAIN dir |-> IF dir[k].ino = i THEN [dir[k] EXCEPT !.ino = 0] ELSE dir[k]],
             dead' = dead, Hang(s, i, i)
      PROVE  Quiet(s)
  <2>1. dir' \in Seq(Entry) /\ Len(dir') <= MaxOff
    BY <1>1, <1>7, UnlinkedIs
  <2>2. i \in Files /\ dead' \in BOOLEAN
    BY <1>4, <1>7, FilesAre
  <2> QED
    BY <1>2, <1>7, <2>1, <2>2, HangQuiet
<1>8. ASSUME i \in Inode,
             dir' = [k \in DOMAIN dir |-> IF dir[k].ino = i THEN [dir[k] EXCEPT !.ino = 0] ELSE dir[k]],
             dead' = dead, Truncate(i) \/ UNCHANGED <<size, sparse>>,
             SetUser(s, 0, FALSE), Return(s, "rm", TRUE), UNCHANGED <<refs, left>>, UNCHANGED lockVars
      PROVE  Quiet(s)
  <2>1. dir' \in Seq(Entry) /\ Len(dir') <= MaxOff
    BY <1>1, <1>8, UnlinkedIs
  <2>2. size' \in [Inode -> 0 .. MaxOff] /\ sparse' \subseteq Inode
    BY <1>1, <1>8, TruncateIs
  <2>3. /\ user' \in [Session -> UserSet] /\ \A t \in Session : user'[t].ofiles = user[t].ofiles
        /\ \A t \in Session \ {s} : user'[t] = user[t]
    BY <1>1, <1>8, SetUserZero
  <2>4. /\ call' \in [Session -> CallSet] /\ call'[s].pc = "idle" /\ \A u : Sound(call'[s], u)
        /\ \A t \in Session \ {s} : call'[t] = call[t]
        /\ said' \in SaidSet
    BY <1>1, <1>4, <1>8, ReturnIs
  <2>5. Locks
    BY <1>1, <1>8, LocksStill
  <2>6. file' \in [File -> FileSet] /\ refs' \in [Files -> Nat] /\ left' \in [Files -> Nat] /\ dead' \in BOOLEAN
    BY <1>1, <1>2, <1>8 DEF Types
  <2> QED
    BY <1>2, <1>8, <2>1, <2>2, <2>3, <2>4, <2>5, <2>6 DEF Quiet
<1>9. \/ /\ SetUser(s, 0, TRUE) /\ Return(s, "rm", FALSE)
         /\ UNCHANGED <<dir, size, sparse, refs, left, dead>> /\ UNCHANGED lockVars
      \/ dead' = TRUE /\ UNCHANGED <<dir, size, sparse, refs, left, user, call, said>> /\ UNCHANGED lockVars
      \/ /\ i \in Inode
         /\ dir' = [k \in DOMAIN dir |-> IF dir[k].ino = i THEN [dir[k] EXCEPT !.ino = 0] ELSE dir[k]]
         /\ dead' = dead
         /\ \/ Hang(s, i, i)
            \/ /\ Truncate(i) \/ UNCHANGED <<size, sparse>>
               /\ SetUser(s, 0, FALSE) /\ Return(s, "rm", TRUE) /\ UNCHANGED <<refs, left>> /\ UNCHANGED lockVars
  BY <1>3 DEF Rm
<1> QED
  BY <1>5, <1>6, <1>7, <1>8, <1>9

LEMMA CdQuiet ==
  ASSUME Inv, NEW s \in Session, Cd(s)
  PROVE  Quiet(s)
<1>1. Types /\ user[s] \in UserSet
  BY InvIs
<1>2. /\ call[s].pc = "name" /\ calls' \in 0 .. MaxCalls
      /\ UNCHANGED <<dir, size, sparse, refs, left, file, heap, dead>> /\ UNCHANGED lockVars
  BY <1>1 DEF Cd, Looks, Types
<1>3. PICK x \in Int : x = user[s].eax
  BY <1>1 DEF UserSet
<1>4. PICK b \in BOOLEAN : SetUser(s, x, b) /\ Return(s, "cd", ~b)
  BY <1>3 DEF Cd
<1>5. /\ user' \in [Session -> UserSet] /\ \A t \in Session : user'[t].ofiles = user[t].ofiles
      /\ \A t \in Session \ {s} : user'[t] = user[t]
  BY <1>1, <1>4, SetUserIs
<1>6. /\ call' \in [Session -> CallSet] /\ call'[s].pc = "idle" /\ \A u : Sound(call'[s], u)
      /\ \A t \in Session \ {s} : call'[t] = call[t]
      /\ said' \in SaidSet
  <2>1. PICK ok \in BOOLEAN : ok = ~b
    OBVIOUS
  <2>2. Return(s, "cd", ok) /\ "cd" \in Command
    BY <1>4, <2>1 DEF Command
  <2> QED
    BY <1>1, <2>2, ReturnIs
<1>7. Locks /\ dead' \in BOOLEAN
  BY <1>1, <1>2, LocksStill DEF Types
<1> QED
  BY <1>2, <1>5, <1>6, <1>7, StillQuiet

LEMMA WaitingIs ==
  ASSUME NEW s \in Session, NewCommand(s)
  PROVE  \E c \in CallSet :
           /\ call' = [call EXCEPT ![s] = c]
           /\ c.pc \in {"name", "close"} /\ c.cmd \notin {"login", "exit"}
           /\ c.pc = "name" /\ c.cmd \in {"touch", "fin"} => c.path # "/"
           /\ c.pc = "close" => c.cmd = "close"
<1>1. PICK d \in CallSet : d = NoCall("name") /\ d.pc = "name" /\ d.cmd = "cd"
  BY NoCallIs DEF Pc
<1>2. PICK e \in CallSet : e = NoCall("close") /\ e.pc = "close"
  BY NoCallIs DEF Pc
<1>3. /\ {"open", "cat", "fout", "rm", "touch", "fin", "ls", "cd", "close"} \subseteq Command
      /\ Modes \subseteq Mode /\ {"read"} \in Mode /\ Typed \subseteq Name \cup {"/"} /\ Fds \subseteq Int
  BY SessionAssumption DEF Command, Mode
<1>4. ASSUME NEW p \in Typed, NEW m \in Modes, NEW c, c = [d EXCEPT !.cmd = "open", !.path = p, !.mode = m]
      PROVE  c \in CallSet /\ c.pc = "name" /\ c.cmd = "open"
  BY <1>1, <1>3, <1>4 DEF CallSet
<1>5. ASSUME NEW k \in {"cat", "fout", "rm"}, NEW p \in Typed, NEW c,
             c = [d EXCEPT !.cmd = k, !.path = p, !.mode = {"read"}]
      PROVE  c \in CallSet /\ c.pc = "name" /\ c.cmd = k
  BY <1>1, <1>3, <1>5 DEF CallSet
<1>6. ASSUME NEW k \in {"touch", "fin"}, NEW n \in Typed \ {"/"}, NEW c, c = [d EXCEPT !.cmd = k, !.path = n]
      PROVE  c \in CallSet /\ c.pc = "name" /\ c.cmd = k /\ c.path # "/"
  BY <1>1, <1>3, <1>6 DEF CallSet
<1>7. ASSUME NEW k \in {"ls", "cd"}, NEW c, c = [d EXCEPT !.cmd = k, !.mode = {"read"}]
      PROVE  c \in CallSet /\ c.pc = "name" /\ c.cmd = k
  BY <1>1, <1>3, <1>7 DEF CallSet
<1>8. ASSUME NEW fd \in Fds, NEW c, c = [e EXCEPT !.cmd = "close", !.fd = fd]
      PROVE  c \in CallSet /\ c.pc = "close" /\ c.cmd = "close"
  BY <1>2, <1>3, <1>8 DEF CallSet
<1>9. PICK c : /\ call' = [call EXCEPT ![s] = c]
               /\ \/ \E p \in Typed, m \in Modes : c = [d EXCEPT !.cmd = "open", !.path = p, !.mode = m]
                  \/ \E k \in {"cat", "fout", "rm"}, p \in Typed :
                       c = [d EXCEPT !.cmd = k, !.path = p, !.mode = {"read"}]
                  \/ \E k \in {"touch", "fin"}, n \in Typed \ {"/"} : c = [d EXCEPT !.cmd = k, !.path = n]
                  \/ \E k \in {"ls", "cd"} : c = [d EXCEPT !.cmd = k, !.mode = {"read"}]
                  \/ \E fd \in Fds : c = [e EXCEPT !.cmd = "close", !.fd = fd]
  BY <1>1, <1>2 DEF NewCommand, Waiting
<1>10. \/ c \in CallSet /\ c.pc = "name" /\ c.cmd \in {"open", "cat", "fout", "rm", "ls", "cd"}
       \/ c \in CallSet /\ c.pc = "name" /\ c.cmd \in {"touch", "fin"} /\ c.path # "/"
       \/ c \in CallSet /\ c.pc = "close" /\ c.cmd = "close"
  <2>1. CASE \E p \in Typed, m \in Modes : c = [d EXCEPT !.cmd = "open", !.path = p, !.mode = m]
    BY <1>4, <2>1
  <2>2. CASE \E k \in {"cat", "fout", "rm"}, p \in Typed :
               c = [d EXCEPT !.cmd = k, !.path = p, !.mode = {"read"}]
    <3>1. PICK k \in {"cat", "fout", "rm"}, p \in Typed : c = [d EXCEPT !.cmd = k, !.path = p, !.mode = {"read"}]
      BY <2>2
    <3>2. c \in CallSet /\ c.pc = "name" /\ c.cmd = k
      BY <1>5, <3>1
    <3> QED
      BY <3>1, <3>2
  <2>3. CASE \E k \in {"touch", "fin"}, n \in Typed \ {"/"} : c = [d EXCEPT !.cmd = k, !.path = n]
    <3>1. PICK k \in {"touch", "fin"}, n \in Typed \ {"/"} : c = [d EXCEPT !.cmd = k, !.path = n]
      BY <2>3
    <3>2. c \in CallSet /\ c.pc = "name" /\ c.cmd = k /\ c.path # "/"
      BY <1>6, <3>1
    <3> QED
      BY <3>1, <3>2
  <2>4. CASE \E k \in {"ls", "cd"} : c = [d EXCEPT !.cmd = k, !.mode = {"read"}]
    BY <1>7, <2>4
  <2>5. CASE \E fd \in Fds : c = [e EXCEPT !.cmd = "close", !.fd = fd]
    BY <1>8, <2>5
  <2> QED
    BY <1>9, <2>1, <2>2, <2>3, <2>4, <2>5
<1> QED
  BY <1>9, <1>10

LEMMA NewCommandQuiet ==
  ASSUME Inv, NEW s \in Session, NewCommand(s)
  PROVE  Quiet(s)
<1>1. Types /\ call[s].pc = "idle" /\ calls' \in 0 .. MaxCalls
  BY InvIs, AskIs DEF NewCommand
<1>3. PICK c \in CallSet :
        /\ call' = [call EXCEPT ![s] = c]
        /\ c.pc \in {"name", "close"} /\ c.cmd \notin {"login", "exit"}
        /\ c.pc = "name" /\ c.cmd \in {"touch", "fin"} => c.path # "/"
        /\ c.pc = "close" => c.cmd = "close"
  BY WaitingIs
<1>4. /\ call' \in [Session -> CallSet] /\ call'[s] = c
      /\ \A t \in Session \ {s} : call'[t] = call[t]
  BY <1>1, <1>3, CallIs
<1>5. \A u : Sound(c, u)
  BY <1>3 DEF Sound
<1>6. UNCHANGED <<dir, size, sparse, refs, left, file, user, heap, dead>> /\ UNCHANGED lockVars /\ said' = Silence
  BY DEF NewCommand
<1>7. Locks /\ user' \in [Session -> UserSet] /\ dead' \in BOOLEAN /\ said' \in SaidSet
  BY <1>1, <1>6, LocksStill, SilenceIs DEF Types
<1>8. Sound(call'[s], user'[s])
  BY <1>4, <1>5
<1> QED
  BY <1>1, <1>3, <1>4, <1>6, <1>7, <1>8, StillQuiet

-----------------------------------------------------------------------------
(* Close, login and exit *)

\* An open descriptor has its File structure counted, and that its inode.
LEMMA HeldIsCounted ==
  ASSUME Types, FilesCounted, NEW s \in Session, NEW d \in Fd, NEW f \in File, user[s].ofiles[d] = f
  PROVE  file[f].count \in Nat /\ file[f].count > 0
<1>1. PICK S : S = Held(f)
  OBVIOUS
<1>2. IsFiniteSet(S)
  <2>1. S \subseteq Session \X Fd
    BY <1>1 DEF Held
  <2> QED
    BY <2>1, Finite, FS_Subset
<1>3. <<s, d>> \in S
  BY <1>1 DEF Held
<1>4. Cardinality(S) \in Nat /\ Cardinality(S) # 0
  BY <1>2, <1>3, FS_CardinalityType, FS_EmptySet
<1>5. file[f].count = Cardinality(S) + Cardinality(Freed(f)) /\ Cardinality(Freed(f)) \in Nat
  BY <1>1, CountedIs, FreedFinite DEF Types
<1> QED
  BY <1>4, <1>5

LEMMA UsingHasRef ==
  ASSUME RefsExact, Types, NEW f \in File, file[f].count > 0, NEW i, i = file[f].ino
  PROVE  i \in Files /\ refs[i] > 0
<1>1. i \in Files
  BY DEF Types, FileSet, Files
<1>2. PICK S : S = Using(i)
  OBVIOUS
<1>3. IsFiniteSet(S) /\ f \in S
  BY <1>2, Finite, FS_Subset DEF Using
<1>4. Cardinality(S) \in Nat /\ Cardinality(S) # 0
  BY <1>3, FS_CardinalityType, FS_EmptySet
<1>5. Cardinality(Opening(i)) \in Nat /\ left[i] \in Nat
  BY <1>1, Finite, FS_Subset, FS_CardinalityType DEF Opening, Types
<1>6. refs[i] = left[i] + Cardinality(S) + Cardinality(Opening(i))
  BY <1>1, <1>2, ExactIs
<1> QED
  BY <1>1, <1>4, <1>5, <1>6

\* CloseF, and IPut where it was the last descriptor.
LEMMA SysCloseKeeps ==
  ASSUME Inv, NEW s \in Session, NEW fd, Sys_Close(s, fd),
         call' \in [Session -> CallSet], \A t \in Session \ {s} : call'[t] = call[t],
         call[s].pc \notin {"find", "take"}, call'[s].pc \notin {"find", "take"}, \A u : Sound(call'[s], u),
         said' \in SaidSet, calls' \in 0 .. MaxCalls
  PROVE  Inv'
<1>1. Types /\ FilesCounted /\ RefsExact /\ Kept
  BY TypesAre DEF Inv, CountsInv
<1>2. UNCHANGED <<dir, left, heap, full, dead>>
  BY DEF Sys_Close
<1>3. CASE ~IsOpen(s, fd)
  <2>1. SetUser(s, -1, TRUE) /\ UNCHANGED <<size, sparse, refs, file, locked, torn>>
    BY <1>3 DEF Sys_Close
  <2>2. /\ user' \in [Session -> UserSet]
        /\ \A t \in Session : user'[t].ofiles = user[t].ofiles
        /\ \A t \in Session \ {s} : user'[t] = user[t]
    <3>1. PICK x \in Int : x = -1
      OBVIOUS
    <3>2. SetUser(s, x, TRUE)
      BY <2>1, <3>1
    <3> QED
      BY <1>1, <3>2, SetUserIs
  <2>4. Locks /\ dead' \in BOOLEAN /\ Sound(call'[s], user'[s])
    BY <1>1, <1>2, <2>1 DEF Locks, Types
  <2>3. Quiet(s)
    BY <1>2, <2>1, <2>2, <2>4, StillQuiet
  <2> QED
    BY <2>3, QuietKeeps
<1>4. CASE IsOpen(s, fd)
  <2>1. PICK d \in Fd : d = fd
    BY <1>4 DEF IsOpen
  <2>2. PICK f \in File : f = user[s].ofiles[d]
    BY <1>1, <1>4, <2>1, OpenIs DEF IsOpen
  <2>3. PICK g \in FileSet : g = file[f] /\ g = FileOf(s, fd)
    BY <1>1, <1>4, <2>1, <2>2, OpenIs DEF IsOpen
  <2>4. g.count \in Nat /\ g.count > 0
    BY <1>1, <2>2, <2>3, HeldIsCounted
  <2>5. PICK i \in Files : i = g.ino
    BY DEF FileSet, Files
  <2>6. refs[i] > 0
    BY <1>1, <2>3, <2>4, <2>5, UsingHasRef
  <2>7. /\ user' = [user EXCEPT ![s] = Returned(@, d)]
        /\ file' = [file EXCEPT ![f].count = @ - 1]
        /\ IF g.count <= 1 THEN IPut(i) ELSE UNCHANGED <<size, sparse, refs, locked, torn>>
    BY <1>4, <2>1, <2>2, <2>3, <2>5 DEF Sys_Close
  <2>8. /\ user' \in [Session -> UserSet] /\ user'[s].ofiles[d] = Null
        /\ \A t \in Session \ {s} : user'[t] = user[t]
        /\ \A t \in Session, e \in Fd : <<t, e>> # <<s, d>> => user'[t].ofiles[e] = user[t].ofiles[e]
    <3>1. user \in [Session -> UserSet]
      BY <1>1 DEF Types
    <3>2. PICK u : u = Returned(user[s], d)
      OBVIOUS
    <3>3. /\ u \in UserSet /\ u.ofiles[d] = Null
          /\ \A e \in Fd \ {d} : u.ofiles[e] = user[s].ofiles[e]
      <4>1. PICK v \in UserSet : v = user[s]
        BY <3>1
      <4>2. u = [v EXCEPT !.ofiles[d] = Null, !.eax = 0, !.error = FALSE]
        BY <3>2, <4>1 DEF Returned
      <4>3. PICK o \in [Fd -> File \cup {Null}] : o = v.ofiles
        BY DEF UserSet
      <4>4. PICK q : q = [o EXCEPT ![d] = Null]
        OBVIOUS
      <4>5. q \in [Fd -> File \cup {Null}] /\ q[d] = Null /\ \A e \in Fd \ {d} : q[e] = o[e]
        BY <4>4
      <4>6. u = [ofiles |-> q, error |-> FALSE, eax |-> 0]
        BY <4>2, <4>3, <4>4 DEF UserSet
      <4> QED
        BY <4>1, <4>3, <4>5, <4>6 DEF UserSet
    <3>4. user' = [user EXCEPT ![s] = u]
      BY <2>7, <3>2
    <3> QED
      BY <3>1, <3>3, <3>4
  <2>9. PICK h : h = [g EXCEPT !.count = g.count - 1]
    OBVIOUS
  <2>10. h \in FileSet /\ h.count = g.count - 1 /\ h.ino = i /\ h.flag = g.flag
    BY <2>4, <2>5, <2>9 DEF FileSet
  <2>11. /\ file' \in [File -> FileSet] /\ file'[f] = h
         /\ \A e \in File \ {f} : file'[e] = file[e]
    <3>1. file' = [file EXCEPT ![f] = h]
      BY <1>1, <2>3, <2>7, <2>9 DEF Types
    <3> QED
      BY <1>1, <2>10, <3>1 DEF Types
  <2>12. /\ size' \in [Inode -> 0 .. MaxOff] /\ sparse' \subseteq Inode
         /\ refs' \in [Files -> Nat]
         /\ \A j \in Files : refs'[j] = refs[j] - IF j = i /\ g.count <= 1 THEN 1 ELSE 0
         /\ Locks
    <3>1. refs \in [Files -> Nat]
      BY <1>1 DEF Types
    <3>2. CASE g.count <= 1
      <4>1. /\ size' \in [Inode -> 0 .. MaxOff] /\ sparse' \subseteq Inode
            /\ refs' \in [Files -> Nat] /\ refs' = [refs EXCEPT ![i] = @ - 1]
            /\ Locks
        BY <1>1, <1>2, <2>6, <2>7, <3>2, IPutIs
      <4> QED
        BY <3>1, <3>2, <4>1
    <3>3. CASE ~(g.count <= 1)
      BY <1>1, <1>2, <2>7, <3>1, <3>3 DEF Types, Locks
    <3> QED
      BY <3>2, <3>3
  <2>13. Types'
    BY <1>1, <1>2, <2>8, <2>11, <2>12 DEF Types, Locks
  <2>14. ASSUME NEW e \in File
         PROVE  file'[e].count = Cardinality(Held(e)') + Cardinality(Freed(e)')
    <3>1. Freed(e)' = Freed(e)
      BY <1>2 DEF Freed
    <3>2. /\ Cardinality(Held(e)) \in Nat /\ Cardinality(Held(e)') \in Nat
          /\ Cardinality(Held(e)') = Cardinality(Held(e)) - (IF user[s].ofiles[d] = e THEN 1 ELSE 0)
                                                          + (IF user'[s].ofiles[d] = e THEN 1 ELSE 0)
      BY <2>8, HeldStep
    <3>3. user'[s].ofiles[d] # e
      BY <2>8, Finite DEF Null
    <3>4. Cardinality(Freed(e)) \in Nat
      BY <1>1, FreedFinite DEF Types
    <3>5. file[e].count = Cardinality(Held(e)) + Cardinality(Freed(e))
      BY <1>1, CountedIs
    <3>6. file'[e].count = file[e].count - IF e = f THEN 1 ELSE 0
      <4>1. file[e].count \in Nat
        BY <1>1 DEF Types, FileSet
      <4> QED
        <5>1. CASE e = f
          BY <2>3, <2>10, <2>11, <4>1, <5>1
        <5>2. CASE e # f
          BY <2>11, <4>1, <5>2
        <5> QED
          BY <5>1, <5>2
    <3> QED
      BY <2>2, <3>1, <3>2, <3>3, <3>4, <3>5, <3>6
  <2>15. ASSUME NEW j \in Files
         PROVE  refs'[j] = left'[j] + Cardinality(Using(j)') + Cardinality(Opening(j)')
    <3>1. Opening(j)' = Opening(j)
      BY DEF Opening
    <3>2. /\ Cardinality(Using(j)) \in Nat /\ Cardinality(Using(j)') \in Nat
          /\ Cardinality(Using(j)') = Cardinality(Using(j)) - IsUsing(file[f], j) + IsUsing(file'[f], j)
      BY <2>11, UsingStep
    <3>3. /\ IsUsing(file[f], j) = (IF j = i THEN 1 ELSE 0)
          /\ IsUsing(file'[f], j) = (IF j = i /\ ~(g.count <= 1) THEN 1 ELSE 0)
      BY <2>3, <2>4, <2>5, <2>10, <2>11 DEF IsUsing
    <3>4. left'[j] = left[j] /\ refs'[j] = refs[j] - IF j = i /\ g.count <= 1 THEN 1 ELSE 0
      BY <1>2, <2>12
    <3>5. refs[j] = left[j] + Cardinality(Using(j)) + Cardinality(Opening(j))
      BY <1>1, ExactIs
    <3>6. refs[j] \in Nat /\ left[j] \in Nat /\ Cardinality(Opening(j)) \in Nat
      BY <1>1, Finite, FS_Subset, FS_CardinalityType DEF Types, Opening
    <3> QED
      BY <3>1, <3>2, <3>3, <3>4, <3>5, <3>6
  <2>16. Kept'
    <3>1. \A e \in File : file'[e].ino = Root => "write" \notin file'[e].flag
      BY <1>1, <2>3, <2>5, <2>10, <2>11 DEF Kept
    <3>2. Sound(call'[s], user'[s])
      OBVIOUS
    <3> QED
      BY <1>1, <1>2, <2>8, <3>1, <3>2, KeptStill DEF Kept
  <2> QED
    BY <2>13, <2>14, <2>15, <2>16, CountedIs, ExactIs, TypesAre DEF Inv, CountsInv
<1> QED
  BY <1>3, <1>4

LEMMA CloseKeeps ==
  ASSUME Inv, NEW s \in Session, Close(s)
  PROVE  Inv'
<1>1. Types /\ call[s] \in CallSet /\ Sound(call[s], user[s]) /\ calls \in 0 .. MaxCalls
  BY InvIs DEF Types
<1>2. PICK ok \in BOOLEAN : ok = IsOpen(s, call[s].fd)
  BY DEF IsOpen
<1>3. PICK fd : fd = call[s].fd
  OBVIOUS
<1>4. PICK c \in Command : c = call[s].cmd
  BY <1>1 DEF CallSet
<1>5. call[s].pc = "close" /\ Sys_Close(s, fd) /\ Return(s, c, ok) /\ calls' = calls
  BY <1>2, <1>3, <1>4 DEF Close
<1>6. /\ call' \in [Session -> CallSet] /\ call'[s].pc = "idle" /\ \A u : Sound(call'[s], u)
      /\ \A t \in Session \ {s} : call'[t] = call[t]
      /\ said' \in SaidSet
  BY <1>1, <1>5, ReturnIs
<1> QED
  BY <1>1, <1>5, <1>6, SysCloseKeeps

LEMMA NoneNamed ==
  ASSUME NEW f \in File
  PROVE  Naming(NoFiles, f) = {} /\ Cardinality(Naming(NoFiles, f)) = 0 /\ NoFiles \in [Fd -> File \cup {Null}]
<1>1. Naming(NoFiles, f) = {}
  BY Finite DEF Naming, NoFiles, Null
<1> QED
  BY <1>1, FS_EmptySet DEF NoFiles

\* Logout: what the session had open goes with its User structure.
LEMMA LeaveKeeps ==
  ASSUME Inv, NEW s \in Session, Exit(s), call'[s] # NoCall("hung")
  PROVE  Inv'
<1>1. Types /\ FilesCounted /\ RefsExact /\ Kept
  BY TypesAre DEF Inv, CountsInv
<1>2. call[s].pc = "idle" /\ calls' \in 0 .. MaxCalls /\ UNCHANGED <<dir, size, sparse, refs, left, file, dead>>
  BY AskIs DEF Exit
<1>19. Locks
  <2>1. UNCHANGED lockVars
    BY DEF Exit
  <2> QED
    BY <1>1, <2>1, LocksStill
<1>20. /\ heap' = Append(heap, <<user[s].ofiles, user[s].eax>>)
       /\ user' = [user EXCEPT ![s] = [ofiles |-> NoFiles, error |-> FALSE, eax |-> 0]]
       /\ call' = [call EXCEPT ![s] = NoCall("out")] /\ Answer(s, "exit", TRUE, 0, 0)
  <2>1. call' # [call EXCEPT ![s] = NoCall("hung")]
    BY <1>1 DEF Types
  <2> QED
    BY <2>1 DEF Exit
<1>3. PICK o \in [Fd -> File \cup {Null}] : o = user[s].ofiles
  BY <1>1 DEF Types, UserSet
<1>4. PICK x \in Int : x = user[s].eax
  BY <1>1 DEF Types, UserSet
<1>5. PICK v : v = [ofiles |-> NoFiles, error |-> FALSE, eax |-> 0]
  OBVIOUS
<1>6. v \in UserSet /\ v.ofiles = NoFiles
  BY <1>5 DEF UserSet, NoFiles
<1>7. PICK c : c = NoCall("out")
  OBVIOUS
<1>8. c \in CallSet /\ c.pc = "out" /\ Sound(c, v)
  <2>1. c \in CallSet /\ c.pc = "out" /\ c.cmd = "cd"
    BY <1>7, NoCallIs DEF Pc
  <2> QED
    BY <1>6, <2>1 DEF Sound
<1>9. heap' = Append(heap, <<o, x>>) /\ user' = [user EXCEPT ![s] = v] /\ call' = [call EXCEPT ![s] = c]
  BY <1>3, <1>4, <1>5, <1>7, <1>20
<1>10. /\ call' \in [Session -> CallSet] /\ call'[s] = c
       /\ \A t \in Session \ {s} : call'[t] = call[t]
  BY <1>1, <1>8, <1>9, CallIs
<1>11. /\ user' \in [Session -> UserSet] /\ user'[s] = v
       /\ \A t \in Session \ {s} : user'[t] = user[t]
  BY <1>1, <1>6, <1>9 DEF Types
<1>12. heap \in Seq(HeapSet) /\ <<o, x>> \in HeapSet
  BY <1>1 DEF Types, HeapSet
<1>13. heap' \in Seq(HeapSet)
  BY <1>9, <1>12
<1>14. said' \in SaidSet
  <2>1. PICK ok \in BOOLEAN : ok = TRUE
    OBVIOUS
  <2>2. Answer(s, "exit", ok, 0, 0)
    BY <1>20, <2>1
  <2>3. "exit" \in Command /\ 0 \in Counts \cup {0} /\ 0 \in Int
    BY DEF Command
  <2> QED
    BY <2>2, <2>3, AnswerIs
<1>15. Types'
  BY <1>1, <1>2, <1>10, <1>11, <1>13, <1>14, <1>19 DEF Types, Locks
<1>16. ASSUME NEW f \in File
       PROVE  file'[f].count = Cardinality(Held(f)') + Cardinality(Freed(f)')
  <2>1. PICK p : p = NoFiles
    OBVIOUS
  <2>2. /\ Cardinality(Held(f)) \in Nat /\ Cardinality(Held(f)') \in Nat
        /\ Cardinality(Naming(o, f)) \in Nat /\ Cardinality(Naming(p, f)) \in Nat
        /\ Cardinality(Held(f)') = Cardinality(Held(f)) - Cardinality(Naming(o, f))
                                                        + Cardinality(Naming(p, f))
    BY <1>3, <1>6, <1>11, <2>1, HeldRow
  <2>3. Cardinality(Naming(p, f)) = 0
    BY <2>1, NoneNamed
  <2>4. Cardinality(Freed(f)') = Cardinality(Freed(f)) + Cardinality(Naming(o, f))
    BY <1>9, <1>12, FreedMore
  <2>5. Cardinality(Freed(f)) \in Nat
    BY <1>12, FreedFinite
  <2>6. file'[f].count = Cardinality(Held(f)) + Cardinality(Freed(f))
    BY <1>1, <1>2, CountedIs
  <2> QED
    BY <2>2, <2>3, <2>4, <2>5, <2>6
<1>17. RefsExact'
  <2>1. \A t \in Session : \/ call'[t] = call[t]
                           \/ call[t].pc \notin {"find", "take"} /\ call'[t].pc \notin {"find", "take"}
    BY <1>2, <1>8, <1>10
  <2>2. refs' \in [Files -> Nat] /\ left' \in [Files -> Nat]
    BY <1>15 DEF Types
  <2> QED
    BY <1>1, <1>2, <2>1, <2>2, ExactStill
<1>18. Kept'
  BY <1>1, <1>2, <1>8, <1>10, <1>11, KeptStill DEF Kept
<1> QED
  BY <1>15, <1>16, <1>17, <1>18, CountedIs, TypesAre DEF Inv, CountsInv

LEMMA ExitKeeps ==
  ASSUME Inv, NEW s \in Session, Exit(s)
  PROVE  Inv'
<1>1. CASE call'[s] # NoCall("hung")
  BY <1>1, LeaveKeeps
<1>2. CASE call'[s] = NoCall("hung")
  <2>1. Types /\ call[s].pc = "idle" /\ calls' \in 0 .. MaxCalls
    BY InvIs, AskIs DEF Exit
  <2>2. PICK c : c = NoCall("hung")
    OBVIOUS
  <2>3. c \in CallSet /\ c.pc = "hung" /\ \A u : Sound(c, u)
    BY <2>2, NoCallIs DEF Pc
  <2>4. PICK d : d = NoCall("out")
    OBVIOUS
  <2>5. d \in CallSet /\ d.pc = "out"
    BY <2>4, NoCallIs DEF Pc
  <2>6. call' # [call EXCEPT ![s] = d]
    <3>1. call'[s] # d
      BY <1>2, <2>2, <2>3, <2>5
    <3> QED
      BY <2>1, <3>1 DEF Types
  <2>7. /\ call' = [call EXCEPT ![s] = c] /\ UNCHANGED <<user, heap, said>>
        /\ UNCHANGED <<dir, size, sparse, refs, left, file, dead>> /\ UNCHANGED lockVars
    BY <2>2, <2>4, <2>6 DEF Exit
  <2>8. /\ call' \in [Session -> CallSet] /\ call'[s] = c
        /\ \A t \in Session \ {s} : call'[t] = call[t]
    BY <2>1, <2>3, <2>7, CallIs
  <2>9. Locks /\ user' \in [Session -> UserSet] /\ dead' \in BOOLEAN /\ said' \in SaidSet
    BY <2>1, <2>7, LocksStill DEF Types
  <2>10. Sound(call'[s], user'[s])
    BY <2>3, <2>8
  <2>11. Quiet(s)
    BY <2>1, <2>3, <2>7, <2>8, <2>9, <2>10, StillQuiet
  <2> QED
    BY <2>11, QuietKeeps
<1> QED
  BY <1>1, <1>2

\* Login: a new User structure, or one that has been freed with what it had open.
LEMMA LoginKeeps ==
  ASSUME Inv, NEW s \in Session, Login(s)
  PROVE  Inv'
<1>1. Types /\ FilesCounted /\ RefsExact /\ Kept
  BY TypesAre DEF Inv, CountsInv
<1>2. call[s].pc = "out" /\ UNCHANGED <<dir, size, sparse, refs, left, file, calls, dead>>
  BY DEF Login
<1>3. user[s].ofiles = NoFiles
  BY <1>1, <1>2 DEF Kept, Sound
<1>4. PICK c : c = NoCall("idle")
  OBVIOUS
<1>5. c \in CallSet /\ c.pc = "idle" /\ \A u : Sound(c, u)
  BY <1>4, NoCallIs DEF Pc
<1>6. call' = [call EXCEPT ![s] = c]
  BY <1>4 DEF Login
<1>7. /\ call' \in [Session -> CallSet] /\ call'[s] = c
      /\ \A t \in Session \ {s} : call'[t] = call[t]
  BY <1>1, <1>5, <1>6, CallIs
<1>8. said' \in SaidSet
  <2>1. PICK ok \in BOOLEAN : ok = TRUE
    OBVIOUS
  <2>2. Answer(s, "login", ok, 0, 0)
    BY <2>1 DEF Login
  <2>3. "login" \in Command /\ 0 \in Counts \cup {0} /\ 0 \in Int
    BY DEF Command
  <2> QED
    BY <2>2, <2>3, AnswerIs
<1>14. Locks
  <2>1. UNCHANGED lockVars
    BY DEF Login
  <2> QED
    BY <1>1, <2>1, LocksStill
<1>9. heap \in Seq(HeapSet)
  BY <1>1 DEF Types
<1>10. /\ user' \in [Session -> UserSet] /\ heap' \in Seq(HeapSet)
       /\ \A t \in Session \ {s} : user'[t] = user[t]
       /\ \A f \in File : file'[f].count = Cardinality(Held(f)') + Cardinality(Freed(f)')
  <2>1. CASE UNCHANGED <<user, heap>>
    <3>1. FilesCounted'
      BY <1>1, <1>2, <2>1, CountedStill
    <3> QED
      BY <1>1, <2>1, <3>1, CountedIs DEF Types
  <2>2. ASSUME NEW k \in DOMAIN heap, heap' = RemoveAt(heap, k),
               user' = [user EXCEPT ![s] = [ofiles |-> heap[k][1], error |-> FALSE, eax |-> heap[k][2]]]
        PROVE  /\ user' \in [Session -> UserSet] /\ heap' \in Seq(HeapSet)
               /\ \A t \in Session \ {s} : user'[t] = user[t]
               /\ \A f \in File : file'[f].count = Cardinality(Held(f)') + Cardinality(Freed(f)')
    <3>1. heap[k] \in HeapSet
      BY <1>9
    <3>2. PICK o \in [Fd -> File \cup {Null}] : o = heap[k][1]
      BY <3>1 DEF HeapSet
    <3>3. PICK x \in Int : x = heap[k][2]
      BY <3>1 DEF HeapSet
    <3>4. PICK v : v = [ofiles |-> o, error |-> FALSE, eax |-> x]
      OBVIOUS
    <3>5. v \in UserSet /\ v.ofiles = o
      BY <3>4 DEF UserSet
    <3>6. user' = [user EXCEPT ![s] = v]
      BY <2>2, <3>2, <3>3, <3>4
    <3>7. /\ user' \in [Session -> UserSet] /\ user'[s] = v
          /\ \A t \in Session \ {s} : user'[t] = user[t]
      BY <1>1, <3>5, <3>6 DEF Types
    <3>8. heap' \in Seq(HeapSet)
      BY <1>9, <2>2, <3>2, FreedLess
    <3>9. ASSUME NEW f \in File
          PROVE  file'[f].count = Cardinality(Held(f)') + Cardinality(Freed(f)')
      <4>1. PICK n : n = NoFiles
        OBVIOUS
      <4>2. /\ Cardinality(Held(f)) \in Nat /\ Cardinality(Held(f)') \in Nat
            /\ Cardinality(Naming(n, f)) \in Nat /\ Cardinality(Naming(o, f)) \in Nat
            /\ Cardinality(Held(f)') = Cardinality(Held(f)) - Cardinality(Naming(n, f))
                                                            + Cardinality(Naming(o, f))
        BY <1>3, <3>5, <3>7, <4>1, HeldRow
      <4>3. Cardinality(Naming(n, f)) = 0
        BY <4>1, NoneNamed
      <4>4. Cardinality(Freed(f)) = Cardinality(Freed(f)') + Cardinality(Naming(o, f))
        BY <1>9, <2>2, <3>2, FreedLess
      <4>5. Cardinality(Freed(f)) \in Nat /\ Cardinality(Freed(f)') \in Nat
        <5>1. Cardinality(Freed(f)) \in Nat
          BY <1>9, FreedFinite
        <5>2. PICK q : q = heap'
          OBVIOUS
        <5>3. Cardinality({y \in (DOMAIN q) \X Fd : q[y[1]][1][y[2]] = f}) \in Nat
          <6>1. q \in Seq(HeapSet)
            BY <3>8, <5>2
          <6>2. PICK m \in Nat : m = Len(q) /\ DOMAIN q = 1 .. m
            BY <6>1
          <6>3. IsFiniteSet(1 .. m)
            BY FS_Interval
          <6>4. IsFiniteSet((1 .. m) \X Fd)
            BY <6>3, FS_Product, Finite
          <6>5. {y \in (DOMAIN q) \X Fd : q[y[1]][1][y[2]] = f} \subseteq (1 .. m) \X Fd
            BY <6>2
          <6> QED
            BY <6>4, <6>5, FS_Subset, FS_CardinalityType
        <5> QED
          BY <5>1, <5>2, <5>3 DEF Freed
      <4>6. file'[f].count = Cardinality(Held(f)) + Cardinality(Freed(f))
        BY <1>1, <1>2, CountedIs
      <4> QED
        BY <4>2, <4>3, <4>4, <4>5, <4>6
    <3> QED
      BY <3>7, <3>8, <3>9
  <2> QED
    BY <2>1, <2>2 DEF Login
<1>11. Types'
  BY <1>1, <1>2, <1>7, <1>8, <1>10, <1>14 DEF Types, Locks
<1>12. RefsExact'
  <2>1. \A t \in Session : \/ call'[t] = call[t]
                           \/ call[t].pc \notin {"find", "take"} /\ call'[t].pc \notin {"find", "take"}
    BY <1>2, <1>5, <1>7
  <2>2. refs' \in [Files -> Nat] /\ left' \in [Files -> Nat]
    BY <1>11 DEF Types
  <2> QED
    BY <1>1, <1>2, <2>1, <2>2, ExactStill
<1>13. Kept'
  <2>1. Sound(call'[s], user'[s])
    BY <1>5, <1>7
  <2> QED
    BY <1>1, <1>2, <1>7, <1>10, <2>1, KeptStill DEF Kept
<1> QED
  BY <1>10, <1>11, <1>12, <1>13, CountedIs, TypesAre DEF Inv, CountsInv


-----------------------------------------------------------------------------
(* The invariant *)

\* Somebody unlocks an inode.
LEMMA StrayKeeps ==
  ASSUME Inv, NEW i \in Files, Stray(i)
  PROVE  Inv'
<1>1. Types /\ FilesCounted /\ RefsExact /\ Kept
  BY InvIs
<1>2. /\ UNCHANGED <<dir, size, sparse, refs, left, file, user, call, heap, full, said, calls, dead>>
      /\ Unlock(i)
  BY DEF Stray
<1>3. Types'
  <2>1. Locks
    BY <1>1, <1>2, UnlockIs
  <2> QED
    BY <1>1, <1>2, <2>1 DEF Types, Locks
<1>4. FilesCounted'
  BY <1>1, <1>2, CountedStill
<1>5. RefsExact'
  <2>1. refs' \in [Files -> Nat] /\ left' \in [Files -> Nat]
    BY <1>3 DEF Types
  <2> QED
    BY <1>1, <1>2, <2>1, ExactStill
<1>6. Kept'
  BY <1>1, <1>2 DEF Kept
<1> QED
  BY <1>3, <1>4, <1>5, <1>6, TypesAre DEF Inv, CountsInv

\* The commands that begin with an open.
LEMMA OpenKeeps ==
  ASSUME Inv, NEW s \in Session, Open(s)
  PROVE  Inv'
<1>1. Types /\ call[s] \in CallSet
  BY InvIs
<1>2. call[s].pc = "name" /\ call[s].cmd \in {"open", "ls", "cat", "fout"} /\ calls' \in 0 .. MaxCalls
  BY <1>1 DEF Open, Looks, Types
<1>3. PICK c \in CallSet : c = call[s]
  BY <1>1
<1>4. PICK mode \in Mode : mode = c.mode
  BY DEF CallSet
<1>5. Sys_Open(s, c, mode)
  BY <1>3, <1>4 DEF Open
<1>6. c.cmd \in Openers /\ call[s].pc \notin {"find", "take"}
  BY <1>2, <1>3 DEF Openers
<1> QED
  BY <1>2, <1>5, <1>6, SysOpenKeeps

LEMMA CreatKeeps ==
  ASSUME Inv, NEW s \in Session, Creat(s)
  PROVE  Inv'
<1>1. Types /\ call[s] \in CallSet /\ Sound(call[s], user[s])
  BY InvIs
<1>2. call[s].pc = "name" /\ call[s].cmd \in {"touch", "fin"} /\ calls' \in 0 .. MaxCalls
  BY <1>1 DEF Creat, Looks, Types
<1>3. PICK c \in CallSet : c = call[s]
  BY <1>1
<1>4. Sys_Creat(s, c)
  BY <1>3 DEF Creat
<1>5. c.cmd \in Openers /\ call[s].pc \notin {"find", "take"} /\ c.path # "/"
  BY <1>1, <1>2, <1>3 DEF Openers, Sound
<1> QED
  BY <1>2, <1>4, <1>5, SysCreatKeeps

LEMMA ReopenKeeps ==
  ASSUME Inv, NEW s \in Session, Reopen(s)
  PROVE  Inv'
<1>1. Types /\ call[s] \in CallSet /\ Sound(call[s], user[s])
  BY InvIs
<1>2. call[s].pc = "reopen" /\ call[s].cmd = "fin" /\ calls' \in 0 .. MaxCalls
  BY <1>1 DEF Reopen, Types, Sound
<1>3. PICK k \in 1 .. 2 : Sys_Open(s, [call[s] EXCEPT !.more = k], {"write"})
  BY DEF Reopen
<1>4. PICK c : c = [call[s] EXCEPT !.more = k]
  OBVIOUS
<1>5. c \in CallSet /\ c.cmd = "fin"
  BY <1>1, <1>2, <1>4 DEF CallSet
<1>6. PICK mode \in Mode : mode = {"write"}
  BY DEF Mode
<1>7. Sys_Open(s, c, mode)
  BY <1>3, <1>4, <1>6
<1>8. c.cmd \in Openers /\ call[s].pc \notin {"find", "take"}
  BY <1>2, <1>5 DEF Openers
<1> QED
  BY <1>2, <1>5, <1>7, <1>8, SysOpenKeeps

LEMMA BeginKeeps ==
  ASSUME Inv, NEW s \in Session, Begin(s)
  PROVE  Inv'
<1>1. ASSUME NEW d \in Fds, NEW k \in Counts, Read(s, d, k) \/ Write(s, d, k) PROVE Inv'
  BY <1>1, ReadQuiet, WriteQuiet, QuietKeeps
<1>2. ASSUME NEW d \in Fds, NEW j \in Jumps, Seek(s, d, j[1], j[2]) PROVE Inv'
  BY <1>2, SeekQuiet, QuietKeeps
<1>3. CASE NewCommand(s)
  BY <1>3, NewCommandQuiet, QuietKeeps
<1>4. CASE Exit(s) \/ Login(s)
  BY <1>4, ExitKeeps, LoginKeeps
<1> QED
  BY <1>1, <1>2, <1>3, <1>4 DEF Begin

LEMMA StepKeeps ==
  ASSUME Inv, NEW s \in Session, Step(s)
  PROVE  Inv'
<1>1. CASE Open(s) \/ Creat(s) \/ Reopen(s)
  BY <1>1, OpenKeeps, CreatKeeps, ReopenKeeps
<1>2. CASE FindFile(s) \/ TakeFile(s) \/ Close(s)
  BY <1>2, FindFileKeeps, TakeFileKeeps, CloseKeeps
<1>3. CASE Rm(s) \/ Cd(s) \/ Loop(s) \/ LsEntry(s)
  BY <1>3, RmQuiet, CdQuiet, LoopQuiet, LsEntryQuiet, QuietKeeps
<1>4. CASE RdwrLock(s) \/ Turn(s) \/ TurnFails(s) \/ TurnHangs(s) \/ RdwrEnd(s)
  BY <1>4, RdwrLockQuiet, TurnQuiet, TurnFailsQuiet, TurnHangsQuiet, RdwrEndQuiet, QuietKeeps
<1> QED
  BY <1>1, <1>2, <1>3, <1>4 DEF Step

LEMMA InitInv ==
  ASSUME Init
  PROVE  Inv
<1>1. dir \in Seq(Entry) /\ Len(dir) <= MaxOff
  <2>1. dir \in BootDir
    BY DEF Init
  <2>2. dir \in Seq([name : Name, ino : Inode]) /\ Len(dir) <= MaxOff
    BY <2>1, SessionAssumption
  <2> QED
    <3>1. PICK q : q = dir
      OBVIOUS
    <3>2. [name : Name, ino : Inode] \subseteq Entry
      BY DEF Entry
    <3>3. q \in Seq(Entry)
      BY <2>2, <3>1, <3>2, SeqMonotonic
    <3> QED
      BY <2>2, <3>1, <3>3
<1>2. /\ size \in [Inode -> 0 .. MaxOff] /\ sparse \subseteq Inode
      /\ refs \in [Files -> Nat] /\ left \in [Files -> Nat]
      /\ \A i \in Files : refs[i] = 0 /\ left[i] = 0
  BY SessionAssumption DEF Init, Files
<1>3. file \in [File -> FileSet] /\ \A f \in File : file[f].count = 0 /\ file[f].flag = {}
  <2>1. [count |-> 0, flag |-> {}, off |-> 0, ino |-> Root] \in FileSet
    BY SessionAssumption DEF FileSet, Mode
  <2> QED
    BY <2>1 DEF Init
<1>4. user \in [Session -> UserSet] /\ \A s \in Session : user[s].ofiles = NoFiles
  <2>1. [ofiles |-> NoFiles, error |-> FALSE, eax |-> 0] \in UserSet
    BY DEF UserSet, NoFiles
  <2> QED
    BY <2>1 DEF Init
<1>5. /\ call \in [Session -> CallSet]
      /\ \A s \in Session : call[s].pc = "idle" /\ call[s].cmd = "cd"
  <2>1. PICK c : c = NoCall("idle")
    OBVIOUS
  <2>2. c \in CallSet /\ c.pc = "idle" /\ c.cmd = "cd"
    BY <2>1, NoCallIs DEF Pc
  <2>3. call = [s \in Session |-> c]
    BY <2>1 DEF Init
  <2> QED
    BY <2>2, <2>3
<1>6. heap = <<>> /\ heap \in Seq(HeapSet)
  BY DEF Init
<1>7. said \in SaidSet
  BY SilenceIs DEF Init
<1>8. Types
  <2>1. calls = 0 /\ dead = FALSE /\ 0 \in 0 .. MaxCalls
    BY SessionAssumption DEF Init
  <2>2. locked = {} /\ torn = {} /\ full = FALSE
    BY DEF Init
  <2> QED
    BY <1>1, <1>2, <1>3, <1>4, <1>5, <1>6, <1>7, <2>1, <2>2 DEF Types
<1>9. \A f \in File : Held(f) = {} /\ Freed(f) = {}
  <2>1. \A f \in File : Held(f) = {}
    BY <1>4, Finite DEF Held, NoFiles, Null
  <2>2. DOMAIN heap = {}
    BY <1>6
  <2>3. \A f \in File : Freed(f) = {}
    BY <2>2 DEF Freed
  <2> QED
    BY <2>1, <2>3
<1>10. FilesCounted
  <2>1. \A f \in File : Cardinality(Held(f)) = 0 /\ Cardinality(Freed(f)) = 0
    BY <1>9, FS_EmptySet
  <2> QED
    BY <1>3, <2>1, CountedIs
<1>11. \A i \in Files : Using(i) = {} /\ Opening(i) = {}
  BY <1>3, <1>5 DEF Using, Opening
<1>12. RefsExact
  <2>1. \A i \in Files : Cardinality(Using(i)) = 0 /\ Cardinality(Opening(i)) = 0
    BY <1>11, FS_EmptySet
  <2> QED
    BY <1>2, <2>1, ExactIs
<1>13. Kept
  <2>1. \A s \in Session : Sound(call[s], user[s])
    BY <1>5 DEF Sound
  <2> QED
    BY <1>1, <1>3, <2>1 DEF Kept
<1> QED
  BY <1>8, <1>10, <1>12, <1>13, TypesAre DEF Inv, CountsInv

LEMMA NextInv ==
  ASSUME Inv, [Next]_vars
  PROVE  Inv'
<1>1. CASE UNCHANGED vars
  <2>1. Types /\ FilesCounted /\ RefsExact /\ Kept
    BY InvIs
  <2>2. /\ dir' = dir /\ size' = size /\ sparse' = sparse /\ refs' = refs /\ left' = left
        /\ file' = file /\ user' = user /\ call' = call /\ heap' = heap /\ said' = said
        /\ locked' = locked /\ torn' = torn /\ full' = full
        /\ calls' = calls /\ dead' = dead
    BY <1>1 DEF vars
  <2>3. Types'
    BY <2>1, <2>2 DEF Types
  <2>4. FilesCounted'
    BY <2>1, <2>2, CountedStill
  <2>5. RefsExact'
    <3>1. refs' \in [Files -> Nat] /\ left' \in [Files -> Nat]
      BY <2>3 DEF Types
    <3> QED
      BY <2>1, <2>2, <3>1, ExactStill
  <2>6. Kept'
    BY <2>1, <2>2 DEF Kept
  <2> QED
    BY <2>3, <2>4, <2>5, <2>6, TypesAre DEF Inv, CountsInv
<1>2. CASE Next
  BY <1>2, StepKeeps, BeginKeeps, StrayKeeps DEF Next, Files
<1> QED
  BY <1>1, <1>2

\* A File structure counts its descriptors, an inode the File structures and opens
\* that use it and the references that are known to be lost (Open1, CloseF, FAlloc,
\* Logout), for any number of sessions, tables of any size and any directory.
THEOREM CountsInvHolds == Spec => []CountsInv
<1>1. Init => Inv
  BY InitInv
<1>2. Inv /\ [Next]_vars => Inv'
  BY NextInv
<1>3. Inv => CountsInv
  BY DEF Inv
<1> QED
  BY <1>1, <1>2, <1>3, PTL DEF Spec
-----------------------------------------------------------------------------
(***************************************************************************)
(* Session implements FileCursors as long as FAlloc gives no File          *)
(* structure out twice and nobody unlocks an inode in the middle of a      *)
(* transfer, and what ls and cat leave alone.                              *)
(***************************************************************************)

CursorSet == [ino : Files, mode : Mode, off : 0 .. MaxOff]

\* The cursor of descriptor d with the open files o and the File structures g.
CursorOf(o, g, d) ==
  IF o[d] = Null THEN Nobody
  ELSE [ino |-> g[o[d]].ino, mode |-> g[o[d]].flag, off |-> g[o[d]].off]

lengths == [i \in Inode \cup {Root} |-> Length(i)]

\* Steps of the abstract specification by one session.
Acts(s) ==
  \/ C!Open(s) \/ C!Close(s) \/ C!Read(s) \/ C!Write(s) \/ C!Seek(s) \/ C!ReadTooLong(s)
  \/ C!Fails(s) \/ C!Ends(s) \/ C!Works(s) \/ C!Leaves(s)

Stays == cursor' = cursor /\ lengths' = lengths /\ said' = said

LEMMA CursorIs ==
  /\ cursor = [s \in Session |-> [d \in Fd |-> CursorOf(user[s].ofiles, file, d)]]
  /\ cursor' = [s \in Session |-> [d \in Fd |-> CursorOf(user'[s].ofiles, file', d)]]
BY DEF cursor, CursorOf, FileOf

LEMMA CursorType ==
  ASSUME Types, NEW s \in Session, NEW d \in Fd
  PROVE  /\ cursor[s][d] = Nobody <=> user[s].ofiles[d] = Null
         /\ user[s].ofiles[d] # Null =>
              /\ user[s].ofiles[d] \in File /\ cursor[s][d] \in CursorSet
              /\ cursor[s][d] = [ino |-> file[user[s].ofiles[d]].ino,
                                 mode |-> file[user[s].ofiles[d]].flag,
                                 off |-> file[user[s].ofiles[d]].off]
<1>1. cursor[s][d] = CursorOf(user[s].ofiles, file, d)
  BY CursorIs
<1>2. CASE user[s].ofiles[d] # Null
  <2>1. PICK f \in File : f = user[s].ofiles[d]
    BY <1>2 DEF Types, UserSet
  <2>2. PICK g \in FileSet : g = file[f]
    BY DEF Types
  <2>3. PICK k : k = [ino |-> g.ino, mode |-> g.flag, off |-> g.off]
    OBVIOUS
  <2>4. k \in CursorSet
    BY <2>3 DEF CursorSet, FileSet, Files
  <2>5. Nobody \notin CursorSet
    BY SessionAssumption DEF CursorSet, Files, Mode, Root
  <2>6. cursor[s][d] = k
    BY <1>1, <1>2, <2>1, <2>2, <2>3 DEF CursorOf
  <2> QED
    BY <1>2, <2>1, <2>2, <2>3, <2>4, <2>5, <2>6
<1>3. CASE user[s].ofiles[d] = Null
  BY <1>1, <1>3 DEF CursorOf
<1> QED
  BY <1>2, <1>3

\* A File structure that is not shared has one descriptor.
LEMMA Alone ==
  ASSUME Types, FilesCounted, ~Shared, NEW f \in File,
         NEW s \in Session, NEW d \in Fd, user[s].ofiles[d] = f,
         NEW t \in Session, NEW e \in Fd, user[t].ofiles[e] = f
  PROVE  s = t /\ d = e
<1>1. PICK S : S = Held(f)
  OBVIOUS
<1>2. PICK x : x = <<s, d>>
  OBVIOUS
<1>3. PICK y : y = <<t, e>>
  OBVIOUS
<1>4. x \in S /\ y \in S
  BY <1>1, <1>2, <1>3 DEF Held
<1>5. IsFiniteSet(S)
  <2>1. S \subseteq Session \X Fd
    BY <1>1 DEF Held
  <2> QED
    BY <2>1, Finite, FS_Subset
<1>6. Cardinality(S) <= 1 /\ Cardinality(S) \in Nat
  <2>1. file[f].count = Cardinality(S) + Cardinality(Freed(f)) /\ Cardinality(Freed(f)) \in Nat
    BY <1>1, CountedIs, FreedFinite DEF Types
  <2>2. file[f].count \in Nat /\ ~(file[f].count > 1)
    BY DEF Shared, Types, FileSet
  <2>3. Cardinality(S) \in Nat
    BY <1>5, FS_CardinalityType
  <2> QED
    BY <2>1, <2>2, <2>3
<1>7. x = y
  <2>1. SUFFICES ASSUME x # y PROVE FALSE
    OBVIOUS
  <2>2. IsFiniteSet({x, y}) /\ Cardinality({x, y}) = 2
    <3>1. IsFiniteSet({x}) /\ Cardinality({x}) = 1
      BY FS_Singleton
    <3>2. y \notin {x}
      BY <2>1
    <3>3. Cardinality({x} \cup {y}) = Cardinality({x}) + 1 /\ IsFiniteSet({x} \cup {y})
      BY <3>1, <3>2, FS_AddElement
    <3>4. {x} \cup {y} = {x, y}
      OBVIOUS
    <3> QED
      BY <3>1, <3>3, <3>4
  <2>3. {x, y} \subseteq S
    BY <1>4
  <2>4. Cardinality({x, y}) <= Cardinality(S)
    BY <1>5, <2>3, FS_Subset
  <2> QED
    BY <1>6, <2>2, <2>4
<1> QED
  BY <1>2, <1>3, <1>7

Alike(f, g) == g.ino = f.ino /\ g.flag = f.flag /\ g.off = f.off

\* No descriptor has changed, nor a File structure that one names.
LEMMA CursorSame ==
  ASSUME Types, \A t \in Session : user'[t].ofiles = user[t].ofiles,
         \A t \in Session, e \in Fd :
           user[t].ofiles[e] # Null => Alike(file[user[t].ofiles[e]], file'[user[t].ofiles[e]])
  PROVE  cursor' = cursor
<1>1. ASSUME NEW t \in Session, NEW e \in Fd
      PROVE  CursorOf(user'[t].ofiles, file', e) = CursorOf(user[t].ofiles, file, e)
  BY DEF CursorOf, Alike
<1> QED
  BY <1>1, CursorIs

\* One descriptor has changed, or the File structure that it names.
LEMMA CursorStep ==
  ASSUME Types, NEW s \in Session, NEW d \in Fd, NEW k,
         \A t \in Session, e \in Fd :
           (t # s \/ e # d) => /\ user'[t].ofiles[e] = user[t].ofiles[e]
                               /\ user[t].ofiles[e] # Null =>
                                    Alike(file[user[t].ofiles[e]], file'[user[t].ofiles[e]]),
         k = CursorOf(user'[s].ofiles, file', d)
  PROVE  cursor' = [cursor EXCEPT ![s][d] = k]
<1>1. ASSUME NEW t \in Session, NEW e \in Fd, t # s \/ e # d
      PROVE  CursorOf(user'[t].ofiles, file', e) = CursorOf(user[t].ofiles, file, e)
  BY <1>1 DEF CursorOf, Alike
<1>2. PICK a : a = [t \in Session |-> [e \in Fd |-> CursorOf(user[t].ofiles, file, e)]]
  OBVIOUS
<1>3. PICK b : b = [t \in Session |-> [e \in Fd |-> CursorOf(user'[t].ofiles, file', e)]]
  OBVIOUS
<1>4. \A t \in Session, e \in Fd : b[t][e] = IF t = s /\ e = d THEN k ELSE a[t][e]
  BY <1>1, <1>2, <1>3
<1>5. b = [a EXCEPT ![s][d] = k]
  <2>1. a = [t \in Session |-> [e \in Fd |-> a[t][e]]]
    BY <1>2
  <2>2. b = [t \in Session |-> [e \in Fd |-> b[t][e]]]
    BY <1>3
  <2>3. [a EXCEPT ![s][d] = k] = [t \in Session |-> IF t = s THEN [a[s] EXCEPT ![d] = k] ELSE a[t]]
    BY <2>1
  <2>4. [a[s] EXCEPT ![d] = k] = [e \in Fd |-> IF e = d THEN k ELSE a[s][e]]
    BY <2>1
  <2>5. ASSUME NEW t \in Session
        PROVE  b[t] = IF t = s THEN [e \in Fd |-> IF e = d THEN k ELSE a[s][e]] ELSE a[t]
    <3>1. b[t] = [e \in Fd |-> b[t][e]] /\ a[t] = [e \in Fd |-> a[t][e]]
      BY <1>2, <1>3
    <3> QED
      BY <3>1, <1>4
  <2> QED
    BY <2>2, <2>3, <2>4, <2>5, <1>3
<1> QED
  BY <1>2, <1>3, <1>5, CursorIs

-----------------------------------------------------------------------------
(* Lengths, and the steps of FileCursors that a call with an error takes *)

LEMMA LengthsAre ==
  ASSUME Types, Kept
  PROVE  /\ lengths \in [Files -> 0 .. MaxOff] /\ Root \in Files /\ DOMAIN lengths = Files
         /\ \A i \in Files : lengths[i] = IF i = Root THEN Len(dir) ELSE size[i]
<1>1. \A i \in Files : Length(i) \in 0 .. MaxOff
  BY LengthIs
<1> QED
  BY <1>1, FilesAre DEF lengths, Files, Length

LEMMA LengthsSame ==
  ASSUME size' = size, Len(dir') = Len(dir)
  PROVE  lengths' = lengths
BY DEF lengths, Length

LEMMA LengthsPrimed ==
  lengths' = [i \in Files |-> IF i = Root THEN Len(dir') ELSE size'[i]]
BY DEF lengths, Length, Files

\* A file is emptied, or none.
LEMMA LengthsCut ==
  ASSUME Types, Kept, Len(dir') = Len(dir), NEW i \in Files,
         Truncate(i) \/ UNCHANGED <<size, sparse>>
  PROVE  /\ \E j \in Inode \cup {Root} : lengths' \in {lengths, [lengths EXCEPT ![j] = 0]}
         /\ C!Resizes
<1>1. \E j \in Files : lengths' \in {lengths, [lengths EXCEPT ![j] = 0]}
  <2>1. CASE UNCHANGED <<size, sparse>>
    BY <2>1, LengthsSame, FilesAre
  <2>2. CASE Truncate(i) /\ i = Root
    <3>1. size' = [j \in Inode |-> size[j]]
      BY <2>2, FilesAre DEF Truncate
    <3>2. size' = size
      BY <3>1 DEF Types
    <3> QED
      BY <3>2, LengthsSame, FilesAre
  <2>3. CASE Truncate(i) /\ i # Root
    <3>1. size' = [j \in Inode |-> IF j = i THEN 0 ELSE size[j]]
      BY <2>3 DEF Truncate
    <3>2. lengths' = [j \in Files |-> IF j = Root THEN Len(dir') ELSE size'[j]]
      BY LengthsPrimed
    <3>3. \A j \in Files : lengths'[j] = IF j = i THEN 0 ELSE lengths[j]
      BY <2>3, <3>1, <3>2, LengthsAre DEF Files
    <3>4. lengths' = [lengths EXCEPT ![i] = 0]
      BY <3>2, <3>3, LengthsAre
    <3> QED
      BY <3>4
  <2> QED
    BY <2>1, <2>2, <2>3
<1>2. PICK j \in Files : lengths' \in {lengths, [lengths EXCEPT ![j] = 0]}
  BY <1>1
<1>3. PICK n \in 0 .. MaxOff : lengths' = [lengths EXCEPT ![j] = n]
  <2>1. CASE lengths' = lengths
    BY <2>1, LengthsAre
  <2>2. CASE lengths' = [lengths EXCEPT ![j] = 0]
    <3>1. 0 \in 0 .. MaxOff
      BY SessionAssumption
    <3> QED
      BY <2>2, <3>1
  <2> QED
    BY <1>2, <2>1, <2>2
<1>4. C!Resizes
  BY <1>3 DEF C!Resizes, lengths, Files
<1> QED
  BY <1>2, <1>4 DEF Files

LEMMA ResizesIs ==
  ASSUME NEW j \in Files, NEW n \in 0 .. MaxOff, lengths' = [lengths EXCEPT ![j] = n]
  PROVE  C!Resizes
BY DEF C!Resizes, lengths, Files

LEMMA Unresized ==
  ASSUME Types, Kept, size' = size, Len(dir') = Len(dir)
  PROVE  lengths' = lengths /\ C!Resizes
<1>1. lengths' = lengths
  BY LengthsSame
<1>2. lengths' = [lengths EXCEPT ![Root] = lengths[Root]] /\ lengths[Root] \in 0 .. MaxOff
  BY <1>1, LengthsAre
<1> QED
  BY <1>1, <1>2, ResizesIs, FilesAre

LEMMA FailsIs ==
  ASSUME NEW s \in Session, NEW c \in Command \ {"login", "exit"}, NEW asked \in Counts \cup {0}, NEW n \in Int,
         Answer(s, c, FALSE, asked, n), C!Moves(s), C!Resizes
  PROVE  Acts(s)
<1>1. said' = [by |-> s, cmd |-> c, ok |-> FALSE, asked |-> asked, n |-> n]
  BY DEF Answer
<1>2. c \in {"open", "close", "read", "write", "seek", "touch",
             "rm", "cd", "ls", "cat", "fin", "fout"}
  BY DEF Command
<1>3. C!Fails(s)
  BY <1>1, <1>2 DEF C!Fails
<1> QED
  BY <1>3 DEF Acts

LEMMA SameMoves ==
  ASSUME cursor' = cursor, NEW s
  PROVE  C!Moves(s)
BY DEF C!Moves

LEMMA WorksIs ==
  ASSUME NEW s, said' = said, C!Moves(s) \/ \E d \in Fd : C!Opens(s, d), C!Resizes
  PROVE  Acts(s)
<1>1. C!Works(s)
  BY DEF C!Works
<1> QED
  BY <1>1 DEF Acts

\* A step by session s is one of the abstract specification, or none.
Right(s) == Stays \/ C!Begins \/ Acts(s)

LEMMA SameFile ==
  ASSUME Types, \A t \in Session : user'[t].ofiles = user[t].ofiles, file' = file
  PROVE  cursor' = cursor
<1>1. \A f : Alike(file[f], file'[f])
  BY DEF Alike
<1> QED
  BY <1>1, CursorSame

\* A call that opens nothing.
LEMMA NotOpenedActs ==
  ASSUME Types, Kept, NEW s \in Session, NEW c \in Command \ {"login", "exit"}, NEW x \in Int, NotOpened(s, c, x),
         file' = file, C!Resizes
  PROVE  Acts(s) /\ cursor' = cursor
<1>1. cursor' = cursor
  BY NotOpenedIs, SameFile
<1>2. CASE c \in {"ls", "cat"}
  <2>1. said' = said
    BY <1>2 DEF NotOpened
  <2> QED
    BY <1>1, <2>1, SameMoves, WorksIs
<1>3. CASE c \notin {"ls", "cat"}
  <2>1. Answer(s, c, FALSE, 0, 0)
    BY <1>3 DEF NotOpened, Return
  <2>2. 0 \in Counts \cup {0} /\ 0 \in Int
    OBVIOUS
  <2> QED
    BY <1>1, <2>1, <2>2, SameMoves, FailsIs
<1> QED
  BY <1>2, <1>3


-----------------------------------------------------------------------------
(* The steps that open a file *)

LEMMA FoundActs ==
  ASSUME Types, Kept, NEW s \in Session, NEW c \in CallSet, NEW i, NEW mode, Found(s, c, i, mode),
         \A t \in Session : user'[t].ofiles = user[t].ofiles, file' = file
  PROVE  cursor' = cursor /\ said' = said
BY SameFile DEF Found

\* A command that waits for ever.
LEMMA HangActs ==
  ASSUME Types, Kept, NEW s \in Session, NEW i, NEW l, Hang(s, i, l), Len(dir') = Len(dir), file' = file
  PROVE  Stays
<1>1. user' = user /\ size' = size /\ said' = said
  BY DEF Hang
<1> QED
  BY <1>1, SameFile, LengthsSame DEF Stays

LEMMA SysOpenActs ==
  ASSUME Inv, NEW s \in Session, NEW c \in CallSet, c.cmd \notin {"login", "exit"},
         NEW mode \in Mode, Sys_Open(s, c, mode)
  PROVE  Right(s) /\ cursor' = cursor
<1>1. Types /\ Kept
  BY InvIs
<1>2. UNCHANGED <<dir, size, sparse, left, file, heap, dead>>
  BY DEF Sys_Open
<1>3. lengths' = lengths /\ C!Resizes
  BY <1>1, <1>2, Unresized
<1>4. PICK x \in Int : x = user[s].eax
  BY <1>1 DEF Types, UserSet
<1>5. PICK i : i = NameI(c.path)
  OBVIOUS
<1>6. CASE Found(s, c, i, mode) /\ SetUser(s, x, FALSE)
  <2>1. \A t \in Session : user'[t].ofiles = user[t].ofiles
    <3>1. PICK b \in BOOLEAN : b = FALSE
      OBVIOUS
    <3>2. SetUser(s, x, b)
      BY <1>6, <3>1
    <3> QED
      BY <1>1, <3>2, SetUserIs
  <2>2. cursor' = cursor /\ said' = said
    BY <1>1, <1>2, <1>6, <2>1, FoundActs
  <2> QED
    BY <1>3, <2>2 DEF Right, Stays
<1>7. CASE NotOpened(s, c.cmd, x)
  <2>1. PICK cmd \in Command \ {"login", "exit"} : cmd = c.cmd
    BY DEF CallSet
  <2>2. NotOpened(s, cmd, x)
    BY <1>7, <2>1
  <2> QED
    BY <1>1, <1>2, <1>3, <2>2, NotOpenedActs DEF Right
<1> QED
  BY <1>4, <1>5, <1>6, <1>7 DEF Sys_Open

LEMMA CreatThereActs ==
  ASSUME Inv, NEW s \in Session, NEW c \in CallSet, c.cmd \notin {"login", "exit"},
         CreatThere(s, c), UNCHANGED <<file, heap, dead>>
  PROVE  Right(s) /\ cursor' = cursor
<1>1. Types /\ Kept
  BY InvIs
<1>2. 0 \in Int /\ dir' = dir
  BY DEF CreatThere
<1>3. PICK i \in Files : i = NameI(c.path)
  BY <1>1, NameIIs DEF Types, CreatThere
<1>4. CASE Truncate(i) /\ Found(s, c, i, {"write"}) /\ SetUser(s, 0, FALSE)
  <2>1. \A t \in Session : user'[t].ofiles = user[t].ofiles
    <3>1. PICK b \in BOOLEAN : b = FALSE
      OBVIOUS
    <3>2. SetUser(s, 0, b)
      BY <1>4, <3>1
    <3> QED
      BY <1>1, <3>2, SetUserZero
  <2>2. cursor' = cursor /\ said' = said
    BY <1>1, <1>4, <2>1, FoundActs
  <2>3. C!Resizes
    BY <1>1, <1>2, <1>4, LengthsCut
  <2> QED
    BY <2>2, <2>3, SameMoves, WorksIs DEF Right
<1>5. CASE Hang(s, i, i)
  BY <1>1, <1>2, <1>5, HangActs DEF Right, Stays
<1>6. CASE NotOpened(s, c.cmd, 0) /\ UNCHANGED <<size, sparse, refs, left, lockVars>>
  <2>1. PICK cmd \in Command \ {"login", "exit"} : cmd = c.cmd
    BY DEF CallSet
  <2>2. PICK x \in Int : x = 0
    OBVIOUS
  <2>3. NotOpened(s, cmd, x)
    BY <1>6, <2>1, <2>2
  <2>4. C!Resizes
    BY <1>1, <1>2, <1>6, Unresized
  <2> QED
    BY <1>1, <2>3, <2>4, NotOpenedActs DEF Right
<1> QED
  BY <1>3, <1>4, <1>5, <1>6 DEF CreatThere

LEMMA CreatNewActs ==
  ASSUME Inv, NEW s \in Session, NEW c \in CallSet, c.cmd \notin {"login", "exit"}, c.path \in Name,
         CreatNew(s, c), UNCHANGED <<file, heap, dead>>
  PROVE  Right(s) /\ cursor' = cursor
<1>1. Types /\ Kept /\ Len(dir) <= MaxOff
  BY InvIs DEF Kept
<1>2. CASE /\ FreeEntries = {} => Len(dir) < MaxOff
           /\ \E j \in FreeInodes :
                WriteDir(c.path, j) /\ Found(s, c, j, {"write"}) /\ SetUser(s, 0, FALSE)
           /\ UNCHANGED <<size, sparse, left, lockVars>>
  <2>1. PICK j \in FreeInodes : WriteDir(c.path, j) /\ Found(s, c, j, {"write"}) /\ SetUser(s, 0, FALSE)
    BY <1>2
  <2>2. \A t \in Session : user'[t].ofiles = user[t].ofiles
    <3>1. PICK b \in BOOLEAN : b = FALSE
      OBVIOUS
    <3>2. SetUser(s, 0, b)
      BY <2>1, <3>1
    <3> QED
      BY <1>1, <3>2, SetUserZero
  <2>3. cursor' = cursor /\ said' = said
    BY <1>1, <2>1, <2>2, FoundActs
  <2>4. PICK n : n = Len(dir')
    OBVIOUS
  <2>5. n \in 0 .. MaxOff
    <3>1. PICK e \in Entry : e = [name |-> c.path, ino |-> j]
      BY DEF Entry, FreeInodes
    <3>2. dir' = IF FreeEntries = {} THEN Append(dir, e) ELSE [dir EXCEPT ![Lowest(FreeEntries)] = e]
      BY <2>1, <3>1 DEF WriteDir
    <3>3. dir \in Seq(Entry) /\ Len(dir) \in Nat
      BY <1>1 DEF Types
    <3>4. CASE FreeEntries = {}
      <4>1. n = Len(dir) + 1 /\ Len(dir) < MaxOff
        BY <1>2, <2>4, <3>2, <3>3, <3>4
      <4> QED
        BY <3>3, <4>1, SessionAssumption
    <3>5. CASE FreeEntries # {}
      <4>1. FreeEntries \in SUBSET Nat /\ FreeEntries \subseteq 1 .. Len(dir)
        BY <3>3 DEF FreeEntries
      <4>2. PICK k \in 1 .. Len(dir) : k = Lowest(FreeEntries)
        BY <3>5, <4>1, LowestIs
      <4>3. dir' = [dir EXCEPT ![k] = e]
        BY <3>2, <3>5, <4>2
      <4>4. n = Len(dir)
        BY <2>4, <3>1, <3>3, <4>2, <4>3, ExceptSeq
      <4> QED
        BY <1>1, <3>3, <4>4, SessionAssumption
    <3> QED
      BY <3>4, <3>5
  <2>6. lengths' = [lengths EXCEPT ![Root] = n]
    <3>1. size' = size
      BY <1>2
    <3>2. lengths' = [k \in Files |-> IF k = Root THEN n ELSE size[k]]
      BY <2>4, <3>1, LengthsPrimed
    <3>3. lengths = [k \in Files |-> IF k = Root THEN Len(dir) ELSE size[k]]
      BY <1>1, FilesAre DEF lengths, Length, Files
    <3> QED
      BY <3>2, <3>3, FilesAre
  <2>7. C!Resizes
    BY <2>5, <2>6, FilesAre, ResizesIs
  <2> QED
    BY <2>3, <2>7, SameMoves, WorksIs DEF Right
<1>3. CASE NotOpened(s, c.cmd, 0) /\ UNCHANGED <<dir, size, sparse, refs, left>>
  <2>1. PICK cmd \in Command \ {"login", "exit"} : cmd = c.cmd
    BY DEF CallSet
  <2>2. PICK x \in Int : x = 0
    OBVIOUS
  <2>3. NotOpened(s, cmd, x)
    BY <1>3, <2>1, <2>2
  <2>4. C!Resizes
    BY <1>1, <1>3, Unresized
  <2> QED
    BY <1>1, <2>3, <2>4, NotOpenedActs DEF Right
<1>4. ASSUME NEW j \in FreeInodes, Hang(s, j, Root), dir' = dir
      PROVE  Right(s) /\ cursor' = cursor
  BY <1>1, <1>4, HangActs DEF Right, Stays
<1> QED
  BY <1>2, <1>3, <1>4 DEF CreatNew

LEMMA SysCreatActs ==
  ASSUME Inv, NEW s \in Session, NEW c \in CallSet, c.cmd \notin {"login", "exit"}, c.path \in Name,
         Sys_Creat(s, c)
  PROVE  Right(s) /\ cursor' = cursor
BY CreatThereActs, CreatNewActs DEF Sys_Creat

\* The inode that a call which opens nothing gives back.
LEMMA FindFileActs ==
  ASSUME Inv, NEW s \in Session, FindFile(s)
  PROVE  Right(s) /\ cursor' = cursor
<1>1. Types /\ Kept
  BY InvIs
<1>2. UNCHANGED <<dir, left, file, heap, calls, dead>> /\ call[s] \in CallSet /\ call[s].pc = "find"
  BY <1>1 DEF FindFile, Types
<1>3. FreeFds(s) \in SUBSET Nat
  BY Finite DEF FreeFds
<1>4. CASE /\ FreeFds(s) # {}
           /\ SetUser(s, Lowest(FreeFds(s)), user[s].error)
           /\ UNCHANGED <<size, sparse, refs, said>>
  <2>1. PICK x \in Int : x = Lowest(FreeFds(s))
    BY <1>3, <1>4, LowestIs
  <2>2. PICK b \in BOOLEAN : b = user[s].error
    BY <1>1 DEF Types, UserSet
  <2>3. SetUser(s, x, b)
    BY <1>4, <2>1, <2>2
  <2>4. \A t \in Session : user'[t].ofiles = user[t].ofiles
    BY <1>1, <2>3, SetUserIs
  <2>5. cursor' = cursor
    BY <1>1, <1>2, <2>4, SameFile
  <2>6. lengths' = lengths
    BY <1>2, <1>4, LengthsSame
  <2> QED
    BY <1>4, <2>5, <2>6 DEF Right, Stays
<1>5. CASE /\ NotOpened(s, call[s].cmd, IF FreeFds(s) = {} THEN -1 ELSE Lowest(FreeFds(s)))
           /\ IPut(call[s].ino)
  <2>1. PICK x \in Int : x = IF FreeFds(s) = {} THEN -1 ELSE Lowest(FreeFds(s))
    BY <1>3, LowestIs
  <2>2. PICK cmd \in Command \ {"login", "exit"} : cmd = call[s].cmd
    BY <1>1, <1>2 DEF CallSet, Kept, Sound
  <2>3. NotOpened(s, cmd, x)
    BY <1>5, <2>1, <2>2
  <2>4. PICK i \in Files : i = call[s].ino
    BY <1>2 DEF CallSet, Files
  <2>5. (Truncate(i) \/ UNCHANGED <<size, sparse>>) /\ Len(dir') = Len(dir)
    BY <1>2, <1>5, <2>4 DEF IPut
  <2>6. C!Resizes
    BY <1>1, <2>5, LengthsCut
  <2> QED
    BY <1>1, <1>2, <2>3, <2>6, NotOpenedActs DEF Right
<1> QED
  BY <1>4, <1>5 DEF FindFile

\* FAlloc's File structure was free, so no descriptor named it.
LEMMA TakeFileActs ==
  ASSUME Inv, NEW s \in Session, TakeFile(s), ~Shared'
  PROVE  Acts(s)
<1>1. Types /\ FilesCounted /\ Kept
  BY InvIs
<1>2. /\ UNCHANGED <<dir, size, sparse, refs, heap, calls, dead>> /\ call[s].pc = "take"
      /\ Opened(s) /\ call[s] \in CallSet /\ user[s] \in UserSet /\ Sound(call[s], user[s])
  BY InvIs DEF TakeFile
<1>3. PICK f \in File : f = call[s].file
  BY <1>2 DEF Sound
<1>4. PICK d \in Fd : d = call[s].fd /\ user[s].ofiles[d] = Null
  BY <1>2 DEF Sound
<1>5. PICK i \in Files : i = call[s].ino
  BY <1>2 DEF CallSet, Files
<1>6. PICK mode \in Mode : mode = call[s].mode
  BY <1>2 DEF CallSet
<1>7. PICK old \in FileSet : old = file[f]
  BY <1>1 DEF Types
<1>8. PICK new : new = [count |-> old.count + 1, flag |-> mode, off |-> 0, ino |-> i]
  OBVIOUS
<1>9. /\ user' = [user EXCEPT ![s].ofiles[d] = f]
      /\ file' = [file EXCEPT ![f] = new]
  BY <1>3, <1>4, <1>5, <1>6, <1>7, <1>8 DEF TakeFile
<1>10. file'[f] = new /\ \A g \in File \ {f} : file'[g] = file[g]
  BY <1>1, <1>9 DEF Types
<1>11. /\ user'[s].ofiles[d] = f
       /\ \A t \in Session, e \in Fd : t # s \/ e # d => user'[t].ofiles[e] = user[t].ofiles[e]
  BY <1>1, <1>9 DEF Types, UserSet
<1>12. old.count = 0
  <2>1. ~(new.count > 1) /\ old.count \in Nat
    BY <1>10 DEF Shared, FileSet
  <2> QED
    BY <1>8, <2>1
<1>13. \A t \in Session, e \in Fd : user[t].ofiles[e] # f
  BY <1>1, <1>7, <1>12, HeldIsCounted
<1>14. \A t \in Session, e \in Fd :
         user[t].ofiles[e] # Null => Alike(file[user[t].ofiles[e]], file'[user[t].ofiles[e]])
  <2>1. \A t \in Session, e \in Fd : user[t].ofiles[e] # Null => user[t].ofiles[e] \in File \ {f}
    BY <1>1, <1>13 DEF Types, UserSet
  <2> QED
    BY <1>10, <2>1 DEF Alike
<1>15. PICK k : k = [ino |-> i, mode |-> mode, off |-> 0]
  OBVIOUS
<1>16. k = CursorOf(user'[s].ofiles, file', d)
  BY <1>8, <1>10, <1>11, <1>15, Finite DEF CursorOf, Null
<1>17. cursor' = [cursor EXCEPT ![s][d] = k]
  BY <1>1, <1>11, <1>14, <1>16, CursorStep
<1>18. C!Opens(s, d)
  <2>1. cursor[s][d] = Nobody
    BY <1>1, <1>4, CursorType
  <2> QED
    BY <1>15, <1>17, <2>1 DEF C!Opens, Files, Mode
<1>19. lengths' = lengths /\ C!Resizes
  BY <1>1, <1>2, Unresized
<1>20. CASE call[s].cmd = "open"
  <2>1. Answer(s, "open", TRUE, 0, d)
    BY <1>2, <1>4, <1>20 DEF Opened
  <2>2. C!Says(s, "open", TRUE, 0, d)
    BY <2>1 DEF Answer, C!Says
  <2>3. C!Open(s)
    BY <1>18, <1>19, <2>2 DEF C!Open, lengths
  <2> QED
    BY <2>3 DEF Acts
<1>21. CASE call[s].cmd = "touch"
  <2>1. Answer(s, "touch", TRUE, 0, 0)
    BY <1>2, <1>21 DEF Opened, Return
  <2>2. C!Succeeds(s, {"touch"})
    BY <2>1 DEF Answer, C!Succeeds
  <2>3. C!Ends(s)
    BY <1>18, <1>19, <2>2 DEF C!Ends, lengths, Files, Root
  <2> QED
    BY <2>3 DEF Acts
<1>22. CASE call[s].cmd \notin {"open", "touch"}
  <2>1. said' = said
    BY <1>2, <1>22 DEF Opened, GoesOn
  <2> QED
    BY <1>18, <1>19, <2>1, WorksIs
<1> QED
  BY <1>20, <1>21, <1>22

-----------------------------------------------------------------------------
(* Reading and writing *)

\* What the command does with an outcome that is not the whole of a read or write.
LEMMA AfterActs ==
  ASSUME NEW s \in Session, NEW c \in CallSet, Moving(c, user[s]),
         NEW n \in Nat, NEW x \in Int, NEW b \in BOOLEAN, After(s, c, Outcome(n, x, b)),
         c.cmd \in Movers => b, C!Moves(s), C!Resizes, lengths' = lengths, x = 0 => cursor' = cursor
  PROVE  Acts(s)
<1>1. PICK o : o = Outcome(n, x, b)
  OBVIOUS
<1>2. o.n = n /\ o.eax = x /\ o.error = b /\ After(s, c, o)
  BY <1>1 DEF Outcome
<1>3. PICK cmd \in Command \ {"login", "exit"} : cmd = c.cmd /\ cmd \in Loopers \cup Movers
  BY DEF Moving, CallSet, Loopers, Movers, Command
<1>4. CASE cmd \in Movers
  <2>1. PICK k \in Counts \cup {0} : k = c.asked
    BY <1>3, <1>4 DEF Moving
  <2>2. b = TRUE
    BY <1>3, <1>4
  <2>3. Answer(s, cmd, FALSE, k, x)
    <3>1. Answer(s, c.cmd, ~o.error, c.asked, o.eax)
      BY <1>2, <1>3, <1>4 DEF After, Movers
    <3>2. o.error = TRUE
      BY <1>2, <2>2
    <3> QED
      BY <1>2, <1>3, <2>1, <3>1, <3>2 DEF Answer
  <2> QED
    BY <2>3, FailsIs
<1>5. CASE cmd = "ls" /\ x = 0 /\ Return(s, "ls", TRUE)
  <2>1. Answer(s, "ls", TRUE, 0, 0)
    BY <1>5 DEF Return
  <2>2. C!Succeeds(s, {"rm", "cd", "ls"})
    BY <2>1 DEF Answer, C!Succeeds
  <2>3. C!Ends(s)
    BY <1>5, <2>2, FilesAre DEF C!Ends, lengths, Files
  <2> QED
    BY <2>3 DEF Acts
<1>6. CASE said' = said
  BY <1>6, WorksIs
<1>7. CASE Return(s, cmd, FALSE)
  <2>1. Answer(s, cmd, FALSE, 0, 0)
    BY <1>7 DEF Return
  <2>2. 0 \in Counts \cup {0} /\ 0 \in Int
    OBVIOUS
  <2> QED
    BY <2>1, <2>2, FailsIs
<1>8. cmd \in Movers \/ (cmd = "ls" /\ x = 0 /\ Return(s, "ls", TRUE)) \/ said' = said \/ Return(s, cmd, FALSE)
  BY <1>2, <1>3 DEF After, GoesOn, Movers
<1> QED
  BY <1>4, <1>5, <1>6, <1>7, <1>8

\* Up to NFlock: a transfer begins, or there is an error.
LEMMA RdwrActs ==
  ASSUME Inv, NEW s \in Session, NEW c \in CallSet, Moving(c, user[s]), Rdwr(s, c)
  PROVE  Right(s) /\ cursor' = cursor
<1>1. Types /\ Kept /\ user[s] \in UserSet
  BY InvIs
<1>2. UNCHANGED <<dir, size, sparse, file>>
  BY DEF Rdwr
<1>3. lengths' = lengths /\ C!Resizes
  BY <1>1, <1>2, Unresized
<1>4. CASE user' = user /\ said' = Silence
  <2>1. cursor' = cursor
    BY <1>1, <1>2, <1>4, SameFile
  <2>2. said'.cmd = "login"
    BY <1>4, SilenceIs
  <2>3. C!Begins
    BY <1>3, <2>1, <2>2 DEF C!Begins, lengths
  <2> QED
    BY <2>1, <2>3 DEF Right
<1>5. CASE After(s, c, Outcome(0, user[s].eax, TRUE))
  <2>1. PICK x \in Int : x = user[s].eax
    BY <1>1 DEF UserSet
  <2>2. PICK n \in Nat : n = 0
    OBVIOUS
  <2>3. PICK b \in BOOLEAN : b = TRUE
    OBVIOUS
  <2>4. After(s, c, Outcome(n, x, b)) /\ (user[s].error => b)
    BY <1>5, <2>1, <2>2, <2>3
  <2>5. \A t \in Session : user'[t].ofiles = user[t].ofiles
    BY <1>1, <2>4, AfterIs
  <2>6. cursor' = cursor
    BY <1>1, <1>2, <2>5, SameFile
  <2>7. Acts(s)
    BY <1>3, <2>3, <2>4, <2>6, SameMoves, AfterActs
  <2> QED
    BY <2>6, <2>7 DEF Right
<1> QED
  BY <1>4, <1>5 DEF Rdwr

LEMMA LoopActs ==
  ASSUME Inv, NEW s \in Session, Loop(s)
  PROVE  Right(s) /\ cursor' = cursor
<1>1. Types /\ Sound(call[s], user[s]) /\ call[s] \in CallSet
  BY InvIs
<1>2. PICK k \in Nat : k = IF call[s].cmd = "ls" THEN 1 ELSE BUF
  BY SessionAssumption
<1>3. PICK c : c = [call[s] EXCEPT !.asked = k]
  OBVIOUS
<1>4. Rdwr(s, c) /\ call[s].pc = "loop"
  BY <1>2, <1>3 DEF Loop
<1>5. /\ c \in CallSet /\ c.cmd = call[s].cmd /\ c.own = call[s].own /\ c.more = call[s].more
      /\ c.n = call[s].n
  BY <1>1, <1>3 DEF CallSet
<1>6. Moving(c, user[s])
  BY <1>1, <1>4, <1>5 DEF Sound, Moving
<1> QED
  BY <1>4, <1>5, <1>6, RdwrActs

\* A step of a transfer that moves no cursor.
LEMMA TransferActs ==
  ASSUME Inv, NEW s \in Session, RdwrLock(s) \/ Turn(s) \/ TurnFails(s) \/ TurnHangs(s) \/ LsEntry(s)
  PROVE  Right(s) /\ cursor' = cursor
<1>1. Types /\ Kept /\ user[s] \in UserSet
  BY InvIs
<1>2. file' = file /\ dir' = dir
  BY DEF RdwrLock, Turn, TurnFails, TurnHangs, LsEntry
<1>3. \A t \in Session : user'[t].ofiles = user[t].ofiles
  <2>1. CASE TurnFails(s)
    BY <2>1, TurnFailsQuiet DEF Quiet
  <2>2. CASE user' = user
    BY <2>2
  <2> QED
    BY <2>1, <2>2 DEF RdwrLock, Turn, TurnHangs, LsEntry
<1>4. cursor' = cursor
  BY <1>1, <1>2, <1>3, SameFile
<1>5. said' = said
  BY DEF RdwrLock, Turn, TurnFails, TurnHangs, LsEntry, GoesOn
<1>6. CASE size' = size
  <2>1. lengths' = lengths
    BY <1>2, <1>6, LengthsSame
  <2> QED
    BY <1>4, <1>5, <2>1 DEF Right, Stays
<1>7. CASE Turn(s)
  <2>1. PICK c \in CallSet : c = call[s]
    BY InvIs
  <2>2. c.pc = "io" /\ Part(c) \in Nat /\ At(c) + Part(c) <= MaxOff /\ MaxOff \in Nat
    BY <1>7, <2>1, TurnIs, SessionAssumption
  <2>3. At(c) \in Nat /\ (Direction(c) = "write" => c.ino \in Inode)
    BY <2>1, <2>2, IoIs, SessionAssumption DEF At, CallSet
  <2>4. CASE Direction(c) = "read"
    BY <1>6, <1>7, <2>1, <2>4 DEF Turn
  <2>5. CASE Direction(c) = "write"
    <3>1. PICK end \in 0 .. MaxOff : end = At(c) + Part(c)
      BY <2>2, <2>3
    <3>2. PICK i \in Inode : i = c.ino
      BY <2>3, <2>5
    <3>3. PICK m \in 0 .. MaxOff : m = IF size[i] < end THEN end ELSE size[i]
      BY <1>1 DEF Types
    <3>4. size' = [size EXCEPT ![i] = m]
      BY <1>1, <1>7, <2>1, <2>5, <3>1, <3>2, <3>3 DEF Turn, Types
    <3>5. \A j \in Inode : size'[j] = IF j = i THEN m ELSE size[j]
      BY <1>1, <3>4 DEF Types
    <3>6. lengths' = [j \in Files |-> IF j = Root THEN Len(dir') ELSE size'[j]]
      BY LengthsPrimed
    <3>7. lengths = [j \in Files |-> IF j = Root THEN Len(dir) ELSE size[j]]
      BY <1>1, FilesAre DEF lengths, Length, Files
    <3>8. \A j \in Files : j # Root => j \in Inode
      BY DEF Files
    <3>9. lengths' = [lengths EXCEPT ![i] = m]
      BY <1>2, <3>5, <3>6, <3>7, <3>8, FilesAre
    <3>10. C!Resizes
      BY <3>9, ResizesIs, FilesAre
    <3> QED
      BY <1>4, <1>5, <3>10, SameMoves, WorksIs DEF Right
  <2> QED
    BY <2>4, <2>5 DEF Direction
<1> QED
  BY <1>6, <1>7 DEF RdwrLock, TurnFails, TurnHangs, LsEntry

\* The offset of a File structure is set that only one descriptor names.
LEMMA OneMoves ==
  ASSUME Types, FilesCounted, ~Shared, NEW s \in Session, NEW d \in Fd, NEW f \in File, user[s].ofiles[d] = f,
         NEW to \in 0 .. MaxOff, Positioned(f, to),
         \A t \in Session : user'[t].ofiles = user[t].ofiles
  PROVE  /\ cursor[s][d] # Nobody
         /\ cursor[s][d] = [ino |-> file[f].ino, mode |-> file[f].flag, off |-> file[f].off]
         /\ cursor' = [cursor EXCEPT ![s][d].off = to]
         /\ C!Moves(s)
<1>1. user[s].ofiles[d] # Null /\ file[f] \in FileSet
  BY Finite DEF Null, Types
<1>2. SameUse(file, file') /\ file'[f].off = to /\ \A g \in File \ {f} : file'[g] = file[g]
  BY OffsetIs
<1>3. ASSUME NEW t \in Session, NEW e \in Fd, t # s \/ e # d, user[t].ofiles[e] # Null
      PROVE  Alike(file[user[t].ofiles[e]], file'[user[t].ofiles[e]])
  <2>1. user[t].ofiles[e] \in File
    BY <1>3 DEF Types, UserSet
  <2>2. user[t].ofiles[e] # f
    BY <1>3, Alone
  <2> QED
    BY <1>2, <2>1, <2>2 DEF Alike
<1>4. PICK c : c = cursor[s][d]
  OBVIOUS
<1>5. c = [ino |-> file[f].ino, mode |-> file[f].flag, off |-> file[f].off] /\ c # Nobody
  BY <1>1, <1>4, CursorType
<1>6. PICK k : k = [c EXCEPT !.off = to]
  OBVIOUS
<1>7. k = [ino |-> file[f].ino, mode |-> file[f].flag, off |-> to]
  BY <1>5, <1>6
<1>8. k = CursorOf(user'[s].ofiles, file', d)
  BY <1>1, <1>2, <1>7 DEF CursorOf, SameUse
<1>9. cursor' = [cursor EXCEPT ![s][d] = k]
  <2>1. \A t \in Session, e \in Fd :
          (t # s \/ e # d) => /\ user'[t].ofiles[e] = user[t].ofiles[e]
                              /\ user[t].ofiles[e] # Null =>
                                   Alike(file[user[t].ofiles[e]], file'[user[t].ofiles[e]])
    BY <1>3
  <2> QED
    BY <1>8, <2>1, CursorStep
<1>10. [cursor EXCEPT ![s][d] = k] = [cursor EXCEPT ![s][d].off = to]
  BY <1>4, <1>6, CursorIs
<1>11. C!Moves(s)
  BY <1>4, <1>5, <1>9, <1>10 DEF C!Moves
<1> QED
  BY <1>4, <1>5, <1>9, <1>10, <1>11

\* The end of a transfer, but for a read or write that has had no error.
LEMMA RdwrEndActs ==
  ASSUME Inv, ~Shared, NEW s \in Session, RdwrEnd(s)
  PROVE  /\ C!Moves(s)
         /\ call[s].n = 0 => cursor' = cursor
         /\ Acts(s) \/ (call[s].cmd \in Movers /\ ~user[s].error)
<1>1. Types /\ Kept /\ FilesCounted /\ user[s] \in UserSet
  BY InvIs
<1>2. PICK c : c = call[s]
  OBVIOUS
<1>3. PICK f : f = user[s].ofiles[c.fd]
  OBVIOUS
<1>4. /\ c \in CallSet /\ c.pc = "io" /\ c.n \in Nat /\ f \in File
      /\ UNCHANGED <<dir, size, sparse>>
  BY <1>2, <1>3, RdwrEndIs
<1>5. PICK to \in 0 .. MaxOff : to = Least(file[f].off + c.n, MaxOff) /\ Positioned(f, to)
  BY <1>2, <1>3, RdwrEndIs
<1>6. PICK b \in BOOLEAN : b = user[s].error /\ After(s, c, Outcome(c.n, c.n, b))
  BY <1>2, <1>3, RdwrEndIs
<1>7. PICK d \in Fd : d = c.fd
  BY <1>2, <1>4, IoIs DEF Fits
<1>8. Moving(c, user[s])
  BY <1>2, <1>4, IoIs
<1>9. PICK n \in Nat : n = c.n
  BY <1>4
<1>10. n \in Int /\ After(s, c, Outcome(n, n, b)) /\ (user[s].error => b)
  BY <1>6, <1>9
<1>11. \A t \in Session : user'[t].ofiles = user[t].ofiles
  BY <1>1, <1>4, <1>8, <1>10, AfterIs
<1>12. C!Moves(s)
  BY <1>1, <1>3, <1>4, <1>5, <1>7, <1>11, OneMoves
<1>13. n = 0 => cursor' = cursor
  <2>1. SUFFICES ASSUME n = 0 PROVE cursor' = cursor
    OBVIOUS
  <2>2. file[f] \in FileSet /\ file[f].off \in 0 .. MaxOff /\ MaxOff \in Nat
    BY <1>1, <1>4, SessionAssumption DEF Types, FileSet
  <2>3. to = file[f].off
    BY <1>5, <1>9, <2>1, <2>2 DEF Least
  <2>4. [file[f] EXCEPT !.off = to] = file[f]
    BY <2>2, <2>3 DEF FileSet
  <2>5. file' = file
    BY <1>1, <1>4, <1>5, <2>4 DEF Types, Positioned
  <2> QED
    BY <1>1, <1>11, <2>5, SameFile
<1>14. lengths' = lengths /\ C!Resizes
  BY <1>1, <1>4, Unresized
<1>15. Acts(s) \/ (c.cmd \in Movers /\ ~user[s].error)
  <2>1. SUFFICES ASSUME c.cmd \in Movers => b PROVE Acts(s)
    BY <1>6
  <2> QED
    BY <1>4, <1>8, <1>10, <1>12, <1>13, <1>14, <2>1, AfterActs
<1> QED
  BY <1>2, <1>9, <1>12, <1>13, <1>15

-----------------------------------------------------------------------------
(* The other calls *)

LEMMA ReadActs ==
  ASSUME Inv, NEW s \in Session, NEW fd \in Fds, NEW asked \in Counts, Read(s, fd, asked)
  PROVE  Right(s)
<1>1. Types /\ Kept
  BY InvIs
<1>2. CASE Rdwr(s, Transfer("read", fd, asked))
  <2>1. PICK c : c = Transfer("read", fd, asked)
    OBVIOUS
  <2>2. "read" \in Movers
    BY DEF Movers
  <2>3. c \in CallSet /\ Moving(c, user[s])
    BY <2>1, <2>2, TransferIs
  <2> QED
    BY <1>2, <2>1, <2>3, RdwrActs
<1>3. ASSUME NEW ok \in BOOLEAN, Answer(s, "read", ok, asked, -1), UNCHANGED <<dir, size, file, user>>
      PROVE  Acts(s)
  <2>1. cursor' = cursor
    BY <1>1, <1>3, SameFile
  <2>2. lengths' = lengths
    BY <1>3, LengthsSame
  <2>3. C!Says(s, "read", ok, asked, -1)
    BY <1>3 DEF Answer, C!Says
  <2>4. C!ReadTooLong(s)
    BY <2>1, <2>2, <2>3 DEF C!ReadTooLong, lengths
  <2> QED
    BY <2>4 DEF Acts
<1> QED
  BY <1>2, <1>3 DEF Read, Right

LEMMA WriteActs ==
  ASSUME Inv, NEW s \in Session, NEW fd \in Fds, NEW asked \in Counts, Write(s, fd, asked)
  PROVE  Right(s)
<1>1. PICK c : c = Transfer("write", fd, asked)
  OBVIOUS
<1>2. "write" \in Movers
  BY DEF Movers
<1>3. c \in CallSet /\ Moving(c, user[s])
  BY <1>1, <1>2, TransferIs
<1> QED
  BY <1>1, <1>3, RdwrActs DEF Write

LEMMA SeekActs ==
  ASSUME Inv, ~Shared, NEW s \in Session, NEW fd, NEW j \in Jumps, Seek(s, fd, j[1], j[2])
  PROVE  Acts(s)
<1>1. Types /\ FilesCounted /\ Kept
  BY InvIs
<1>2. UNCHANGED <<dir, size>>
  BY DEF Seek
<1>3. lengths' = lengths /\ C!Resizes
  BY <1>1, <1>2, Unresized
<1>4. Quiet(s)
  BY SeekQuiet
<1>5. \A t \in Session : user'[t].ofiles = user[t].ofiles
  BY <1>4 DEF Quiet
<1>6. C!Moves(s)
  <2>1. CASE IsOpen(s, fd)
    <3>1. /\ fd \in Fd /\ user[s].ofiles[fd] \in File
          /\ \E to \in 0 .. MaxOff : Positioned(user[s].ofiles[fd], to)
      BY <1>1, <2>1, SeekIs
    <3>2. PICK f \in File : f = user[s].ofiles[fd]
      BY <3>1
    <3>3. PICK to \in 0 .. MaxOff : Positioned(f, to)
      BY <3>1, <3>2
    <3> QED
      BY <1>1, <1>5, <3>1, <3>2, <3>3, OneMoves
  <2>2. CASE ~IsOpen(s, fd)
    <3>1. file' = file
      BY <2>2 DEF Seek
    <3>2. cursor' = cursor
      BY <1>1, <1>5, <3>1, SameFile
    <3> QED
      BY <3>2, SameMoves
  <2> QED
    BY <2>1, <2>2
<1>7. user'[s].error \in BOOLEAN
  BY <1>4 DEF Quiet, UserSet
<1>8. CASE user'[s].error
  <2>1. Answer(s, "seek", FALSE, 0, 0)
    BY <1>7, <1>8 DEF Seek, Answer
  <2>2. 0 \in Counts \cup {0} /\ 0 \in Int /\ "seek" \in Command \ {"login", "exit"}
    BY DEF Command
  <2> QED
    BY <1>3, <1>6, <2>1, <2>2, FailsIs
<1>9. CASE ~user'[s].error
  <2>1. C!Says(s, "seek", TRUE, 0, 0)
    BY <1>7, <1>9 DEF Seek, Answer, C!Says
  <2>2. C!Seek(s)
    BY <1>3, <1>6, <2>1 DEF C!Seek, lengths
  <2> QED
    BY <2>2 DEF Acts
<1> QED
  BY <1>7, <1>8, <1>9

\* An open descriptor is closed, and the others stay.
LEMMA SysCloseActs ==
  ASSUME Inv, NEW s \in Session, NEW fd, Sys_Close(s, fd)
  PROVE  /\ IsOpen(s, fd) => \E d \in Fd : C!Closes(s, d)
         /\ ~IsOpen(s, fd) => cursor' = cursor /\ C!Resizes
         /\ \E j \in Inode \cup {Root} : lengths' \in {lengths, [lengths EXCEPT ![j] = 0]}
<1>1. Types /\ FilesCounted /\ Kept
  BY InvIs
<1>2. UNCHANGED <<dir, left, heap, dead>>
  BY DEF Sys_Close
<1>3. CASE IsOpen(s, fd)
  <2>1. PICK d \in Fd : d = fd /\ user[s].ofiles[d] # Null
    BY <1>3 DEF IsOpen
  <2>2. PICK f \in File : f = user[s].ofiles[d] /\ f # Null
    BY <1>1, <2>1, OpenIs
  <2>3. PICK g \in FileSet : g = file[f] /\ g = FileOf(s, d)
    BY <1>1, <2>1, <2>2, OpenIs
  <2>4. PICK u \in UserSet : u = user[s]
    BY <1>1 DEF Types
  <2>5. PICK v : v = Returned(u, d)
    OBVIOUS
  <2>6. user' = [user EXCEPT ![s] = v] /\ file' = [file EXCEPT ![f].count = @ - 1]
    BY <1>1, <1>3, <2>1, <2>2, <2>4, <2>5 DEF Sys_Close, Types
  <2>7. v.ofiles = [u.ofiles EXCEPT ![d] = Null]
    BY <2>5 DEF Returned, UserSet
  <2>8. v.ofiles[d] = Null /\ \A e \in Fd \ {d} : v.ofiles[e] = u.ofiles[e]
    BY <2>7 DEF UserSet
  <2>9. /\ user'[s].ofiles[d] = Null
        /\ \A t \in Session, e \in Fd : t # s \/ e # d => user'[t].ofiles[e] = user[t].ofiles[e]
    BY <1>1, <2>4, <2>6, <2>8 DEF Types
  <2>10. \A h \in File : Alike(file[h], file'[h])
    BY <1>1, <2>6 DEF Types, FileSet, Alike
  <2>11. \A t \in Session, e \in Fd :
           user[t].ofiles[e] # Null => Alike(file[user[t].ofiles[e]], file'[user[t].ofiles[e]])
    <3>1. \A t \in Session, e \in Fd : user[t].ofiles[e] # Null => user[t].ofiles[e] \in File
      BY <1>1 DEF Types, UserSet
    <3> QED
      BY <2>10, <3>1
  <2>12. CursorOf(user'[s].ofiles, file', d) = Nobody
    BY <2>9 DEF CursorOf
  <2>13. PICK k : k = Nobody
    OBVIOUS
  <2>14. k = CursorOf(user'[s].ofiles, file', d)
    BY <2>12, <2>13
  <2>15. cursor' = [cursor EXCEPT ![s][d] = k]
    BY <1>1, <2>9, <2>11, <2>14, CursorStep
  <2>16. cursor[s][d] # Nobody
    BY <1>1, <2>2, CursorType
  <2>17. C!Closes(s, d)
    BY <2>13, <2>15, <2>16 DEF C!Closes
  <2>18. g.ino \in Files
    BY DEF FileSet, Files
  <2>19. Truncate(g.ino) \/ UNCHANGED <<size, sparse>>
    BY <1>3, <2>1, <2>3 DEF Sys_Close, IPut
  <2>20. \E j \in Inode \cup {Root} : lengths' \in {lengths, [lengths EXCEPT ![j] = 0]}
    BY <1>1, <1>2, <2>18, <2>19, LengthsCut
  <2> QED
    BY <1>3, <2>17, <2>20
<1>4. CASE ~IsOpen(s, fd)
  <2>1. SetUser(s, -1, TRUE) /\ UNCHANGED <<size, sparse, refs, file>>
    BY <1>4 DEF Sys_Close
  <2>2. PICK x \in Int : x = -1
    OBVIOUS
  <2>3. PICK b \in BOOLEAN : b = TRUE
    OBVIOUS
  <2>4. SetUser(s, x, b)
    BY <2>1, <2>2, <2>3
  <2>5. \A t \in Session : user'[t].ofiles = user[t].ofiles
    BY <1>1, <2>4, SetUserIs
  <2>6. cursor' = cursor
    BY <1>1, <2>1, <2>5, SameFile
  <2>7. lengths' = lengths /\ C!Resizes
    BY <1>1, <1>2, <2>1, Unresized
  <2> QED
    BY <1>4, <2>6, <2>7, FilesAre DEF Files
<1> QED
  BY <1>3, <1>4

LEMMA CloseActs ==
  ASSUME Inv, NEW s \in Session, Close(s)
  PROVE  Acts(s)
<1>1. PICK c : c = call[s]
  OBVIOUS
<1>2. c \in CallSet /\ Sound(c, user[s]) /\ c.pc = "close" /\ Sys_Close(s, c.fd) /\ Return(s, c.cmd, IsOpen(s, c.fd))
  BY <1>1, InvIs DEF Close
<1>3. PICK cmd \in {"close", "cat", "fout", "fin"} : cmd = c.cmd
  BY <1>2 DEF Sound
<1>4. CASE IsOpen(s, c.fd)
  <2>1. IsOpen(s, c.fd) = TRUE
    BY <1>4 DEF IsOpen
  <2>2. Return(s, cmd, TRUE)
    BY <1>2, <1>3, <2>1
  <2>3. Answer(s, cmd, TRUE, 0, 0)
    BY <2>2 DEF Return
  <2>4. \E d \in Fd : C!Closes(s, d)
    BY <1>2, <1>4, SysCloseActs
  <2>5. \E j \in Inode \cup {Root} : lengths' \in {lengths, [lengths EXCEPT ![j] = 0]}
    BY <1>2, SysCloseActs
  <2>6. CASE cmd = "close"
    <3>1. C!Says(s, "close", TRUE, 0, 0)
      BY <2>3, <2>6 DEF Answer, C!Says
    <3>2. C!Close(s)
      BY <2>4, <2>5, <3>1 DEF C!Close, lengths
    <3> QED
      BY <3>2 DEF Acts
  <2>7. CASE cmd # "close"
    <3>1. C!Succeeds(s, {"cat", "fin", "fout"})
      BY <2>3, <2>7 DEF Answer, C!Succeeds
    <3>2. C!Ends(s)
      BY <2>4, <2>5, <3>1 DEF C!Ends, lengths
    <3> QED
      BY <3>2 DEF Acts
  <2> QED
    BY <2>6, <2>7
<1>5. CASE ~IsOpen(s, c.fd)
  <2>1. IsOpen(s, c.fd) = FALSE
    BY <1>5 DEF IsOpen
  <2>2. Return(s, cmd, FALSE)
    BY <1>2, <1>3, <2>1
  <2>3. Answer(s, cmd, FALSE, 0, 0)
    BY <2>2 DEF Return
  <2>4. 0 \in Counts \cup {0} /\ 0 \in Int /\ cmd \in Command \ {"login", "exit"}
    BY DEF Command
  <2>5. cursor' = cursor /\ C!Resizes
    BY <1>2, <1>5, SysCloseActs
  <2> QED
    BY <2>3, <2>4, <2>5, SameMoves, FailsIs
<1> QED
  BY <1>4, <1>5

LEMMA RmActs ==
  ASSUME Inv, NEW s \in Session, Rm(s)
  PROVE  Right(s)
<1>1. Types /\ Kept
  BY InvIs
<1>2. file' = file /\ \A t \in Session : user'[t].ofiles = user[t].ofiles
  BY RmQuiet DEF Rm, Quiet
<1>3. cursor' = cursor
  BY <1>1, <1>2, SameFile
<1>4. PICK i : i = NameI(call[s].path)
  OBVIOUS
<1>5. CASE Answer(s, "rm", FALSE, 0, 0) /\ UNCHANGED <<dir, size>>
  <2>1. 0 \in Counts \cup {0} /\ 0 \in Int /\ "rm" \in Command \ {"login", "exit"}
    BY DEF Command
  <2>2. C!Resizes
    BY <1>1, <1>5, Unresized
  <2> QED
    BY <1>3, <1>5, <2>1, <2>2, SameMoves, FailsIs DEF Right
<1>6. CASE UNCHANGED <<dir, size, said>>
  BY <1>3, <1>6, LengthsSame DEF Right, Stays
<1>7. CASE /\ i \in Inode
           /\ dir' = [k \in DOMAIN dir |-> IF dir[k].ino = i THEN [dir[k] EXCEPT !.ino = 0] ELSE dir[k]]
           /\ \/ /\ Truncate(i) \/ UNCHANGED <<size, sparse>>
                 /\ Answer(s, "rm", TRUE, 0, 0)
              \/ Hang(s, i, i)
  <2>1. Len(dir') = Len(dir)
    BY <1>1, <1>7, UnlinkedIs
  <2>2. i \in Files
    BY <1>7, FilesAre
  <2>3. CASE Hang(s, i, i)
    BY <1>1, <1>2, <2>1, <2>3, HangActs DEF Right
  <2>4. CASE (Truncate(i) \/ UNCHANGED <<size, sparse>>) /\ Answer(s, "rm", TRUE, 0, 0)
    <3>1. \E j \in Inode \cup {Root} : lengths' \in {lengths, [lengths EXCEPT ![j] = 0]}
      BY <1>1, <2>1, <2>2, <2>4, LengthsCut
    <3>2. C!Succeeds(s, {"rm", "cd", "ls"})
      BY <2>4 DEF Answer, C!Succeeds
    <3>3. C!Ends(s)
      BY <1>3, <3>1, <3>2 DEF C!Ends, lengths
    <3> QED
      BY <3>3 DEF Acts, Right
  <2> QED
    BY <1>7, <2>3, <2>4
<1> QED
  BY <1>4, <1>5, <1>6, <1>7 DEF Rm, Return

LEMMA CdActs ==
  ASSUME Inv, NEW s \in Session, Cd(s)
  PROVE  Acts(s)
<1>1. Types /\ Kept
  BY InvIs
<1>2. UNCHANGED <<dir, size, file>> /\ \A t \in Session : user'[t].ofiles = user[t].ofiles
  BY CdQuiet DEF Cd, Quiet
<1>3. cursor' = cursor
  BY <1>1, <1>2, SameFile
<1>4. lengths' = lengths /\ C!Resizes
  BY <1>1, <1>2, Unresized
<1>5. PICK b \in BOOLEAN : Answer(s, "cd", ~b, 0, 0)
  BY DEF Cd, Return
<1>6. CASE b = TRUE
  <2>1. Answer(s, "cd", FALSE, 0, 0)
    BY <1>5, <1>6 DEF Answer
  <2>2. 0 \in Counts \cup {0} /\ 0 \in Int /\ "cd" \in Command \ {"login", "exit"}
    BY DEF Command
  <2> QED
    BY <1>3, <1>4, <2>1, <2>2, SameMoves, FailsIs
<1>7. CASE b = FALSE
  <2>1. Answer(s, "cd", TRUE, 0, 0)
    BY <1>5, <1>7 DEF Answer
  <2>2. C!Succeeds(s, {"rm", "cd", "ls"})
    BY <2>1 DEF Answer, C!Succeeds
  <2>3. C!Ends(s)
    BY <1>3, <1>4, <2>2 DEF C!Ends, lengths, Files, Root
  <2> QED
    BY <2>3 DEF Acts
<1> QED
  BY <1>6, <1>7

\* All descriptors of one session have changed.
LEMMA RowStep ==
  ASSUME NEW s \in Session, NEW r, file' = file, \A t \in Session \ {s} : user'[t].ofiles = user[t].ofiles,
         r = [d \in Fd |-> CursorOf(user'[s].ofiles, file', d)]
  PROVE  /\ cursor' = [cursor EXCEPT ![s] = r]
         /\ \A t \in Session \ {s} : cursor'[t] = cursor[t]
<1>1. ASSUME NEW t \in Session \ {s}
      PROVE  cursor'[t] = cursor[t]
  <2>1. \A d \in Fd : CursorOf(user'[t].ofiles, file', d) = CursorOf(user[t].ofiles, file, d)
    BY DEF CursorOf
  <2> QED
    BY <2>1, CursorIs
<1>2. cursor'[s] = r
  BY CursorIs
<1> QED
  BY <1>1, <1>2, CursorIs

LEMMA LeavesIs ==
  ASSUME NEW s \in Session, NEW c \in {"exit", "login"}, Answer(s, c, TRUE, 0, 0),
         cursor' = [cursor EXCEPT ![s] = [d \in Fd |-> Nobody]], lengths' = lengths
  PROVE  Acts(s)
<1>1. C!Succeeds(s, {"exit", "login"})
  BY DEF Answer, C!Succeeds
<1>2. C!Leaves(s)
  BY <1>1 DEF C!Leaves, lengths
<1> QED
  BY <1>2 DEF Acts

LEMMA ExitActs ==
  ASSUME Inv, NEW s \in Session, Exit(s)
  PROVE  Right(s)
<1>1. Types /\ Kept /\ UNCHANGED <<dir, size, file>>
  BY InvIs DEF Exit
<1>2. lengths' = lengths
  BY <1>1, LengthsSame
<1>3. CASE user' = user /\ said' = said
  <2>1. cursor' = cursor
    BY <1>1, <1>3, SameFile
  <2> QED
    BY <1>2, <1>3, <2>1 DEF Right, Stays
<1>4. CASE /\ user' = [user EXCEPT ![s] = [ofiles |-> NoFiles, error |-> FALSE, eax |-> 0]]
           /\ Answer(s, "exit", TRUE, 0, 0)
  <2>1. PICK u : u = [ofiles |-> NoFiles, error |-> FALSE, eax |-> 0]
    OBVIOUS
  <2>2. user' = [user EXCEPT ![s] = u] /\ u.ofiles = NoFiles
    BY <1>4, <2>1
  <2>3. user'[s].ofiles = NoFiles /\ \A t \in Session \ {s} : user'[t].ofiles = user[t].ofiles
    BY <1>1, <2>2 DEF Types
  <2>4. PICK r : r = [d \in Fd |-> CursorOf(user'[s].ofiles, file', d)]
    OBVIOUS
  <2>5. r = [d \in Fd |-> Nobody]
    BY <2>3, <2>4 DEF CursorOf, NoFiles
  <2>6. cursor' = [cursor EXCEPT ![s] = r]
    BY <1>1, <2>3, <2>4, RowStep
  <2> QED
    BY <1>2, <1>4, <2>5, <2>6, LeavesIs DEF Right
<1> QED
  BY <1>3, <1>4 DEF Exit

\* Login is given new memory, or a table that somebody has left.
LEMMA LoginActs ==
  ASSUME Inv, NEW s \in Session, Login(s)
  PROVE  /\ Acts(s) \/ Inherits
         /\ \A t \in Session \ {s} : cursor'[t] = cursor[t]
<1>1. Types /\ Kept
  BY InvIs
<1>2. /\ call[s].pc = "out" /\ UNCHANGED <<dir, size, file>> /\ Answer(s, "login", TRUE, 0, 0)
      /\ call' = [call EXCEPT ![s] = NoCall("idle")]
  BY DEF Login
<1>3. user[s].ofiles = NoFiles
  BY <1>1, <1>2 DEF Kept, Sound
<1>4. call'[s].pc = "idle"
  BY <1>1, <1>2 DEF Types, NoCall
<1>5. \A t \in Session \ {s} : user'[t].ofiles = user[t].ofiles
  <2>1. CASE user' = user
    BY <2>1
  <2>2. ASSUME NEW v, user' = [user EXCEPT ![s] = v]
        PROVE  \A t \in Session \ {s} : user'[t].ofiles = user[t].ofiles
    BY <1>1, <2>2 DEF Types
  <2> QED
    BY <2>1, <2>2 DEF Login
<1>6. PICK r : r = [d \in Fd |-> CursorOf(user'[s].ofiles, file', d)]
  OBVIOUS
<1>7. /\ cursor' = [cursor EXCEPT ![s] = r]
      /\ \A t \in Session \ {s} : cursor'[t] = cursor[t]
  BY <1>2, <1>5, <1>6, RowStep
<1>8. CASE user'[s].ofiles = NoFiles
  <2>1. r = [d \in Fd |-> Nobody]
    BY <1>6, <1>8 DEF CursorOf, NoFiles
  <2>2. lengths' = lengths
    BY <1>2, LengthsSame
  <2> QED
    BY <1>2, <1>7, <2>1, <2>2, LeavesIs
<1>9. CASE user'[s].ofiles # NoFiles
  BY <1>2, <1>4, <1>7, <1>9 DEF Inherits
<1> QED
  BY <1>8, <1>9

LEMMA NewCommandActs ==
  ASSUME Inv, NEW s \in Session, NewCommand(s)
  PROVE  Right(s)
<1>1. Types /\ UNCHANGED <<dir, size, file, user>> /\ said' = Silence
  BY InvIs DEF NewCommand
<1>2. cursor' = cursor /\ lengths' = lengths /\ said'.cmd = "login"
  BY <1>1, SameFile, LengthsSame, SilenceIs
<1>3. C!Begins
  BY <1>2 DEF C!Begins, lengths
<1> QED
  BY <1>3 DEF Right

-----------------------------------------------------------------------------
(* What a step of one session does to the descriptors of the others *)

\* A step of the abstract specification is one of one session.
LEMMA ActsAlone ==
  ASSUME NEW s \in Session, Right(s), NEW t \in Session \ {s}
  PROVE  cursor'[t] = cursor[t]
<1>1. cursor = [x \in Session |-> cursor[x]]
  BY CursorIs
<1>2. ASSUME NEW d \in Fd, C!Opens(s, d) \/ C!Closes(s, d)
      PROVE  cursor'[t] = cursor[t]
  BY <1>1, <1>2 DEF C!Opens, C!Closes
<1>3. ASSUME C!Moves(s)
      PROVE  cursor'[t] = cursor[t]
  BY <1>1, <1>3 DEF C!Moves
<1>4. CASE C!Open(s) \/ C!Close(s)
  BY <1>2, <1>4 DEF C!Open, C!Close
<1>5. CASE C!Read(s)
  BY <1>1, <1>5 DEF C!Read
<1>6. CASE C!Write(s)
  BY <1>1, <1>6 DEF C!Write
<1>7. CASE C!Seek(s) \/ C!Fails(s)
  BY <1>3, <1>7 DEF C!Seek, C!Fails
<1>8. CASE C!ReadTooLong(s) \/ C!Begins \/ Stays
  BY <1>8 DEF C!ReadTooLong, C!Begins, Stays
<1>9. CASE C!Ends(s)
  BY <1>2, <1>9 DEF C!Ends
<1>10. CASE C!Works(s)
  BY <1>2, <1>3, <1>10 DEF C!Works
<1>11. CASE C!Leaves(s)
  BY <1>1, <1>11 DEF C!Leaves
<1> QED
  BY <1>4, <1>5, <1>6, <1>7, <1>8, <1>9, <1>10, <1>11 DEF Acts, Right

LEMMA MovesAlone ==
  ASSUME NEW s \in Session, C!Moves(s), NEW t \in Session \ {s}
  PROVE  cursor'[t] = cursor[t]
<1>1. cursor = [x \in Session |-> cursor[x]]
  BY CursorIs
<1> QED
  BY <1>1 DEF C!Moves

\* The commands that open a file.
LEMMA OpenActs ==
  ASSUME Inv, NEW s \in Session, Open(s) \/ Creat(s) \/ Reopen(s)
  PROVE  Right(s)
<1>1. Types /\ call[s] \in CallSet /\ Sound(call[s], user[s])
  BY InvIs
<1>2. CASE Open(s)
  <2>1. PICK c \in CallSet : c = call[s]
    BY <1>1
  <2>2. PICK mode \in Mode : mode = c.mode
    BY DEF CallSet
  <2>3. Sys_Open(s, c, mode) /\ c.cmd \notin {"login", "exit"}
    BY <1>1, <1>2, <2>1, <2>2 DEF Open, Sound
  <2> QED
    BY <2>3, SysOpenActs
<1>3. CASE Creat(s)
  <2>1. PICK c \in CallSet : c = call[s]
    BY <1>1
  <2>2. Sys_Creat(s, c) /\ c.cmd \notin {"login", "exit"} /\ c.path # "/"
    BY <1>1, <1>3, <2>1 DEF Creat, Looks, Sound
  <2>3. c.path \in Name
    BY <2>2 DEF CallSet
  <2> QED
    BY <2>2, <2>3, SysCreatActs
<1>4. CASE Reopen(s)
  <2>1. PICK k \in 1 .. 2 : Sys_Open(s, [call[s] EXCEPT !.more = k], {"write"})
    BY <1>4 DEF Reopen
  <2>2. PICK c : c = [call[s] EXCEPT !.more = k]
    OBVIOUS
  <2>3. c \in CallSet /\ c.cmd = call[s].cmd
    BY <1>1, <2>2 DEF CallSet
  <2>4. PICK mode \in Mode : mode = {"write"}
    BY DEF Mode
  <2>5. Sys_Open(s, c, mode) /\ c.cmd \notin {"login", "exit"}
    BY <1>1, <2>1, <2>2, <2>3, <2>4 DEF Sound
  <2> QED
    BY <2>3, <2>5, SysOpenActs
<1> QED
  BY <1>2, <1>3, <1>4

LEMMA BeginActs ==
  ASSUME Inv, ~Shared, NEW s \in Session, Begin(s)
  PROVE  /\ Right(s) \/ Inherits
         /\ \A t \in Session \ {s} : cursor'[t] = cursor[t]
<1>1. ASSUME NEW d \in Fds, NEW k \in Counts, Read(s, d, k) \/ Write(s, d, k) PROVE Right(s)
  BY <1>1, ReadActs, WriteActs
<1>2. ASSUME NEW d \in Fds, NEW j \in Jumps, Seek(s, d, j[1], j[2]) PROVE Right(s)
  BY <1>2, SeekActs DEF Right
<1>3. CASE NewCommand(s) \/ Exit(s)
  BY <1>3, NewCommandActs, ExitActs, ActsAlone
<1>4. CASE Login(s)
  BY <1>4, LoginActs DEF Right
<1> QED
  BY <1>1, <1>2, <1>3, <1>4, ActsAlone DEF Begin

\* The steps of a command, but for a read or write that has come to its end.
LEMMA StepActs ==
  ASSUME Inv, ~Shared, ~Shared', NEW s \in Session, Step(s)
  PROVE  /\ Right(s) \/ (RdwrEnd(s) /\ call[s].cmd \in Movers /\ ~user[s].error)
         /\ \A t \in Session \ {s} : cursor'[t] = cursor[t]
<1>1. CASE Open(s) \/ Creat(s) \/ Reopen(s)
  BY <1>1, OpenActs, ActsAlone
<1>2. CASE FindFile(s) \/ TakeFile(s) \/ Close(s)
  <2>1. Right(s)
    BY <1>2, FindFileActs, TakeFileActs, CloseActs DEF Right
  <2> QED
    BY <2>1, ActsAlone
<1>3. CASE Rm(s) \/ Cd(s)
  <2>1. Right(s)
    BY <1>3, RmActs, CdActs DEF Right
  <2> QED
    BY <2>1, ActsAlone
<1>4. CASE Loop(s) \/ RdwrLock(s) \/ Turn(s) \/ TurnFails(s) \/ TurnHangs(s) \/ LsEntry(s)
  BY <1>4, LoopActs, TransferActs, ActsAlone
<1>5. CASE RdwrEnd(s)
  BY <1>5, RdwrEndActs, MovesAlone DEF Right
<1> QED
  BY <1>1, <1>2, <1>3, <1>4, <1>5 DEF Step

\* A loop without a file of its own has met the u_error of its open.
LEMMA LoopStays ==
  ASSUME Inv, ~Shared, NEW s \in Session, ~call[s].own, call[s].cmd \in {"ls", "cat"},
         call[s].pc \in {"loop", "lock", "io", "close"}, Step(s) \/ Begin(s)
  PROVE  cursor'[s] = cursor[s]
<1>1. Sound(call[s], user[s])
  BY InvIs
<1>2. call[s].pc # "close" /\ (call[s].pc = "io" => call[s].n = 0)
  BY <1>1 DEF Sound, Movers
<1>3. ~Begin(s)
  BY DEF Begin, NewCommand, Read, Write, Seek, Exit, Login, Ask
<1>4. ~(Open(s) \/ Creat(s) \/ Rm(s) \/ Cd(s) \/ FindFile(s) \/ TakeFile(s) \/ Reopen(s))
  BY DEF Open, Creat, Rm, Cd, Looks, FindFile, TakeFile, Reopen
<1>5. ~Close(s)
  BY <1>2 DEF Close
<1>6. CASE RdwrEnd(s)
  <2>1. call[s].pc = "io"
    BY <1>6 DEF RdwrEnd
  <2> QED
    BY <1>2, <1>6, <2>1, RdwrEndActs
<1>7. CASE Loop(s) \/ RdwrLock(s) \/ Turn(s) \/ TurnFails(s) \/ TurnHangs(s) \/ LsEntry(s)
  BY <1>7, LoopActs, TransferActs
<1> QED
  BY <1>3, <1>4, <1>5, <1>6, <1>7 DEF Step

LEMMA StrayStays ==
  ASSUME NEW i, Stray(i)
  PROVE  Stays
<1>1. size' = size /\ dir' = dir /\ user' = user /\ file' = file /\ said' = said
  BY DEF Stray
<1>2. cursor' = cursor
  BY <1>1, CursorIs
<1> QED
  BY <1>1, <1>2, LengthsSame DEF Stays

LEMMA StuttersStay ==
  ASSUME UNCHANGED vars
  PROVE  Stays
<1>1. size' = size /\ dir' = dir /\ user' = user /\ file' = file /\ said' = said
  BY DEF vars
<1>2. cursor' = cursor
  BY <1>1, CursorIs
<1> QED
  BY <1>1, <1>2, LengthsSame DEF Stays

\* ls and cat, when their open has failed, leave alone whatever else the session has
\* open (Sys_Read finds u_error), and no command touches another session's
\* descriptors, unless FAlloc has given one File structure out twice.
THEOREM LeavesOthersAloneHolds == Spec => LeavesOthersAlone
<1>1. Init => Inv
  BY InitInv
<1>2. Inv /\ [Next]_vars => Inv'
  BY NextInv
<1>3. Inv /\ [Next]_vars =>
        [\A s \in Session :
           call[s].cmd \in {"ls", "cat"} /\ call[s].pc \in {"loop", "lock", "io", "close"} /\ ~call[s].own =>
             cursor'[s] = cursor[s] \/ Shared \/ Shared']_vars
  <2>1. SUFFICES ASSUME Inv, Next, ~Shared, ~Shared', NEW s \in Session, ~call[s].own,
                        call[s].cmd \in {"ls", "cat"}, call[s].pc \in {"loop", "lock", "io", "close"}
                 PROVE  cursor'[s] = cursor[s]
    OBVIOUS
  <2>2. ASSUME NEW i, Stray(i) PROVE cursor'[s] = cursor[s]
    BY <2>2, StrayStays DEF Stays
  <2>3. ASSUME NEW t \in Session, Step(t) \/ Begin(t) PROVE cursor'[s] = cursor[s]
    <3>1. CASE t = s
      BY <2>1, <2>3, <3>1, LoopStays
    <3>2. CASE t # s
      BY <2>1, <2>3, <3>2, StepActs, BeginActs
    <3> QED
      BY <3>1, <3>2
  <2> QED
    BY <2>1, <2>2, <2>3 DEF Next
<1> QED
  BY <1>1, <1>2, <1>3, PTL DEF Spec, LeavesOthersAlone

-----------------------------------------------------------------------------
(***************************************************************************)
(* A transfer whose session is not torn: it holds its inode, its File      *)
(* structure is that of its inode, and what it has moved is in the file.   *)
(***************************************************************************)

Whole(s) ==
  LET c == call[s] IN
  c.pc = "io" /\ s \notin torn =>
    /\ c.ino \in locked
    /\ FileOf(s, c.fd).ino = c.ino /\ FileOf(s, c.fd).flag = c.mode
    /\ c.n > 0 => c.off + c.n <= Length(c.ino)

Untorn == \A s \in Session : Whole(s)

\* Nobody else is torn off by a step of session s without being told so: an inode
\* stays locked and its file as long as it was, or those who transfer it are torn.
Spares(s) ==
  /\ torn \ {s} \subseteq torn'
  /\ \A i \in locked : \/ i \in locked' /\ Length(i)' >= Length(i)
                       \/ Transferring(i) \ {s} \subseteq torn'

\* The File structure that each of the others transfers by stays its own.
Leaves(s) ==
  \A t \in Session \ {s} :
    /\ call'[t] = call[t] /\ user'[t].ofiles = user[t].ofiles
    /\ call[t].pc = "io" => \/ t \in torn'
                            \/ /\ FileOf(t, call[t].fd)'.ino = FileOf(t, call[t].fd).ino
                               /\ FileOf(t, call[t].fd)'.flag = FileOf(t, call[t].fd).flag

LEMMA LengthPrimed ==
  \A i : Length(i)' = IF i = Root THEN Len(dir') ELSE size'[i]
BY DEF Length

\* The others.
LEMMA OthersWhole ==
  ASSUME Inv, Untorn, NEW s \in Session, Spares(s), Leaves(s), size' \in [Inode -> 0 .. MaxOff],
         dir' \in Seq(Entry)
  PROVE  \A t \in Session \ {s} : Whole(t)'
<1>1. TAKE t \in Session \ {s}
<1>2. PICK c \in CallSet : c = call[t] /\ call'[t] = c
  BY InvIs DEF Leaves
<1>3. CASE c.pc # "io" \/ t \in torn'
  BY <1>2, <1>3 DEF Whole
<1>4. CASE c.pc = "io" /\ t \notin torn'
  <2>1. t \notin torn /\ t \in Transferring(c.ino)
    BY <1>2, <1>4 DEF Spares, Transferring
  <2>2. PICK i \in Files : i = c.ino
    BY DEF CallSet, Files
  <2>3. /\ i \in locked /\ FileOf(t, c.fd).ino = i /\ FileOf(t, c.fd).flag = c.mode
        /\ c.n > 0 => c.off + c.n <= Length(i)
    BY <1>2, <1>4, <2>1, <2>2 DEF Untorn, Whole
  <2>4. i \in locked' /\ Length(i)' >= Length(i)
    BY <1>4, <2>1, <2>2, <2>3 DEF Spares
  <2>5. FileOf(t, call[t].fd)'.ino = i /\ FileOf(t, call[t].fd)'.flag = c.mode
    BY <1>2, <1>4, <2>3 DEF Leaves
  <2>6. FileOf(t, c.fd)' = FileOf(t, call[t].fd)'
    BY <1>2 DEF FileOf
  <2>7. c.n > 0 => c.off + c.n <= Length(i)'
    <3>1. c.n \in Nat /\ c.off \in Nat
      BY SessionAssumption DEF CallSet
    <3>2. Length(i) \in Int
      <4>1. Types /\ Kept
        BY InvIs
      <4> QED
        BY <4>1, LengthIs, SessionAssumption
    <3>3. Length(i)' \in Int
      <4>1. i # Root => i \in Inode
        BY DEF Files
      <4> QED
        BY <4>1, LengthPrimed, SessionAssumption
    <3> QED
      BY <2>3, <2>4, <3>1, <3>2, <3>3
  <2> QED
    BY <1>2, <2>2, <2>4, <2>5, <2>6, <2>7 DEF Whole
<1> QED
  BY <1>3, <1>4

\* The others stay where they are, and the session's own call transfers nothing.
Elsewhere(s) ==
  /\ \A t \in Session \ {s} : call'[t] = call[t] /\ user'[t].ofiles = user[t].ofiles
  /\ call'[s].pc # "io"

\* Every File structure stays open on its inode.
OpenAsBefore == \A h \in File : file'[h].ino = file[h].ino /\ file'[h].flag = file[h].flag

LEMMA StillUntorn ==
  ASSUME Inv, Inv', Untorn, NEW s \in Session, Spares(s), Leaves(s), call'[s].pc # "io"
  PROVE  Untorn'
<1>1. size' \in [Inode -> 0 .. MaxOff] /\ dir' \in Seq(Entry)
  BY TypesAre DEF Inv, CountsInv, Types
<1>2. \A t \in Session \ {s} : Whole(t)'
  BY <1>1, OthersWhole
<1>3. Whole(s)'
  BY DEF Whole
<1> QED
  BY <1>2, <1>3 DEF Untorn

LEMMA LeavesSame ==
  ASSUME Inv, NEW s \in Session, OpenAsBefore,
         \A t \in Session \ {s} : call'[t] = call[t] /\ user'[t].ofiles = user[t].ofiles
  PROVE  Leaves(s)
<1>1. ASSUME NEW t \in Session \ {s}, call[t].pc = "io"
      PROVE  /\ FileOf(t, call[t].fd)'.ino = FileOf(t, call[t].fd).ino
             /\ FileOf(t, call[t].fd)'.flag = FileOf(t, call[t].fd).flag
  <2>1. PICK c : c = call[t]
    OBVIOUS
  <2>2. PICK f \in File : f = user[t].ofiles[c.fd] /\ FileOf(t, c.fd) = file[f]
    BY <1>1, <2>1, IoIs
  <2>3. FileOf(t, call[t].fd)' = file'[f]
    BY <1>1, <2>1, <2>2 DEF FileOf
  <2>4. FileOf(t, call[t].fd) = file[f]
    BY <2>1, <2>2
  <2> QED
    BY <2>2, <2>3, <2>4 DEF OpenAsBefore
<1> QED
  BY <1>1 DEF Leaves

\* Only inodes that nobody holds are cut.
LEMMA CutsNoLocked ==
  ASSUME Inv, Inv', Len(dir') >= Len(dir), size' = size \/ \E i : i \notin locked /\ Truncate(i)
  PROVE  \A j \in locked : Length(j)' >= Length(j)
<1>1. TAKE j \in locked
<1>2. Types /\ Kept /\ j \in Files
  BY InvIs DEF Types
<1>3. Length(j) \in 0 .. MaxOff
  BY <1>2, LengthIs
<1>4. CASE j = Root
  BY <1>4, LengthPrimed DEF Length
<1>5. CASE j # Root
  <2>1. j \in Inode /\ size'[j] = size[j]
    BY <1>2, <1>5 DEF Files, Truncate
  <2> QED
    BY <1>3, <1>5, <2>1, LengthPrimed, SessionAssumption DEF Length
<1> QED
  BY <1>4, <1>5

\* Nobody is unlocked, and nothing is cut that is locked.
LEMMA CalmUntorn ==
  ASSUME Inv, Inv', Untorn, NEW s \in Session, Elsewhere(s), OpenAsBefore,
         locked \subseteq locked', torn \ {s} \subseteq torn',
         Len(dir') >= Len(dir), size' = size \/ \E i : i \notin locked /\ Truncate(i)
  PROVE  Untorn'
<1>1. \A j \in locked : Length(j)' >= Length(j)
  BY CutsNoLocked
<1>2. Spares(s)
  BY <1>1 DEF Spares
<1>3. Leaves(s)
  BY LeavesSame DEF Elsewhere
<1> QED
  BY <1>2, <1>3, StillUntorn DEF Elsewhere

LEMMA FoundElsewhere ==
  ASSUME Inv, NEW s \in Session, NEW c \in CallSet, NEW i \in Files, NEW mode \in Mode,
         Found(s, c, i, mode), \A t \in Session : user'[t].ofiles = user[t].ofiles
  PROVE  Elsewhere(s)
<1>1. PICK d : d = [c EXCEPT !.pc = "find", !.ino = i, !.mode = mode]
  OBVIOUS
<1>2. d \in CallSet /\ d.pc = "find"
  BY <1>1 DEF CallSet, Pc, Files
<1>3. Types /\ call' = [call EXCEPT ![s] = d]
  BY <1>1, InvIs DEF Found
<1>4. call'[s] = d /\ \A t \in Session \ {s} : call'[t] = call[t]
  BY <1>2, <1>3, CallIs
<1> QED
  BY <1>2, <1>4 DEF Elsewhere

LEMMA NotOpenedElsewhere ==
  ASSUME Inv, NEW s \in Session, NEW c \in Command \ {"login", "exit"}, NEW x \in Int, NotOpened(s, c, x)
  PROVE  Elsewhere(s)
<1>1. Types
  BY InvIs
<1>2. /\ \A t \in Session : user'[t].ofiles = user[t].ofiles
      /\ \A t \in Session \ {s} : call'[t] = call[t]
      /\ call'[s].pc \in {"idle", "loop"}
  BY <1>1, NotOpenedIs
<1> QED
  BY <1>2 DEF Elsewhere

LEMMA HangElsewhere ==
  ASSUME Inv, NEW s \in Session, call' = [call EXCEPT ![s] = NoCall("hung")], user' = user
  PROVE  Elsewhere(s)
<1>1. PICK d : d = NoCall("hung")
  OBVIOUS
<1>2. d \in CallSet /\ d.pc = "hung"
  BY <1>1, NoCallIs DEF Pc
<1>3. Types /\ call' = [call EXCEPT ![s] = d]
  BY <1>1, InvIs
<1>4. call'[s] = d /\ \A t \in Session \ {s} : call'[t] = call[t]
  BY <1>2, <1>3, CallIs
<1> QED
  BY <1>2, <1>4 DEF Elsewhere

LEMMA ReturnElsewhere ==
  ASSUME Inv, NEW s \in Session, NEW c \in Command, NEW ok \in BOOLEAN, Return(s, c, ok),
         \A t \in Session \ {s} : user'[t].ofiles = user[t].ofiles
  PROVE  Elsewhere(s)
<1>1. Types
  BY InvIs
<1>2. call'[s].pc = "idle" /\ \A t \in Session \ {s} : call'[t] = call[t]
  BY <1>1, ReturnIs
<1> QED
  BY <1>2 DEF Elsewhere

LEMMA SysOpenUntorn ==
  ASSUME Inv, Inv', Untorn, NEW s \in Session, NEW c \in CallSet, c.cmd \notin {"login", "exit"},
         NEW mode \in Mode, Sys_Open(s, c, mode)
  PROVE  Untorn'
<1>1. Types /\ user[s] \in UserSet
  BY InvIs
<1>2. PICK i : i = NameI(c.path)
  OBVIOUS
<1>3. PICK x \in Int : x = user[s].eax
  BY <1>1 DEF UserSet
<1>4. UNCHANGED <<dir, size, file>> /\ UNCHANGED lockVars
  BY DEF Sys_Open
<1>5. \/ /\ i # Nobody /\ Found(s, c, i, mode) /\ SetUser(s, x, FALSE)
      \/ NotOpened(s, c.cmd, x)
  BY <1>2, <1>3 DEF Sys_Open
<1>6. Elsewhere(s)
  <2>1. CASE i # Nobody /\ Found(s, c, i, mode) /\ SetUser(s, x, FALSE)
    <3>1. i \in Files
      BY <1>1, <1>2, <2>1, NameIIs DEF Types
    <3>2. PICK b \in BOOLEAN : b = FALSE
      OBVIOUS
    <3>3. \A t \in Session : user'[t].ofiles = user[t].ofiles
      BY <1>1, <2>1, <3>2, SetUserIs
    <3> QED
      BY <2>1, <3>1, <3>3, FoundElsewhere
  <2>2. CASE NotOpened(s, c.cmd, x)
    <3>1. c.cmd \in Command \ {"login", "exit"}
      BY DEF CallSet
    <3> QED
      BY <2>2, <3>1, NotOpenedElsewhere
  <2> QED
    BY <1>5, <2>1, <2>2
<1>7. locked' = locked /\ torn' = torn /\ OpenAsBefore
  BY <1>4 DEF lockVars, OpenAsBefore
<1>8. Len(dir') >= Len(dir)
  BY <1>1, <1>4 DEF Types
<1> QED
  BY <1>4, <1>6, <1>7, <1>8, CalmUntorn

LEMMA CreatThereUntorn ==
  ASSUME Inv, Inv', Untorn, NEW s \in Session, NEW c \in CallSet, c.cmd \notin {"login", "exit"},
         Free(NameI(c.path)), CreatThere(s, c), UNCHANGED <<file, heap, dead>>
  PROVE  Untorn'
<1>1. Types
  BY InvIs
<1>2. PICK i \in Files : i = NameI(c.path)
  <2>1. NameI(c.path) # Nobody
    BY DEF CreatThere
  <2> QED
    BY <1>1, <2>1, NameIIs DEF Types
<1>3. dir' = dir /\ i \notin locked
  BY <1>2 DEF CreatThere, Free
<1>4. PICK m \in Mode : m = {"write"}
  BY DEF Mode
<1>5. \/ Truncate(i) /\ Found(s, c, i, m) /\ SetUser(s, 0, FALSE) /\ UNCHANGED lockVars
      \/ Hang(s, i, i)
      \/ NotOpened(s, c.cmd, 0) /\ UNCHANGED <<size, sparse>> /\ UNCHANGED lockVars
  BY <1>2, <1>4 DEF CreatThere
<1>6. Elsewhere(s)
  <2>1. CASE Found(s, c, i, m) /\ SetUser(s, 0, FALSE)
    <3>1. \A t \in Session : user'[t].ofiles = user[t].ofiles
      BY <1>1, <2>1, SetUserZero
    <3> QED
      BY <2>1, <3>1, FoundElsewhere
  <2>2. CASE Hang(s, i, i)
    BY <2>2, HangElsewhere DEF Hang
  <2>3. CASE NotOpened(s, c.cmd, 0)
    <3>1. c.cmd \in Command \ {"login", "exit"}
      BY DEF CallSet
    <3> QED
      BY <2>3, <3>1, NotOpenedElsewhere
  <2> QED
    BY <1>5, <2>1, <2>2, <2>3
<1>7. locked \subseteq locked' /\ torn' = torn /\ (size' = size \/ \E j : j \notin locked /\ Truncate(j))
  BY <1>3, <1>5 DEF lockVars, Hang
<1>8. Len(dir') >= Len(dir) /\ OpenAsBefore
  BY <1>1, <1>3 DEF Types, OpenAsBefore
<1> QED
  BY <1>6, <1>7, <1>8, CalmUntorn

\* A directory never gets shorter.
LEMMA WriteDirLength ==
  ASSUME Types, NEW n \in Name, NEW i \in Inode, WriteDir(n, i)
  PROVE  Len(dir') >= Len(dir)
<1>1. PICK e : e = [name |-> n, ino |-> i]
  OBVIOUS
<1>2. dir' = IF FreeEntries = {} THEN Append(dir, e) ELSE [dir EXCEPT ![Lowest(FreeEntries)] = e]
  BY <1>1 DEF WriteDir
<1>3. dir \in Seq(Entry) /\ Len(dir) \in Nat
  BY DEF Types
<1>4. e \in Entry
  BY <1>1 DEF Entry
<1>5. CASE FreeEntries = {}
  BY <1>2, <1>3, <1>4, <1>5
<1>6. CASE FreeEntries # {}
  <2>1. PICK k : k = Lowest(FreeEntries)
    OBVIOUS
  <2>2. dir' = [dir EXCEPT ![k] = e]
    BY <1>2, <1>6, <2>1
  <2>3. k \in 1 .. Len(dir)
    <3>1. FreeEntries \subseteq 1 .. Len(dir)
      BY <1>3 DEF FreeEntries
    <3>2. FreeEntries \in SUBSET Nat
      BY <3>1
    <3>3. k \in FreeEntries
      BY <1>6, <2>1, <3>2, LowestIs
    <3> QED
      BY <3>1, <3>3
  <2>4. Len(dir') = Len(dir)
    BY <1>3, <1>4, <2>2, <2>3, ExceptSeq
  <2> QED
    BY <1>3, <2>4
<1> QED
  BY <1>5, <1>6

LEMMA CreatNewUntorn ==
  ASSUME Inv, Inv', Untorn, NEW s \in Session, NEW c \in CallSet, c.cmd \notin {"login", "exit"},
         c.path \in Name, CreatNew(s, c), UNCHANGED <<file, heap, dead>>
  PROVE  Untorn'
<1>1. Types /\ OpenAsBefore
  BY InvIs DEF OpenAsBefore
<1>2. PICK m \in Mode : m = {"write"}
  BY DEF Mode
<1>3. \/ /\ \E j \in FreeInodes : WriteDir(c.path, j) /\ Found(s, c, j, m) /\ SetUser(s, 0, FALSE)
         /\ UNCHANGED <<size, sparse>> /\ UNCHANGED lockVars
      \/ NotOpened(s, c.cmd, 0) /\ locked \subseteq locked' /\ UNCHANGED <<dir, size, torn>>
      \/ (\E j \in FreeInodes : Hang(s, j, Root)) /\ UNCHANGED dir
  BY <1>2 DEF CreatNew
<1>4. CASE /\ \E j \in FreeInodes : WriteDir(c.path, j) /\ Found(s, c, j, m) /\ SetUser(s, 0, FALSE)
           /\ UNCHANGED <<size, sparse>> /\ UNCHANGED lockVars
  <2>1. PICK j \in FreeInodes : WriteDir(c.path, j) /\ Found(s, c, j, m) /\ SetUser(s, 0, FALSE)
    BY <1>4
  <2>2. j \in Inode /\ j \in Files
    BY FilesAre DEF FreeInodes
  <2>3. \A t \in Session : user'[t].ofiles = user[t].ofiles
    BY <1>1, <2>1, SetUserZero
  <2>4. Elsewhere(s)
    BY <2>1, <2>2, <2>3, FoundElsewhere
  <2>5. Len(dir') >= Len(dir)
    BY <1>1, <2>1, <2>2, WriteDirLength
  <2>6. locked' = locked /\ torn' = torn /\ size' = size
    BY <1>4 DEF lockVars
  <2> QED
    BY <1>1, <2>4, <2>5, <2>6, CalmUntorn
<1>5. CASE NotOpened(s, c.cmd, 0) /\ locked \subseteq locked' /\ UNCHANGED <<dir, size, torn>>
  <2>1. c.cmd \in Command \ {"login", "exit"}
    BY DEF CallSet
  <2>2. Elsewhere(s)
    BY <1>5, <2>1, NotOpenedElsewhere
  <2>3. Len(dir') >= Len(dir)
    BY <1>1, <1>5 DEF Types
  <2> QED
    BY <1>1, <1>5, <2>2, <2>3, CalmUntorn
<1>6. CASE (\E j \in FreeInodes : Hang(s, j, Root)) /\ UNCHANGED dir
  <2>1. PICK j \in FreeInodes : Hang(s, j, Root)
    BY <1>6
  <2>2. Elsewhere(s) /\ locked \subseteq locked' /\ torn' = torn /\ size' = size
    BY <2>1, HangElsewhere DEF Hang
  <2>3. Len(dir') >= Len(dir)
    BY <1>1, <1>6 DEF Types
  <2> QED
    BY <1>1, <2>2, <2>3, CalmUntorn
<1> QED
  BY <1>3, <1>4, <1>5, <1>6

\* IPut: those who transfer the inode are torn, and only that inode is cut.
LEMMA PutSpares ==
  ASSUME Inv, Inv', NEW s \in Session, NEW i \in Files, IPut(i), dir' = dir
  PROVE  Spares(s)
<1>1. locked' = locked \ {i} /\ torn' = torn \cup Transferring(i)
  BY DEF IPut, Unlock
<1>2. Types /\ Kept
  BY InvIs
<1>3. ASSUME NEW j \in locked, j # i PROVE Length(j)' >= Length(j)
  <2>1. j \in Files /\ Length(j) \in 0 .. MaxOff
    BY <1>2, LengthIs DEF Types
  <2>2. j # Root => j \in Inode /\ size'[j] = size[j]
    BY <1>3, <2>1 DEF IPut, Truncate, Files
  <2>3. Length(j)' = Length(j)
    BY <2>2, LengthPrimed DEF Length
  <2> QED
    BY <2>1, <2>3, SessionAssumption
<1>4. ASSUME NEW j \in locked
      PROVE  \/ j \in locked' /\ Length(j)' >= Length(j)
             \/ Transferring(j) \ {s} \subseteq torn'
  BY <1>1, <1>3
<1> QED
  BY <1>1, <1>4 DEF Spares

LEMMA FindFileUntorn ==
  ASSUME Inv, Inv', Untorn, NEW s \in Session, FindFile(s)
  PROVE  Untorn'
<1>1. Types /\ call[s] \in CallSet /\ user[s] \in UserSet /\ Sound(call[s], user[s])
  BY InvIs
<1>2. PICK c \in CallSet : c = call[s]
  BY <1>1
<1>3. c.pc = "find" /\ c.cmd \in Openers /\ dir' = dir /\ file' = file /\ OpenAsBefore
  BY <1>1, <1>2 DEF FindFile, Sound, OpenAsBefore
<1>4. CASE /\ FreeFds(s) # {} /\ FreeFiles # {}
           /\ SetUser(s, Lowest(FreeFds(s)), user[s].error)
           /\ call' = [call EXCEPT ![s].pc = "take", ![s].fd = Lowest(FreeFds(s)), ![s].file = Lowest(FreeFiles)]
           /\ UNCHANGED <<size, locked, torn>>
  <2>1. FreeFds(s) \in SUBSET Nat /\ FreeFiles \in SUBSET Nat
    BY Finite DEF FreeFds, FreeFiles
  <2>2. PICK d \in FreeFds(s) : d = Lowest(FreeFds(s))
    BY <1>4, <2>1, LowestIs
  <2>3. PICK b \in BOOLEAN : b = user[s].error
    BY <1>1 DEF UserSet
  <2>4. PICK x \in Int : x = d
    BY <2>1
  <2>5. SetUser(s, x, b)
    BY <1>4, <2>2, <2>3, <2>4
  <2>6. \A t \in Session : user'[t].ofiles = user[t].ofiles
    BY <1>1, <2>5, SetUserIs
  <2>7. call'[s].pc = "take" /\ \A t \in Session \ {s} : call'[t] = call[t]
    BY <1>1, <1>4 DEF Types, CallSet
  <2>8. Elsewhere(s)
    BY <2>6, <2>7 DEF Elsewhere
  <2>9. Len(dir') >= Len(dir)
    BY <1>1, <1>3 DEF Types
  <2> QED
    BY <1>3, <1>4, <2>8, <2>9, CalmUntorn
<1>5. ASSUME NEW x \in Int, NotOpened(s, c.cmd, x), IPut(c.ino)
      PROVE  Untorn'
  <2>1. PICK i \in Files : i = c.ino
    BY DEF CallSet, Files
  <2>2. c.cmd \in Command \ {"login", "exit"}
    BY <1>3 DEF CallSet, Openers
  <2>3. Elsewhere(s)
    BY <1>5, <2>2, NotOpenedElsewhere
  <2>4. Spares(s)
    BY <1>3, <1>5, <2>1, PutSpares
  <2>5. Leaves(s)
    BY <1>3, <2>3, LeavesSame DEF Elsewhere
  <2> QED
    BY <2>3, <2>4, <2>5, StillUntorn DEF Elsewhere
<1>6. \/ /\ FreeFds(s) # {} /\ FreeFiles # {}
         /\ SetUser(s, Lowest(FreeFds(s)), user[s].error)
         /\ call' = [call EXCEPT ![s].pc = "take", ![s].fd = Lowest(FreeFds(s)), ![s].file = Lowest(FreeFiles)]
         /\ UNCHANGED <<size, locked, torn>>
      \/ /\ NotOpened(s, c.cmd, IF FreeFds(s) = {} THEN -1 ELSE Lowest(FreeFds(s)))
         /\ IPut(c.ino)
  BY <1>2 DEF FindFile
<1>7. (IF FreeFds(s) = {} THEN -1 ELSE Lowest(FreeFds(s))) \in Int
  <2>1. FreeFds(s) \in SUBSET Nat
    BY Finite DEF FreeFds
  <2>2. FreeFds(s) # {} => Lowest(FreeFds(s)) \in Nat
    BY <2>1, LowestIs
  <2> QED
    BY <2>2
<1> QED
  BY <1>4, <1>5, <1>6, <1>7

LEMMA NoCallPc ==
  ASSUME Types, NEW s \in Session, NEW pc \in Pc, call' = [call EXCEPT ![s] = NoCall(pc)]
  PROVE  call'[s].pc = pc /\ \A t \in Session \ {s} : call'[t] = call[t]
<1>1. PICK d : d = NoCall(pc)
  OBVIOUS
<1>2. d \in CallSet /\ d.pc = pc
  BY <1>1, NoCallIs
<1>3. call' = [call EXCEPT ![s] = d]
  BY <1>1
<1> QED
  BY <1>2, <1>3, CallIs

LEMMA QuietUntorn ==
  ASSUME Inv, Untorn, NEW s \in Session, Quiet(s), call'[s].pc # "io",
         locked \subseteq locked', torn \ {s} \subseteq torn',
         Len(dir') = Len(dir), size' = size \/ \E i : i \notin locked /\ Truncate(i)
  PROVE  Untorn'
<1>1. Inv'
  BY QuietKeeps
<1>2. Elsewhere(s) /\ OpenAsBefore
  BY DEF Quiet, Elsewhere, OpenAsBefore
<1>3. Len(dir) \in Nat
  BY InvIs DEF Types
<1>4. Len(dir') >= Len(dir)
  BY <1>3
<1> QED
  BY <1>1, <1>2, <1>4, CalmUntorn

LEMMA RdwrPc ==
  ASSUME Inv, NEW s \in Session, NEW c \in CallSet, Moving(c, user[s]), Rdwr(s, c)
  PROVE  call'[s].pc # "io"
<1>1. Types /\ user[s] \in UserSet
  BY InvIs
<1>2. CASE /\ Usable(s, c.fd, Direction(c))
           /\ call' = [call EXCEPT ![s] =
                      [c EXCEPT !.pc = "lock", !.ino = FileOf(s, c.fd).ino, !.mode = FileOf(s, c.fd).flag]]
  <2>1. c.fd \in Fd /\ user[s].ofiles[c.fd] # Null
    BY <1>2 DEF Usable, IsOpen
  <2>2. PICK i \in Files : i = FileOf(s, c.fd).ino
    BY <1>1, <2>1, OpenIs DEF FileSet, Files
  <2>3. PICK m \in Mode : m = FileOf(s, c.fd).flag
    BY <1>1, <2>1, OpenIs DEF FileSet
  <2>4. PICK d : d = [c EXCEPT !.pc = "lock", !.ino = i, !.mode = m]
    OBVIOUS
  <2>5. d \in CallSet /\ d.pc = "lock"
    BY <2>4 DEF CallSet, Files, Pc
  <2>6. call' = [call EXCEPT ![s] = d]
    BY <1>2, <2>2, <2>3, <2>4
  <2>7. call'[s] = d
    BY <1>1, <2>5, <2>6, CallIs
  <2> QED
    BY <2>5, <2>7
<1>3. CASE After(s, c, Outcome(0, user[s].eax, TRUE))
  <2>1. PICK x \in Int : x = user[s].eax
    BY <1>1 DEF UserSet
  <2>2. PICK n \in Nat : n = 0
    OBVIOUS
  <2>3. PICK b \in BOOLEAN : b = TRUE
    OBVIOUS
  <2>4. After(s, c, Outcome(n, x, b))
    BY <1>3, <2>1, <2>2, <2>3
  <2>5. user[s].error => b
    BY <2>3
  <2>6. call'[s].pc \in {"idle", "loop", "entry", "close"}
    BY <1>1, <2>4, <2>5, AfterIs
  <2> QED
    BY <2>6
<1> QED
  BY <1>2, <1>3 DEF Rdwr

LEMMA LoopUntorn ==
  ASSUME Inv, Untorn, NEW s \in Session, Loop(s)
  PROVE  Untorn'
<1>1. Types /\ call[s] \in CallSet /\ Sound(call[s], user[s])
  BY InvIs
<1>2. PICK c \in CallSet : c = call[s]
  BY <1>1
<1>3. PICK k \in Nat : k = IF c.cmd = "ls" THEN 1 ELSE BUF
  BY SessionAssumption
<1>4. PICK d : d = [c EXCEPT !.asked = k]
  OBVIOUS
<1>5. d \in CallSet /\ d.cmd = c.cmd /\ d.own = c.own /\ d.more = c.more /\ d.n = c.n
  BY <1>4 DEF CallSet
<1>6. Rdwr(s, d) /\ c.pc = "loop"
  BY <1>2, <1>3, <1>4 DEF Loop
<1>7. Moving(d, user[s])
  BY <1>1, <1>2, <1>5, <1>6 DEF Sound, Moving
<1>8. call'[s].pc # "io" /\ Quiet(s)
  BY <1>5, <1>6, <1>7, RdwrPc, LoopQuiet
<1>9. locked' = locked /\ torn' = torn /\ size' = size /\ dir' = dir
  BY <1>6 DEF Rdwr, lockVars
<1> QED
  BY <1>8, <1>9, QuietUntorn

LEMMA ReadWriteUntorn ==
  ASSUME Inv, Untorn, NEW s \in Session, NEW fd \in Fds, NEW k \in Counts, Read(s, fd, k) \/ Write(s, fd, k)
  PROVE  Untorn'
<1>1. call[s].pc = "idle" /\ Quiet(s)
  BY AskIs, ReadQuiet, WriteQuiet DEF Read, Write
<1>2. locked' = locked /\ torn' = torn /\ size' = size /\ dir' = dir
  BY DEF Read, Write, Rdwr, lockVars
<1>3. ASSUME NEW m \in Movers, Rdwr(s, Transfer(m, fd, k)) PROVE call'[s].pc # "io"
  <2>1. PICK t : t = Transfer(m, fd, k)
    OBVIOUS
  <2>2. t \in CallSet /\ Moving(t, user[s])
    BY <2>1, TransferIs
  <2> QED
    BY <1>3, <2>1, <2>2, RdwrPc
<1>4. call'[s].pc # "io"
  <2>1. "read" \in Movers /\ "write" \in Movers
    BY DEF Movers
  <2> QED
    BY <1>1, <1>3, <2>1 DEF Read, Write
<1> QED
  BY <1>1, <1>2, <1>4, QuietUntorn

LEMMA SeekUntorn ==
  ASSUME Inv, Untorn, NEW s \in Session, NEW fd, NEW j \in Jumps, Seek(s, fd, j[1], j[2])
  PROVE  Untorn'
<1>1. Quiet(s) /\ call[s].pc = "idle"
  BY SeekQuiet, AskIs DEF Seek
<1>2. locked' = locked /\ torn' = torn /\ size' = size /\ dir' = dir /\ call' = call
  BY DEF Seek, lockVars
<1> QED
  BY <1>1, <1>2, QuietUntorn

LEMMA CdUntorn ==
  ASSUME Inv, Untorn, NEW s \in Session, Cd(s)
  PROVE  Untorn'
<1>1. Quiet(s) /\ Types
  BY CdQuiet, InvIs
<1>2. locked' = locked /\ torn' = torn /\ size' = size /\ dir' = dir
  BY DEF Cd, lockVars
<1>3. call' = [call EXCEPT ![s] = NoCall("idle")]
  BY DEF Cd, Return
<1>4. call'[s].pc = "idle"
  BY <1>1, <1>3, NoCallPc DEF Pc
<1> QED
  BY <1>1, <1>2, <1>4, QuietUntorn

LEMMA NewCommandUntorn ==
  ASSUME Inv, Untorn, NEW s \in Session, NewCommand(s)
  PROVE  Untorn'
<1>1. Quiet(s) /\ Types
  BY NewCommandQuiet, InvIs
<1>2. locked' = locked /\ torn' = torn /\ size' = size /\ dir' = dir
  BY DEF NewCommand, lockVars
<1>3. PICK c \in CallSet : call' = [call EXCEPT ![s] = c] /\ c.pc \in {"name", "close"}
  BY WaitingIs
<1>4. call'[s] = c
  BY <1>1, <1>3, CallIs
<1> QED
  BY <1>1, <1>2, <1>3, <1>4, QuietUntorn

LEMMA LsEntryUntorn ==
  ASSUME Inv, Untorn, NEW s \in Session, LsEntry(s)
  PROVE  Untorn'
<1>1. Quiet(s) /\ Types /\ call[s] \in CallSet /\ Sound(call[s], user[s])
  BY LsEntryQuiet, InvIs
<1>2. call[s].pc = "entry" /\ locked' = locked /\ torn' = torn /\ size' = size /\ dir' = dir
  BY DEF LsEntry, lockVars
<1>3. CASE GoesOn(s, call[s], "loop", Root)
  <2>1. Root \in Files /\ "loop" \in {"loop", "entry", "close"}
    BY FilesAre
  <2>2. call[s].cmd \in Loopers
    BY <1>1, <1>2 DEF Sound
  <2>3. call'[s].pc = "loop"
    BY <1>1, <1>3, <2>1, <2>2, GoesOnIs
  <2> QED
    BY <1>1, <1>2, <2>3, QuietUntorn
<1>4. CASE call' = call
  BY <1>1, <1>2, <1>4, QuietUntorn
<1> QED
  BY <1>3, <1>4 DEF LsEntry

LEMMA RmUntorn ==
  ASSUME Inv, Untorn, NEW s \in Session, Rm(s)
  PROVE  Untorn'
<1>1. Quiet(s) /\ Types /\ Kept
  BY RmQuiet, InvIs
<1>2. PICK i : i = NameI(call[s].path)
  OBVIOUS
<1>3. i \notin locked /\ call[s].pc = "name"
  BY <1>2 DEF Rm, Free, Looks
<1>4. \/ Return(s, "rm", FALSE) /\ UNCHANGED <<dir, size>> /\ UNCHANGED lockVars
      \/ UNCHANGED <<dir, size, call>> /\ UNCHANGED lockVars
      \/ /\ dir' = [k \in DOMAIN dir |-> IF dir[k].ino = i THEN [dir[k] EXCEPT !.ino = 0] ELSE dir[k]]
         /\ \/ Hang(s, i, i)
            \/ /\ Truncate(i) \/ UNCHANGED <<size, sparse>>
               /\ Return(s, "rm", TRUE) /\ UNCHANGED lockVars
  BY <1>2 DEF Rm
<1>5. locked \subseteq locked' /\ torn' = torn
  BY <1>4 DEF lockVars, Hang
<1>6. size' = size \/ \E j : j \notin locked /\ Truncate(j)
  BY <1>3, <1>4 DEF Hang
<1>7. Len(dir') = Len(dir)
  BY <1>1, <1>4, UnlinkedIs
<1>8. call'[s].pc # "io"
  <2>1. \/ call' = call
        \/ call' = [call EXCEPT ![s] = NoCall("idle")]
        \/ call' = [call EXCEPT ![s] = NoCall("hung")]
    BY <1>4 DEF Return, Hang
  <2> QED
    BY <1>1, <1>3, <2>1, NoCallPc DEF Pc
<1> QED
  BY <1>1, <1>5, <1>6, <1>7, <1>8, QuietUntorn

LEMMA TurnHangsUntorn ==
  ASSUME Inv, Untorn, NEW s \in Session, TurnHangs(s)
  PROVE  Untorn'
<1>1. Quiet(s) /\ Types
  BY TurnHangsQuiet, InvIs
<1>2. locked' = locked /\ torn \ {s} \subseteq torn' /\ size' = size /\ dir' = dir
  BY DEF TurnHangs
<1>3. call' = [call EXCEPT ![s] = NoCall("hung")]
  BY DEF TurnHangs
<1>4. call'[s].pc = "hung"
  BY <1>1, <1>3, NoCallPc DEF Pc
<1> QED
  BY <1>1, <1>2, <1>4, QuietUntorn

LEMMA ExitUntorn ==
  ASSUME Inv, Untorn, NEW s \in Session, Exit(s)
  PROVE  Untorn'
<1>1. Inv' /\ Types
  BY ExitKeeps, InvIs
<1>2. locked' = locked /\ torn' = torn /\ size' = size /\ dir' = dir /\ file' = file
  BY DEF Exit, lockVars
<1>3. call' = [call EXCEPT ![s] = NoCall("out")] \/ call' = [call EXCEPT ![s] = NoCall("hung")]
  BY DEF Exit
<1>4. call'[s].pc # "io" /\ \A t \in Session \ {s} : call'[t] = call[t]
  BY <1>1, <1>3, NoCallPc DEF Pc
<1>5. \A t \in Session \ {s} : user'[t] = user[t]
  BY <1>1 DEF Exit, Types
<1>6. Elsewhere(s) /\ OpenAsBefore
  BY <1>2, <1>4, <1>5 DEF Elsewhere, OpenAsBefore
<1>7. Len(dir') >= Len(dir)
  BY <1>1, <1>2 DEF Types
<1> QED
  BY <1>1, <1>2, <1>6, <1>7, CalmUntorn

LEMMA LoginUntorn ==
  ASSUME Inv, Untorn, NEW s \in Session, Login(s)
  PROVE  Untorn'
<1>1. Inv' /\ Types
  BY LoginKeeps, InvIs
<1>2. locked' = locked /\ torn' = torn /\ size' = size /\ dir' = dir /\ file' = file
  BY DEF Login, lockVars
<1>3. call' = [call EXCEPT ![s] = NoCall("idle")]
  BY DEF Login
<1>4. call'[s].pc # "io" /\ \A t \in Session \ {s} : call'[t] = call[t]
  BY <1>1, <1>3, NoCallPc DEF Pc
<1>5. \A t \in Session \ {s} : user'[t] = user[t]
  BY <1>1 DEF Login, Types
<1>6. Elsewhere(s) /\ OpenAsBefore
  BY <1>2, <1>4, <1>5 DEF Elsewhere, OpenAsBefore
<1>7. Len(dir') >= Len(dir)
  BY <1>1, <1>2 DEF Types
<1> QED
  BY <1>1, <1>2, <1>6, <1>7, CalmUntorn

LEMMA CloseUntorn ==
  ASSUME Inv, Untorn, NEW s \in Session, Close(s)
  PROVE  Untorn'
<1>1. Inv' /\ Types /\ call[s] \in CallSet
  BY CloseKeeps, InvIs
<1>2. PICK c \in CallSet : c = call[s]
  BY <1>1
<1>3. Sys_Close(s, c.fd) /\ call' = [call EXCEPT ![s] = NoCall("idle")] /\ dir' = dir
  BY <1>2 DEF Close, Return, Sys_Close
<1>4. call'[s].pc = "idle" /\ \A t \in Session \ {s} : call'[t] = call[t]
  BY <1>1, <1>3, NoCallPc DEF Pc
<1>5. Len(dir') >= Len(dir)
  BY <1>1, <1>3 DEF Types
<1>6. CASE ~IsOpen(s, c.fd)
  <2>1. SetUser(s, -1, TRUE) /\ UNCHANGED <<size, sparse, file, locked, torn>>
    BY <1>3, <1>6 DEF Sys_Close
  <2>2. PICK x \in Int : x = -1
    OBVIOUS
  <2>3. PICK b \in BOOLEAN : b = TRUE
    OBVIOUS
  <2>4. \A t \in Session : user'[t].ofiles = user[t].ofiles
    BY <1>1, <2>1, <2>2, <2>3, SetUserIs
  <2>5. Elsewhere(s) /\ OpenAsBefore
    BY <1>4, <2>1, <2>4 DEF Elsewhere, OpenAsBefore
  <2> QED
    BY <1>1, <1>5, <2>1, <2>5, CalmUntorn
<1>7. CASE IsOpen(s, c.fd)
  <2>1. PICK d \in Fd : d = c.fd /\ user[s].ofiles[d] # Null
    BY <1>7 DEF IsOpen
  <2>2. PICK f \in File : f = user[s].ofiles[d] /\ FileOf(s, d) = file[f]
    BY <1>1, <2>1, OpenIs
  <2>3. PICK i \in Files : i = file[f].ino
    BY <1>1 DEF Types, FileSet, Files
  <2>4. /\ user' = [user EXCEPT ![s] = Returned(@, d)]
        /\ file' = [file EXCEPT ![f].count = @ - 1]
        /\ IPut(i) \/ UNCHANGED <<size, sparse, locked, torn>>
    BY <1>3, <1>7, <2>1, <2>2, <2>3 DEF Sys_Close
  <2>5. \A t \in Session \ {s} : user'[t] = user[t]
    BY <1>1, <2>4 DEF Types
  <2>6. OpenAsBefore
    BY <1>1, <2>4 DEF Types, FileSet, OpenAsBefore
  <2>7. Elsewhere(s)
    BY <1>4, <2>5 DEF Elsewhere
  <2>8. CASE IPut(i)
    <3>1. Spares(s) /\ Leaves(s)
      BY <1>1, <1>3, <2>6, <2>7, <2>8, PutSpares, LeavesSame DEF Elsewhere
    <3> QED
      BY <1>1, <1>4, <3>1, StillUntorn
  <2>9. CASE UNCHANGED <<size, sparse, locked, torn>>
    BY <1>1, <1>5, <2>6, <2>7, <2>9, CalmUntorn
  <2> QED
    BY <2>4, <2>8, <2>9
<1> QED
  BY <1>6, <1>7

\* Those whose File structure is taken are torn.
LEMMA TakeFileUntorn ==
  ASSUME Inv, Untorn, NEW s \in Session, TakeFile(s)
  PROVE  Untorn'
<1>1. Inv' /\ Types /\ Kept /\ call[s] \in CallSet /\ user[s] \in UserSet /\ Sound(call[s], user[s])
  BY TakeFileKeeps, InvIs
<1>2. /\ UNCHANGED <<dir, size, locked>> /\ call[s].pc = "take" /\ Opened(s)
      /\ torn' = torn \cup {r \in Session : call[r].pc = "io" /\ user[r].ofiles[call[r].fd] = call[s].file}
  BY DEF TakeFile
<1>3. PICK f \in File : f = call[s].file
  BY <1>1, <1>2 DEF Sound
<1>4. \A h \in File \ {f} : file'[h] = file[h]
  BY <1>1, <1>3 DEF TakeFile, Types
<1>5. \A t \in Session \ {s} : user'[t] = user[t]
  BY <1>1 DEF TakeFile, Types
<1>6. call'[s].pc # "io" /\ \A t \in Session \ {s} : call'[t] = call[t]
  <2>1. call[s].cmd \in Openers
    BY <1>1, <1>2 DEF Sound
  <2>2. call'[s].pc \in {"idle", "reopen", "loop", "close"}
    BY <1>1, <1>2, <2>1, OpenedIs
  <2> QED
    BY <1>1, <1>2, <2>1, <2>2, OpenedIs
<1>7. Spares(s)
  <2>1. Len(dir') >= Len(dir) /\ size' = size
    BY <1>1, <1>2 DEF Types
  <2>2. \A j \in locked : Length(j)' >= Length(j)
    BY <1>1, <2>1, CutsNoLocked
  <2>3. locked' = locked /\ torn \subseteq torn'
    BY <1>2
  <2> QED
    BY <2>2, <2>3 DEF Spares
<1>8. Leaves(s)
  <2>1. ASSUME NEW t \in Session \ {s}, call[t].pc = "io", t \notin torn'
        PROVE  /\ FileOf(t, call[t].fd)'.ino = FileOf(t, call[t].fd).ino
               /\ FileOf(t, call[t].fd)'.flag = FileOf(t, call[t].fd).flag
    <3>1. PICK c : c = call[t]
      OBVIOUS
    <3>2. PICK h \in File : h = user[t].ofiles[c.fd] /\ FileOf(t, c.fd) = file[h]
      BY <2>1, <3>1, IoIs
    <3>3. h # f
      BY <1>2, <1>3, <2>1, <3>1, <3>2
    <3>4. FileOf(t, call[t].fd)' = file'[h]
      BY <1>5, <1>6, <3>1, <3>2 DEF FileOf
    <3> QED
      BY <1>4, <3>1, <3>2, <3>3, <3>4
  <2> QED
    BY <1>5, <1>6, <2>1 DEF Leaves
<1> QED
  BY <1>1, <1>6, <1>7, <1>8, StillUntorn

LEMMA RdwrEndPc ==
  ASSUME Inv, NEW s \in Session, RdwrEnd(s)
  PROVE  call'[s].pc # "io"
<1>1. Types
  BY InvIs
<1>2. PICK c : c = call[s]
  OBVIOUS
<1>3. c \in CallSet /\ c.pc = "io" /\ c.n \in Nat
  BY <1>2, RdwrEndIs
<1>4. PICK b \in BOOLEAN : b = user[s].error /\ After(s, c, Outcome(c.n, c.n, b))
  BY <1>2, RdwrEndIs
<1>5. Moving(c, user[s])
  BY <1>2, <1>3, IoIs
<1>6. PICK n \in Nat : n = c.n
  BY <1>3
<1>7. n \in Int /\ After(s, c, Outcome(n, n, b)) /\ (user[s].error => b)
  BY <1>4, <1>6
<1>8. call'[s].pc \in {"idle", "loop", "entry", "close"}
  BY <1>1, <1>3, <1>5, <1>7, AfterIs
<1> QED
  BY <1>8

LEMMA RdwrEndUntorn ==
  ASSUME Inv, Untorn, NEW s \in Session, RdwrEnd(s)
  PROVE  Untorn'
<1>1. Inv' /\ Types /\ Quiet(s)
  BY RdwrEndQuiet, QuietKeeps, InvIs
<1>2. PICK c : c = call[s]
  OBVIOUS
<1>3. PICK f : f = user[s].ofiles[c.fd]
  OBVIOUS
<1>4. /\ c \in CallSet /\ c.pc = "io" /\ c.n \in Nat /\ f \in File /\ UNCHANGED <<dir, size>>
  BY <1>2, <1>3, RdwrEndIs
<1>6. call'[s].pc # "io"
  BY RdwrEndPc
<1>7. Spares(s)
  <2>1. PICK i : i = file[f].ino
    OBVIOUS
  <2>2. locked' = locked \ {i} /\ torn' = (torn \cup Transferring(i)) \ {s}
    BY <1>2, <1>3, <2>1 DEF RdwrEnd
  <2>3. Len(dir') >= Len(dir) /\ size' = size
    BY <1>1, <1>4 DEF Types
  <2>4. \A j \in locked : Length(j)' >= Length(j)
    BY <1>1, <2>3, CutsNoLocked
  <2>5. ASSUME NEW j \in locked
        PROVE  \/ j \in locked' /\ Length(j)' >= Length(j)
               \/ Transferring(j) \ {s} \subseteq torn'
    BY <2>2, <2>4
  <2> QED
    BY <2>2, <2>5 DEF Spares
<1>8. Leaves(s)
  BY <1>1, LeavesSame DEF Quiet, OpenAsBefore
<1> QED
  BY <1>1, <1>6, <1>7, <1>8, StillUntorn

LEMMA TurnFailsUntorn ==
  ASSUME Inv, Untorn, NEW s \in Session, TurnFails(s)
  PROVE  Untorn'
<1>1. Quiet(s)
  BY TurnFailsQuiet
<1>2. UNCHANGED <<dir, size, file, call, locked, torn>> /\ \A t \in Session : user'[t].ofiles = user[t].ofiles
  BY <1>1 DEF TurnFails, Quiet
<1>3. \A i : Length(i)' = Length(i)
  BY <1>2, LengthPrimed DEF Length
<1>4. ASSUME NEW t \in Session PROVE Whole(t)'
  <2>1. FileOf(t, call[t].fd)' = FileOf(t, call[t].fd)
    BY <1>2 DEF FileOf
  <2>2. PICK c : c = call[t] /\ c = call'[t]
    BY <1>2
  <2>3. FileOf(t, c.fd)' = FileOf(t, c.fd)
    BY <2>1, <2>2 DEF FileOf
  <2>4. Whole(t)
    BY DEF Untorn
  <2> QED
    BY <1>2, <1>3, <2>2, <2>3, <2>4 DEF Whole
<1> QED
  BY <1>4 DEF Untorn

LEMMA StrayUntorn ==
  ASSUME Inv, Untorn, NEW i, Stray(i)
  PROVE  Untorn'
<1>1. UNCHANGED <<dir, size, file, call, user>> /\ locked' = locked \ {i} /\ torn' = torn \cup Transferring(i)
  BY DEF Stray, Unlock
<1>2. \A j : Length(j)' = Length(j)
  BY <1>1, LengthPrimed DEF Length
<1>3. ASSUME NEW t \in Session PROVE Whole(t)'
  <2>1. PICK c : c = call[t] /\ c = call'[t]
    BY <1>1
  <2>2. FileOf(t, c.fd)' = FileOf(t, c.fd)
    BY <1>1 DEF FileOf
  <2>3. Whole(t)
    BY DEF Untorn
  <2>4. c.pc = "io" /\ t \notin torn' => t \notin torn /\ c.ino # i
    BY <1>1, <2>1 DEF Transferring
  <2> QED
    BY <1>1, <1>2, <2>1, <2>2, <2>3, <2>4 DEF Whole
<1> QED
  BY <1>3 DEF Untorn

\* NFlock: the session has the inode to itself, or is torn from the beginning.
LEMMA RdwrLockUntorn ==
  ASSUME Inv, Untorn, NEW s \in Session, RdwrLock(s)
  PROVE  Untorn'
<1>1. Inv' /\ Types /\ Kept /\ Quiet(s) /\ Sound(call[s], user[s])
  BY RdwrLockQuiet, QuietKeeps, InvIs
<1>2. PICK c : c = call[s]
  OBVIOUS
<1>3. PICK f : f = FileOf(s, c.fd)
  OBVIOUS
<1>4. /\ c.pc = "lock" /\ UNCHANGED <<dir, size, file, user>>
      /\ locked' = locked \cup {c.ino}
      /\ torn' = IF Transferring(c.ino) = {} /\ f.ino = c.ino /\ f.flag = c.mode THEN torn ELSE torn \cup {s}
      /\ call' = [call EXCEPT ![s].pc = "io", ![s].off = f.off]
  BY <1>2, <1>3 DEF RdwrLock
<1>5. c \in CallSet /\ c.n = 0
  BY <1>1, <1>2, <1>4, IoIs DEF Sound
<1>6. /\ call'[s].pc = "io" /\ call'[s].ino = c.ino /\ call'[s].mode = c.mode
      /\ call'[s].fd = c.fd /\ call'[s].n = 0
  BY <1>1, <1>2, <1>4, <1>5 DEF Types, CallSet
<1>7. Spares(s)
  <2>1. Len(dir') >= Len(dir) /\ size' = size
    BY <1>1, <1>4 DEF Types
  <2>2. \A j \in locked : Length(j)' >= Length(j)
    BY <1>1, <2>1, CutsNoLocked
  <2>3. locked \subseteq locked' /\ torn \subseteq torn'
    BY <1>4
  <2> QED
    BY <2>2, <2>3 DEF Spares
<1>8. Leaves(s)
  BY <1>1, LeavesSame DEF Quiet, OpenAsBefore
<1>9. \A t \in Session \ {s} : Whole(t)'
  BY <1>1, <1>7, <1>8, OthersWhole DEF Quiet
<1>10. Whole(s)'
  <2>1. SUFFICES ASSUME s \notin torn' PROVE Whole(s)'
    BY DEF Whole
  <2>2. f.ino = c.ino /\ f.flag = c.mode
    BY <1>4, <2>1
  <2>3. PICK d : d = call'[s]
    OBVIOUS
  <2>4. FileOf(s, d.fd)' = f
    BY <1>3, <1>4, <1>6, <2>3 DEF FileOf
  <2>5. d.ino \in locked' /\ FileOf(s, d.fd)'.ino = d.ino /\ FileOf(s, d.fd)'.flag = d.mode /\ d.n = 0
    BY <1>4, <1>6, <2>2, <2>3, <2>4
  <2> QED
    BY <2>3, <2>5 DEF Whole
<1> QED
  BY <1>9, <1>10 DEF Untorn

\* A block: what has been written is in the file, what has been read was there.
LEMMA TurnUntorn ==
  ASSUME Inv, Untorn, NEW s \in Session, Turn(s)
  PROVE  Untorn'
<1>1. Inv' /\ Types /\ Kept /\ Quiet(s)
  BY TurnQuiet, QuietKeeps, InvIs
<1>2. PICK c : c = call[s]
  OBVIOUS
<1>3. /\ c \in CallSet /\ c.pc = "io"
      /\ Part(c) \in Nat /\ At(c) + Part(c) <= MaxOff
      /\ Direction(c) = "read" => At(c) + Part(c) <= Length(c.ino)
      /\ call' = [call EXCEPT ![s].n = c.n + Part(c)]
      /\ UNCHANGED <<dir, file, user>> /\ UNCHANGED lockVars
  BY <1>2, TurnIs
<1>4. c.n \in Nat /\ c.off \in Nat /\ At(c) = c.off + c.n /\ MaxOff \in Nat
  BY <1>3, SessionAssumption DEF CallSet, At
<1>5. PICK end \in 0 .. MaxOff : end = At(c) + Part(c)
  BY <1>3, <1>4
<1>6. c.ino \in Files /\ (Direction(c) = "write" => c.ino \in Inode)
  BY <1>2, <1>3, IoIs
<1>7. \/ Direction(c) = "read" /\ size' = size
      \/ Direction(c) = "write" /\ size' = [size EXCEPT ![c.ino] = IF @ < end THEN end ELSE @]
  <2>1. CASE Direction(c) = "read"
    BY <1>2, <2>1 DEF Turn
  <2>2. CASE Direction(c) # "read"
    BY <1>2, <1>5, <2>2 DEF Turn, Direction
  <2> QED
    BY <2>1, <2>2
<1>8. ASSUME NEW j \in Files PROVE Length(j)' >= Length(j)
  <2>1. Length(j) \in 0 .. MaxOff
    BY <1>1, LengthIs
  <2>2. CASE j = Root
    BY <1>3, <2>1, <2>2, LengthPrimed DEF Length
  <2>3. CASE j # Root
    <3>1. j \in Inode /\ size[j] \in 0 .. MaxOff /\ Length(j) = size[j] /\ Length(j)' = size'[j]
      BY <1>1, <2>3, LengthPrimed DEF Files, Length, Types
    <3>2. size'[j] >= size[j]
      BY <1>1, <1>5, <1>7, <3>1 DEF Types
    <3> QED
      BY <3>1, <3>2
  <2> QED
    BY <2>2, <2>3
<1>9. end <= Length(c.ino)'
  <2>1. CASE Direction(c) = "read"
    <3>1. end <= Length(c.ino) /\ Length(c.ino) \in 0 .. MaxOff
      BY <1>1, <1>3, <1>5, <1>6, <2>1, LengthIs
    <3>2. Length(c.ino)' = Length(c.ino)
      <4>1. size' = size
        BY <1>7, <2>1
      <4> QED
        BY <1>3, <4>1, <1>2, <1>6, LengthPrimed DEF Length
    <3> QED
      BY <3>1, <3>2
  <2>2. CASE Direction(c) = "write"
    <3>1. PICK i \in Inode : i = c.ino /\ i # Root
      BY <1>6, <2>2, FilesAre
    <3>2. size'[i] >= end
      BY <1>1, <1>5, <1>7, <2>2, <3>1 DEF Types
    <3>3. Length(i)' = size'[i]
      BY <3>1, LengthPrimed
    <3> QED
      BY <3>1, <3>2, <3>3
  <2> QED
    BY <1>7, <2>1, <2>2
<1>10. Spares(s)
  <2>1. locked' = locked /\ torn' = torn /\ locked \subseteq Files
    BY <1>1, <1>3 DEF lockVars, Types
  <2> QED
    BY <1>8, <2>1 DEF Spares
<1>11. Leaves(s)
  BY <1>1, LeavesSame DEF Quiet, OpenAsBefore
<1>12. \A t \in Session \ {s} : Whole(t)'
  BY <1>1, <1>10, <1>11, OthersWhole DEF Quiet
<1>13. Whole(s)'
  <2>1. SUFFICES ASSUME s \notin torn' PROVE Whole(s)'
    BY DEF Whole
  <2>2. PICK d : d = call'[s]
    OBVIOUS
  <2>3. d.pc = "io" /\ d.ino = c.ino /\ d.mode = c.mode /\ d.fd = c.fd /\ d.off = c.off /\ d.n = c.n + Part(c)
    BY <1>1, <1>2, <1>3, <2>2 DEF Types, CallSet
  <2>4. s \notin torn /\ locked' = locked
    BY <1>3, <2>1 DEF lockVars
  <2>5. c.ino \in locked /\ FileOf(s, c.fd).ino = c.ino /\ FileOf(s, c.fd).flag = c.mode
    BY <1>2, <1>3, <2>4 DEF Untorn, Whole
  <2>6. FileOf(s, d.fd)' = FileOf(s, c.fd)
    BY <1>3, <2>3 DEF FileOf
  <2>7. d.off + d.n = end
    BY <1>3, <1>4, <1>5, <2>3
  <2>8. PICK i : i = c.ino
    OBVIOUS
  <2>9. PICK l : l = Length(i)'
    OBVIOUS
  <2>10. end <= l
    BY <1>9, <1>2, <2>8, <2>9, LengthPrimed
  <2> QED
    BY <2>2, <2>3, <2>4, <2>5, <2>6, <2>7, <2>8, <2>9, <2>10 DEF Whole
<1> QED
  BY <1>12, <1>13 DEF Untorn

LEMMA OpenUntorn ==
  ASSUME Inv, Inv', Untorn, NEW s \in Session, Open(s) \/ Creat(s) \/ Reopen(s)
  PROVE  Untorn'
<1>1. call[s] \in CallSet /\ Sound(call[s], user[s])
  BY InvIs
<1>2. PICK c \in CallSet : c = call[s]
  BY <1>1
<1>3. c.cmd \notin {"login", "exit"}
  BY <1>1, <1>2 DEF Sound
<1>4. CASE Open(s)
  <2>1. PICK mode \in Mode : mode = c.mode
    BY DEF CallSet
  <2>2. Sys_Open(s, c, mode)
    BY <1>2, <1>4, <2>1 DEF Open
  <2> QED
    BY <1>3, <2>2, SysOpenUntorn
<1>5. CASE Creat(s)
  <2>1. Sys_Creat(s, c) /\ c.path \in Name
    BY <1>1, <1>2, <1>5 DEF Creat, Looks, Sound, CallSet
  <2>2. Free(NameI(c.path)) /\ (CreatThere(s, c) \/ CreatNew(s, c)) /\ UNCHANGED <<file, heap, dead>>
    BY <2>1 DEF Sys_Creat
  <2> QED
    BY <1>3, <2>1, <2>2, CreatThereUntorn, CreatNewUntorn
<1>6. CASE Reopen(s)
  <2>1. PICK k \in 1 .. 2 : Sys_Open(s, [c EXCEPT !.more = k], {"write"})
    BY <1>2, <1>6 DEF Reopen
  <2>2. PICK d : d = [c EXCEPT !.more = k]
    OBVIOUS
  <2>3. d \in CallSet /\ d.cmd = c.cmd
    BY <2>2 DEF CallSet
  <2>4. PICK mode \in Mode : mode = {"write"}
    BY DEF Mode
  <2>5. Sys_Open(s, d, mode)
    BY <2>1, <2>2, <2>4
  <2> QED
    BY <1>3, <2>3, <2>5, SysOpenUntorn
<1> QED
  BY <1>4, <1>5, <1>6

LEMMA BeginUntorn ==
  ASSUME Inv, Untorn, NEW s \in Session, Begin(s)
  PROVE  Untorn'
<1>1. ASSUME NEW d \in Fds, NEW k \in Counts, Read(s, d, k) \/ Write(s, d, k) PROVE Untorn'
  BY <1>1, ReadWriteUntorn
<1>2. ASSUME NEW d \in Fds, NEW j \in Jumps, Seek(s, d, j[1], j[2]) PROVE Untorn'
  BY <1>2, SeekUntorn
<1>3. CASE NewCommand(s) \/ Exit(s) \/ Login(s)
  BY <1>3, NewCommandUntorn, ExitUntorn, LoginUntorn
<1> QED
  BY <1>1, <1>2, <1>3 DEF Begin

LEMMA StepUntorn ==
  ASSUME Inv, Untorn, NEW s \in Session, Step(s)
  PROVE  Untorn'
<1>1. Inv'
  BY StepKeeps
<1>2. CASE Open(s) \/ Creat(s) \/ Reopen(s)
  BY <1>1, <1>2, OpenUntorn
<1>3. CASE FindFile(s) \/ TakeFile(s) \/ Close(s)
  BY <1>1, <1>3, FindFileUntorn, TakeFileUntorn, CloseUntorn
<1>4. CASE Rm(s) \/ Cd(s) \/ Loop(s) \/ LsEntry(s)
  BY <1>4, RmUntorn, CdUntorn, LoopUntorn, LsEntryUntorn
<1>5. CASE RdwrLock(s) \/ Turn(s) \/ TurnFails(s) \/ TurnHangs(s) \/ RdwrEnd(s)
  BY <1>5, RdwrLockUntorn, TurnUntorn, TurnFailsUntorn, TurnHangsUntorn, RdwrEndUntorn
<1> QED
  BY <1>2, <1>3, <1>4, <1>5 DEF Step

LEMMA NextUntorn ==
  ASSUME Inv, Untorn, [Next]_vars
  PROVE  Untorn'
<1>1. CASE UNCHANGED vars
  <2>1. UNCHANGED <<dir, size, file, call, user, locked, torn>>
    BY <1>1 DEF vars
  <2> QED
    BY <2>1 DEF Untorn, Whole, FileOf, Length
<1>2. ASSUME NEW s \in Session, Step(s) \/ Begin(s) PROVE Untorn'
  BY <1>2, StepUntorn, BeginUntorn
<1>3. ASSUME NEW i, Stray(i) PROVE Untorn'
  BY <1>3, StrayUntorn
<1> QED
  BY <1>1, <1>2, <1>3 DEF Next

LEMMA InitUntorn ==
  ASSUME Init
  PROVE  Untorn
<1>1. PICK c : c = NoCall("idle")
  OBVIOUS
<1>2. c.pc = "idle"
  BY <1>1, NoCallIs DEF Pc
<1>3. \A s \in Session : call[s] = c
  BY <1>1 DEF Init
<1> QED
  BY <1>2, <1>3 DEF Untorn, Whole

-----------------------------------------------------------------------------
(* The cursors *)

\* A read or write without an error has done all of it, if nobody has disturbed it.
LEMMA TransferIsTrue ==
  ASSUME Inv, Untorn, ~Shared, NEW s \in Session, RdwrEnd(s), ~Disturbed,
         call[s].cmd \in Movers, ~user[s].error
  PROVE  C!Read(s) \/ C!Write(s)
<1>1. Types /\ Kept /\ FilesCounted /\ MaxOff \in Nat
  BY InvIs, SessionAssumption
<1>2. PICK c : c = call[s]
  OBVIOUS
<1>3. PICK f : f = user[s].ofiles[c.fd]
  OBVIOUS
<1>4. /\ c \in CallSet /\ c.pc = "io" /\ c.n \in Nat /\ f \in File /\ file[f] = FileOf(s, c.fd)
      /\ UNCHANGED <<dir, size>>
  BY <1>2, <1>3, RdwrEndIs
<1>5. PICK to \in 0 .. MaxOff : to = Least(file[f].off + c.n, MaxOff) /\ Positioned(f, to)
  BY <1>2, <1>3, RdwrEndIs
<1>6. PICK b \in BOOLEAN : b = user[s].error /\ After(s, c, Outcome(c.n, c.n, b))
  BY <1>2, <1>3, RdwrEndIs
<1>7. /\ c.n <= c.asked /\ c.off + c.n <= MaxOff /\ Direction(c) \in c.mode
      /\ Moving(c, user[s]) /\ c.ino \in Files
  BY <1>2, <1>4, IoIs DEF Fits
<1>8. PICK d \in Fd : d = c.fd
  BY <1>2, <1>4, IoIs DEF Fits
<1>9. s \notin torn /\ file[f].off = c.off
  <2>1. call'[s].pc # "io"
    BY RdwrEndPc
  <2> QED
    BY <1>2, <1>4, <2>1 DEF Disturbed
<1>10. /\ file[f].ino = c.ino /\ file[f].flag = c.mode
       /\ c.n > 0 => c.off + c.n <= Length(c.ino)
  BY <1>2, <1>4, <1>9 DEF Untorn, Whole
<1>11. PICK n \in 0 .. MaxOff : n = c.n
  BY <1>1, <1>4, <1>7 DEF CallSet
<1>12. PICK off \in 0 .. MaxOff : off = c.off
  BY <1>4 DEF CallSet
<1>13. to = off + n
  BY <1>1, <1>5, <1>7, <1>9, <1>11, <1>12 DEF Least
<1>14. PICK l \in 0 .. MaxOff : l = Length(c.ino)
  BY <1>1, <1>7, LengthIs
<1>15. PICK asked \in Counts \cup {0} : asked = c.asked
  BY <1>2, <1>7 DEF Moving
<1>16. asked \in Nat
  BY <1>4, <1>15 DEF CallSet
<1>17. \A t \in Session : user'[t].ofiles = user[t].ofiles
  BY RdwrEndQuiet DEF Quiet
<1>18. /\ cursor[s][d] # Nobody
       /\ cursor[s][d] = [ino |-> c.ino, mode |-> c.mode, off |-> off]
       /\ cursor' = [cursor EXCEPT ![s][d].off = to]
  <2>1. /\ cursor[s][d] # Nobody
        /\ cursor[s][d] = [ino |-> file[f].ino, mode |-> file[f].flag, off |-> file[f].off]
        /\ cursor' = [cursor EXCEPT ![s][d].off = to]
    BY <1>1, <1>3, <1>4, <1>5, <1>8, <1>17, OneMoves
  <2> QED
    BY <1>9, <1>10, <1>12, <2>1
<1>19. PICK k : k = cursor[s][d]
  OBVIOUS
<1>20. k # Nobody /\ k.ino = c.ino /\ k.mode = c.mode /\ k.off = off
  BY <1>18, <1>19
<1>21. cursor' = [cursor EXCEPT ![s][d].off = k.off + n]
  BY <1>13, <1>18, <1>20
<1>22. lengths' = lengths /\ lengths[c.ino] = l
  BY <1>1, <1>4, <1>7, <1>14, Unresized DEF lengths, Files
<1>23. said' = [by |-> s, cmd |-> c.cmd, ok |-> TRUE, asked |-> asked, n |-> n]
  <2>1. PICK o : o = Outcome(n, n, b)
    OBVIOUS
  <2>2. o.error = b /\ o.eax = n /\ After(s, c, o)
    BY <1>6, <1>11, <2>1 DEF Outcome
  <2>3. Answer(s, c.cmd, ~o.error, c.asked, o.eax)
    BY <1>2, <2>2 DEF After, Movers
  <2>4. (~o.error) = TRUE
    BY <1>6, <2>2
  <2> QED
    BY <1>15, <2>2, <2>3, <2>4 DEF Answer
<1>24. n = asked \/ (Direction(c) = "read" /\ off + n >= l)
  BY <1>2, <1>11, <1>12, <1>14, <1>15 DEF RdwrEnd, Over, Blocked, At
<1>25. n <= asked /\ (n > 0 => off + n <= l)
  BY <1>7, <1>10, <1>11, <1>12, <1>14, <1>15
<1>26. CASE c.cmd = "read"
  <2>1. "read" \in k.mode
    BY <1>7, <1>20, <1>26 DEF Direction
  <2>2. n = IF l - off < 0 THEN 0 ELSE IF l - off < asked THEN l - off ELSE asked
    BY <1>16, <1>24, <1>25
  <2>3. said' = [by |-> s, cmd |-> "read", ok |-> TRUE, asked |-> asked, n |-> n]
    BY <1>23, <1>26
  <2>4. C!Says(s, "read", TRUE, asked, n)
    BY <2>3 DEF C!Says
  <2>5. n = LET rest == lengths[cursor[s][d].ino] - cursor[s][d].off
            IN  IF rest < 0 THEN 0 ELSE IF rest < asked THEN rest ELSE asked
    BY <1>19, <1>20, <1>22, <2>2
  <2>6. cursor' = [cursor EXCEPT ![s][d].off = @ + n]
    BY <1>19, <1>21
  <2>7. cursor[s][d] # Nobody /\ "read" \in cursor[s][d].mode /\ lengths' = lengths
    BY <1>19, <1>20, <1>22, <2>1
  <2>8. C!Read(s)
    BY <2>4, <2>5, <2>6, <2>7 DEF C!Read, lengths
  <2> QED
    BY <2>8
<1>27. CASE c.cmd = "write"
  <2>1. "write" \in k.mode /\ n = asked
    BY <1>7, <1>20, <1>24, <1>27 DEF Direction
  <2>2. said' = [by |-> s, cmd |-> "write", ok |-> TRUE, asked |-> n, n |-> n]
    BY <1>23, <1>27, <2>1
  <2>3. C!Says(s, "write", TRUE, n, n)
    BY <2>2 DEF C!Says
  <2>4. cursor'[s][d].off = to
    <3>1. cursor'[s][d] = [k EXCEPT !.off = to]
      BY <1>18, <1>19, CursorIs
    <3> QED
      BY <1>18, <1>19, <3>1
  <2>5. (IF n > 0 /\ l < to THEN to ELSE l) = l
    BY <1>13, <1>25
  <2>6. lengths' = [lengths EXCEPT ![k.ino] = IF n > 0 /\ @ < cursor'[s][d].off THEN cursor'[s][d].off ELSE @]
    <3>1. [lengths EXCEPT ![c.ino] = l] = lengths
      BY <1>1, <1>22, LengthsAre
    <3> QED
      BY <1>20, <1>22, <2>4, <2>5, <3>1
  <2>7. C!Write(s)
    BY <1>19, <1>20, <1>21, <2>1, <2>3, <2>6 DEF C!Write, lengths
  <2> QED
    BY <2>7
<1> QED
  BY <1>2, <1>26, <1>27 DEF Movers

LEMMA InitCursors ==
  ASSUME Init
  PROVE  C!Init
<1>1. Types /\ Kept
  BY InitInv, TypesAre DEF Inv, CountsInv
<1>2. \A s \in Session : user[s].ofiles = NoFiles
  BY DEF Init
<1>3. cursor = [s \in Session |-> [d \in Fd |-> Nobody]]
  <2>1. \A s \in Session, d \in Fd : CursorOf(user[s].ofiles, file, d) = Nobody
    BY <1>2 DEF CursorOf, NoFiles
  <2> QED
    BY <2>1, CursorIs
<1>4. lengths \in [Inode \cup {Root} -> 0 .. MaxOff]
  BY <1>1, LengthsAre DEF Files
<1>5. said.cmd = "login"
  BY SilenceIs DEF Init
<1> QED
  BY <1>3, <1>4, <1>5 DEF C!Init, lengths

\* Open1, Close, Rdwr, Seek and the commands built on them implement FileCursors:
\* descriptors are private cursors and answers are true, unless FAlloc gives one File
\* structure to two sessions, Login one session's table to another, or somebody
\* unlocks the inode in the middle of a transfer.
THEOREM ImplementsCursorsHolds == Spec => ImplementsCursors
<1>1. Init => Inv /\ Untorn /\ C!Init
  BY InitInv, InitUntorn, InitCursors
<1>2. Inv /\ Untorn /\ [Next]_vars => Inv' /\ Untorn'
  BY NextInv, NextUntorn
<1>3. Inv /\ Untorn /\ [Next]_vars =>
        [Shared \/ Shared' \/ Inherits \/ Disturbed \/ C!Next]_(C!cursorVars)
  <2>1. SUFFICES ASSUME Inv, Untorn, [Next]_vars, ~Shared, ~Shared', ~Inherits, ~Disturbed
                 PROVE  C!Next \/ UNCHANGED C!cursorVars
    OBVIOUS
  <2>2. Stays => UNCHANGED C!cursorVars
    BY DEF Stays, C!cursorVars, lengths
  <2>3. CASE UNCHANGED vars
    BY <2>2, <2>3, StuttersStay
  <2>4. ASSUME NEW i, Stray(i) PROVE UNCHANGED C!cursorVars
    BY <2>2, <2>4, StrayStays
  <2>5. ASSUME NEW s \in Session, Step(s) \/ Begin(s)
        PROVE  C!Next \/ UNCHANGED C!cursorVars
    <3>1. Right(s) \/ C!Read(s) \/ C!Write(s)
      <4>1. CASE Step(s)
        BY <2>1, <4>1, StepActs, TransferIsTrue
      <4>2. CASE Begin(s)
        BY <2>1, <4>2, BeginActs
      <4> QED
        BY <2>5, <4>1, <4>2
    <3>2. CASE C!Begins
      BY <3>2 DEF C!Next
    <3>3. CASE Acts(s) \/ C!Read(s) \/ C!Write(s)
      BY <3>3 DEF Acts, C!Next
    <3> QED
      BY <2>2, <3>1, <3>2, <3>3 DEF Right
  <2> QED
    BY <2>1, <2>3, <2>4, <2>5 DEF Next
<1> QED
  BY <1>1, <1>2, <1>3, PTL DEF Spec, ImplementsCursors

=============================================================================
