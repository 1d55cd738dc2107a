----------------------------- MODULE FileDataProofs -----------------------------
(***************************************************************************)
(* Proofs about FileData, for any finite number of files and blocks, any   *)
(* size of a block and any number of direct entries.                       *)
(***************************************************************************)
EXTENDS FileData, SequenceTheorems, FiniteSetTheorems, WellFoundedInduction, TLAPS

-----------------------------------------------------------------------------
(***************************************************************************)
(* Induction over numbers: what is to be shown of every number is given as *)
(* the set of the numbers it holds for, not as a predicate.                *)
(***************************************************************************)
LEMMA InductionTo ==
  ASSUME NEW n \in Nat, NEW S, 0 \in S, \A k \in 0 .. n - 1 : k \in S => k + 1 \in S
  PROVE  \A k \in 0 .. n : k \in S
<1> DEFINE Bad == {k \in 0 .. n : k \notin S}
<1> SUFFICES ASSUME Bad # {} PROVE FALSE
  OBVIOUS
<1>1. PICK m \in Bad : \A k \in Bad : ~ (<<k, m>> \in OpToRel(<, Nat))
  <2>1. Bad \in SUBSET Nat
    OBVIOUS
  <2> HIDE DEF Bad
  <2> QED
    BY <2>1, NatLessThanWellFounded, WFMin, Zenon
<1>2. m \in 1 .. n /\ m \notin S
  <2>1. m \in 0 .. n /\ m \notin S
    OBVIOUS
  <2> QED
    BY <2>1
<1>3. m - 1 \in 0 .. n - 1 /\ m - 1 \notin Bad
  <2>1. <<m - 1, m>> \in {p \in Nat \X Nat : p[1] < p[2]}
    BY <1>2
  <2>2. <<m - 1, m>> \in OpToRel(<, Nat)
    BY <2>1, Zenon DEF OpToRel
  <2>3. m - 1 \notin Bad
    BY <1>1, <2>2
  <2> QED
    BY <1>2, <2>3
<1>4. m - 1 \in S /\ (m - 1) + 1 = m
  BY <1>2, <1>3
<1> QED
  BY <1>2, <1>3, <1>4

-----------------------------------------------------------------------------
(***************************************************************************)
(* Sequences that list a set: each member is there, and once.              *)
(***************************************************************************)
Lists(s, S) == s \in Seq(S) /\ IsInjective(s) /\ ToSet(s) = S

LEMMA DescendingLists ==
  ASSUME NEW S \in SUBSET Nat, IsFiniteSet(S)
  PROVE  Lists(Descending(S), S)
<1> DEFINE n == Cardinality(S)
           Above(x) == {y \in S : y >= x}
           rank == [x \in S |-> Cardinality(Above(x))]
           d == Descending(S)
<1>1. n \in Nat
  BY FS_CardinalityType
<1>2. \A x \in S : /\ Above(x) \in SUBSET S /\ IsFiniteSet(Above(x))
                   /\ Cardinality(Above(x)) \in 1 .. n
  <2> TAKE x \in S
  <2>1. Above(x) \in SUBSET S /\ x \in Above(x)
    OBVIOUS
  <2> HIDE DEF Above
  <2>2. IsFiniteSet(Above(x)) /\ Cardinality(Above(x)) <= n
    BY <2>1, FS_Subset
  <2>3. Cardinality(Above(x)) \in Nat /\ Cardinality(Above(x)) # 0
    BY <2>1, <2>2, FS_CardinalityType, FS_EmptySet
  <2> QED
    BY <1>1, <2>1, <2>2, <2>3
<1>3. rank \in [S -> 1 .. n]
  BY <1>2
<1>4. \A x, z \in S : x < z => rank[x] # rank[z]
  <2> SUFFICES ASSUME NEW x \in S, NEW z \in S, x < z PROVE rank[x] # rank[z]
    OBVIOUS
  <2>1. Above(z) \in SUBSET Above(x) /\ x \in Above(x) /\ x \notin Above(z)
    <3>1. x \in Nat /\ z \in Nat /\ \A y \in S : y \in Nat
      OBVIOUS
    <3>2. \A y \in S : y >= z => y >= x
      BY <3>1
    <3>3. Above(z) \in SUBSET Above(x)
      BY <3>2
    <3> QED
      BY <3>1, <3>3
  <2>2. IsFiniteSet(Above(x))
    BY <1>2
  <2> HIDE DEF Above
  <2> QED
    BY <2>1, <2>2, FS_Subset
<1>5. \A x, z \in S : rank[x] = rank[z] => x = z
  <2> HIDE DEF rank
  <2> QED
    BY <1>4
<1>6. \A i \in 1 .. n : \E x \in S : rank[x] = i
  <2>1. IsFiniteSet(1 .. n) /\ Cardinality(1 .. n) = n
    BY <1>1, FS_Interval
  <2>2. rank \in Injection(S, 1 .. n)
    <3> HIDE DEF rank
    <3> QED
      BY <1>3, <1>5 DEF Injection, IsInjective
  <2>3. rank \in Surjection(S, 1 .. n)
    <3> HIDE DEF rank
    <3> QED
      BY <2>1, <2>2, FS_Injection
  <2> QED
    BY <2>3 DEF Surjection
<1>7. d = [i \in 1 .. n |-> CHOOSE x \in S : Cardinality({y \in S : y >= x}) = i]
  BY DEF Descending
<1>8. \A i \in 1 .. n : d[i] \in S /\ rank[d[i]] = i
  <2> TAKE i \in 1 .. n
  <2>1. \E x \in S : Cardinality({y \in S : y >= x}) = i
    BY <1>6
  <2>2. d[i] = CHOOSE x \in S : Cardinality({y \in S : y >= x}) = i
    BY <1>7
  <2> HIDE DEF d
  <2>3. d[i] \in S /\ Cardinality({y \in S : y >= d[i]}) = i
    BY <2>1, <2>2
  <2> QED
    BY <2>3
<1> HIDE DEF rank, d, n
<1>9. DOMAIN d = 1 .. n /\ d \in Seq(S) /\ Len(d) = n
  <2>1. d \in [1 .. n -> S]
    BY <1>7, <1>8
  <2> QED
    BY <1>1, <2>1
<1>10. IsInjective(d)
  BY <1>8, <1>9 DEF IsInjective
<1>11. \A x \in S : x = d[rank[x]] /\ rank[x] \in 1 .. n
  BY <1>3, <1>5, <1>8
<1>12. ToSet(d) = S
  BY <1>8, <1>9, <1>11 DEF ToSet
<1> QED
  BY <1>9, <1>10, <1>12 DEF Lists, d

LEMMA SetListed ==
  ASSUME NEW S, IsFiniteSet(S)
  PROVE  Lists(SetToSeq(S), S) /\ Len(SetToSeq(S)) = Cardinality(S)
<1> DEFINE n == Cardinality(S)
           s == SetToSeq(S)
<1>1. n \in Nat /\ ExistsBijection(1 .. n, S)
  BY FS_CardinalityType
<1>2. \E f \in [1 .. n -> S] : IsInjective(f)
  BY <1>1 DEF ExistsBijection, Bijection, Injection
<1>3. s \in [1 .. n -> S] /\ IsInjective(s)
  BY <1>2 DEF SetToSeq
<1> HIDE DEF n, s
<1>4. s \in Surjection(1 .. n, S)
  <2>1. s \in Injection(1 .. n, S)
    BY <1>3 DEF Injection
  <2>2. Cardinality(1 .. n) = n
    BY <1>1, FS_Interval
  <2> QED
    BY <2>1, <2>2, FS_Injection DEF n
<1>5. s \in Seq(S) /\ Len(s) = n /\ DOMAIN s = 1 .. n
  BY <1>1, <1>3
<1>6. ToSet(s) = S
  BY <1>4, <1>5 DEF Surjection, ToSet
<1> QED
  BY <1>3, <1>5, <1>6 DEF Lists, n, s

LEMMA ListIs ==
  ASSUME NEW S, NEW s, Lists(s, S)
  PROVE  /\ s \in Seq(S) /\ DOMAIN s = 1 .. Len(s) /\ Len(s) \in Nat
         /\ \A i \in 1 .. Len(s) : s[i] \in S
         /\ \A i, j \in 1 .. Len(s) : s[i] = s[j] => i = j
         /\ \A x \in S : \E i \in 1 .. Len(s) : s[i] = x
<1>1. s \in Seq(S) /\ DOMAIN s = 1 .. Len(s) /\ Len(s) \in Nat
  BY DEF Lists
<1> QED
  BY <1>1 DEF Lists, IsInjective, ToSet

LEMMA IsList ==
  ASSUME NEW S, NEW s \in Seq(S),
         \A i, j \in 1 .. Len(s) : s[i] = s[j] => i = j,
         \A x \in S : \E i \in 1 .. Len(s) : s[i] = x
  PROVE  Lists(s, S)
<1>1. DOMAIN s = 1 .. Len(s) /\ \A i \in 1 .. Len(s) : s[i] \in S
  OBVIOUS
<1> QED
  BY <1>1 DEF Lists, IsInjective, ToSet

LEMMA EmptyLists == Lists(<< >>, {})
BY DEF Lists, IsInjective, ToSet

LEMMA JoinLists ==
  ASSUME NEW S, NEW T, S \cap T = {}, NEW s, NEW t, Lists(s, S), Lists(t, T)
  PROVE  Lists(s \o t, S \cup T)
<1> DEFINE u == s \o t
<1>1. s \in Seq(S) /\ t \in Seq(T) /\ s \in Seq(S \cup T) /\ t \in Seq(S \cup T)
  <2>1. s \in Seq(S) /\ t \in Seq(T)
    BY DEF Lists
  <2> QED
    BY <2>1
<1>2. /\ u \in Seq(S \cup T) /\ Len(u) = Len(s) + Len(t)
      /\ \A i \in 1 .. Len(u) : u[i] = IF i <= Len(s) THEN s[i] ELSE t[i - Len(s)]
  BY <1>1
<1>3. Len(s) \in Nat /\ Len(t) \in Nat
  BY <1>1
<1>4. /\ \A i \in 1 .. Len(s) : u[i] = s[i] /\ s[i] \in S
      /\ \A i \in 1 .. Len(t) : u[Len(s) + i] = t[i] /\ t[i] \in T
  BY <1>1, <1>2, <1>3
<1> HIDE DEF u
<1>5. \A i \in 1 .. Len(u) :
        i \in 1 .. Len(s) \/ \E j \in 1 .. Len(t) : i = Len(s) + j
  <2> TAKE i \in 1 .. Len(u)
  <2>1. i > Len(s) => i - Len(s) \in 1 .. Len(t) /\ i = Len(s) + (i - Len(s))
    BY <1>2, <1>3
  <2> QED
    BY <1>2, <1>3, <2>1
<1>6. \A i, j \in 1 .. Len(u) : u[i] = u[j] => i = j
  <2>1. \A i, j \in 1 .. Len(s) : s[i] = s[j] => i = j
    BY ListIs
  <2>2. \A i, j \in 1 .. Len(t) : t[i] = t[j] => i = j
    BY ListIs
  <2> TAKE i, j \in 1 .. Len(u)
  <2> HAVE u[i] = u[j]
  <2>3. CASE i \in 1 .. Len(s) /\ j \in 1 .. Len(s)
    BY <1>4, <2>1, <2>3
  <2>4. ASSUME NEW k \in 1 .. Len(t), i = Len(s) + k, j \in 1 .. Len(s) PROVE FALSE
    BY <1>4, <2>4
  <2>5. ASSUME NEW k \in 1 .. Len(t), j = Len(s) + k, i \in 1 .. Len(s) PROVE FALSE
    BY <1>4, <2>5
  <2>6. ASSUME NEW k \in 1 .. Len(t), NEW l \in 1 .. Len(t), i = Len(s) + k, j = Len(s) + l
        PROVE  i = j
    BY <1>4, <2>2, <2>6
  <2> QED
    BY <1>5, <2>3, <2>4, <2>5, <2>6
<1>7. \A x \in S \cup T : \E i \in 1 .. Len(u) : u[i] = x
  <2>1. \A i \in 1 .. Len(s) : i \in 1 .. Len(u)
    BY <1>2, <1>3
  <2>2. \A i \in 1 .. Len(t) : Len(s) + i \in 1 .. Len(u)
    BY <1>2, <1>3
  <2>3. ASSUME NEW x \in S PROVE \E i \in 1 .. Len(u) : u[i] = x
    <3>1. PICK i \in 1 .. Len(s) : s[i] = x
      BY ListIs
    <3> QED
      BY <1>4, <2>1, <3>1
  <2>4. ASSUME NEW x \in T PROVE \E i \in 1 .. Len(u) : u[i] = x
    <3>1. PICK i \in 1 .. Len(t) : t[i] = x
      BY ListIs
    <3> QED
      BY <1>4, <2>2, <3>1
  <2> QED
    BY <2>3, <2>4
<1>8. Lists(u, S \cup T)
  BY <1>2, <1>6, <1>7, IsList
<1> QED
  BY <1>8 DEF u

LEMMA AppendLists ==
  ASSUME NEW S, NEW x, x \notin S, NEW s, Lists(s, S)
  PROVE  Lists(Append(s, x), S \cup {x})
<1>1. Lists(<<x>>, {x})
  <2> DEFINE o == <<x>>
  <2>1. o \in Seq({x}) /\ Len(o) = 1 /\ o[1] = x
    OBVIOUS
  <2> HIDE DEF o
  <2>2. Lists(o, {x})
    BY <2>1, IsList
  <2> QED
    BY <2>2 DEF o
<1>2. Append(s, x) = s \o <<x>>
  BY DEF Lists
<1> QED
  BY <1>1, <1>2, JoinLists

\* A list of a set and a function that tells its members apart give a list of what
\* the function has of them.
LEMMA MappedLists ==
  ASSUME NEW S, NEW s, Lists(s, S), NEW c,
         \A x, y \in S : c[x] = c[y] => x = y
  PROVE  Lists([i \in 1 .. Len(s) |-> c[s[i]]], {c[x] : x \in S})
<1> DEFINE T == {c[x] : x \in S}
           t == [i \in 1 .. Len(s) |-> c[s[i]]]
<1>1. Len(s) \in Nat /\ \A i \in 1 .. Len(s) : s[i] \in S /\ c[s[i]] \in T
  BY ListIs
<1>2. t \in Seq(T) /\ Len(t) = Len(s)
  <2>1. t \in [1 .. Len(s) -> T]
    BY <1>1
  <2> QED
    BY <1>1, <2>1
<1>3. \A i, j \in 1 .. Len(t) : t[i] = t[j] => i = j
  <2>1. \A i, j \in 1 .. Len(s) : s[i] = s[j] => i = j
    BY ListIs
  <2> QED
    BY <1>1, <1>2, <2>1
<1>4. \A x \in T : \E i \in 1 .. Len(t) : t[i] = x
  BY <1>1, <1>2, ListIs
<1> HIDE DEF T, t
<1>5. Lists(t, T)
  BY <1>2, <1>3, <1>4, IsList
<1> QED
  BY <1>5 DEF t, T

\* Sequences that each list one of some sets, no two of which meet, one after the other.
LEMMA FlattenLists ==
  ASSUME NEW n \in Nat, NEW P, NEW s, s = [i \in 1 .. n |-> s[i]],
         \A i \in 1 .. n : Lists(s[i], P[i]),
         \A i, j \in 1 .. n : i # j => P[i] \cap P[j] = {}
  PROVE  Lists(FlattenSeq(s), UNION {P[i] : i \in 1 .. n})
<1> DEFINE Upto(m) == UNION {P[i] : i \in 1 .. m}
<1>0. Len(s) = n
  OBVIOUS
<1>1. CASE n = 0
  <2>1. s = << >> /\ UNION {P[i] : i \in 1 .. n} = {}
    BY <1>1
  <2>2. FlattenSeq(s) = s
    BY <1>0, <1>1 DEF FlattenSeq
  <2> QED
    BY <2>1, <2>2, EmptyLists
<1>2. CASE n # 0
  <2> DEFINE Joins(h, m) == h = [i \in 1 .. m |-> IF i = 1 THEN s[i] ELSE h[i - 1] \o s[i]]
             Reached == {m \in 0 .. n : m = 0 \/ \E h : Joins(h, m)}
             f == CHOOSE f : f = [i \in 1 .. n |-> IF i = 1 THEN s[i] ELSE f[i - 1] \o s[i]]
             Good == {m \in 0 .. n : m = 0 \/ Lists(f[m], Upto(m))}
  <2>1. 0 \in Reached
    OBVIOUS
  <2>2. ASSUME NEW m \in 0 .. n - 1, m \in Reached PROVE m + 1 \in Reached
    <3>1. CASE m = 0
      <4> DEFINE h == [i \in 1 .. 1 |-> s[1]]
      <4>1. \A i \in 1 .. 1 : h[i] = IF i = 1 THEN s[i] ELSE h[i - 1] \o s[i]
        OBVIOUS
      <4>2. h = [i \in 1 .. 1 |-> h[i]]
        OBVIOUS
      <4>3. Joins(h, 1)
        <5> HIDE DEF h
        <5> QED
          BY <4>1, <4>2
      <4> HIDE DEF Joins, h
      <4> QED
        BY <2>2, <3>1, <4>3
    <3>2. CASE m # 0
      <4>1. PICK h : Joins(h, m)
        BY <2>2, <3>2
      <4> DEFINE g == [i \in 1 .. m + 1 |-> IF i = m + 1 THEN h[m] \o s[m + 1] ELSE h[i]]
      <4>2. m \in 1 .. m /\ m + 1 \in 1 .. n /\ m \in Nat
        BY <3>2
      <4>3. \A i \in 1 .. m : g[i] = h[i]
        BY <4>2
      <4>4. \A i \in 1 .. m + 1 : g[i] = IF i = 1 THEN s[i] ELSE g[i - 1] \o s[i]
        <5> TAKE i \in 1 .. m + 1
        <5>1. CASE i = m + 1
          <6>1. i # 1 /\ i - 1 = m
            BY <4>2, <5>1
          <6> QED
            BY <4>2, <4>3, <5>1, <6>1
        <5>2. CASE i # m + 1
          <6>1. i \in 1 .. m /\ (i # 1 => i - 1 \in 1 .. m)
            BY <4>2, <5>2
          <6>2. h[i] = IF i = 1 THEN s[i] ELSE h[i - 1] \o s[i]
            BY <4>1, <6>1
          <6> HIDE DEF g
          <6> QED
            BY <4>3, <6>1, <6>2
        <5> QED
          BY <5>1, <5>2
      <4>5. g = [i \in 1 .. m + 1 |-> g[i]]
        OBVIOUS
      <4>6. Joins(g, m + 1)
        <5> HIDE DEF g
        <5> QED
          BY <4>4, <4>5
      <4> HIDE DEF Joins, g
      <4> QED
        BY <4>2, <4>6
    <3> QED
      BY <3>1, <3>2
  <2>3. n \in Reached
    <3> HIDE DEF Reached
    <3> QED
      BY <2>1, <2>2, InductionTo
  <2>4. \E h : Joins(h, n)
    BY <1>2, <2>3
  <2>5. f = [i \in 1 .. n |-> IF i = 1 THEN s[i] ELSE f[i - 1] \o s[i]]
    BY <2>4
  <2>6. FlattenSeq(s) = f[n]
    BY <1>0, <1>2 DEF FlattenSeq
  <2> HIDE DEF f
  <2>7. 0 \in Good
    OBVIOUS
  <2>8. ASSUME NEW m \in 0 .. n - 1, m \in Good PROVE m + 1 \in Good
    <3>1. CASE m = 0
      <4>1. Upto(1) = P[1] /\ f[1] = s[1] /\ 1 \in 1 .. n
        BY <1>2, <2>5
      <4> HIDE DEF Upto
      <4> QED
        BY <3>1, <4>1
    <3>2. CASE m # 0
      <4>1. m + 1 \in 1 .. n /\ m + 1 # 1 /\ (m + 1) - 1 = m /\ m \in 1 .. n
        BY <3>2
      <4>2. f[m + 1] = f[m] \o s[m + 1]
        BY <2>5, <4>1
      <4>3. Upto(m + 1) = Upto(m) \cup P[m + 1]
        BY <4>1
      <4>4. \A i \in 1 .. m : P[i] \cap P[m + 1] = {}
        BY <4>1
      <4>5. Upto(m) \cap P[m + 1] = {}
        BY <4>4
      <4> HIDE DEF Upto
      <4>6. Lists(f[m + 1], Upto(m + 1))
        BY <2>8, <3>2, <4>1, <4>2, <4>3, <4>5, JoinLists
      <4> QED
        BY <4>1, <4>6
    <3> QED
      BY <3>1, <3>2
  <2>9. n \in Good
    <3> HIDE DEF Good
    <3> QED
      BY <2>7, <2>8, InductionTo
  <2> QED
    BY <1>2, <2>6, <2>9
<1> QED
  BY <1>1, <1>2

LEMMA FrontLists ==
  ASSUME NEW S, NEW s, Lists(s, S), s # << >>
  PROVE  /\ Last(s) \in S /\ Lists(Front(s), S \ {Last(s)})
         /\ Len(s) \in Nat \ {0} /\ Front(s) \in Seq(S)
<1>1. s \in Seq(S) /\ Len(s) \in Nat \ {0}
  BY DEF Lists
<1>2. Last(s) = s[Len(s)] /\ Len(s) \in 1 .. Len(s)
  BY <1>1 DEF Last
<1>3. /\ Front(s) \in Seq(S) /\ Len(Front(s)) = Len(s) - 1
      /\ \A i \in 1 .. Len(s) - 1 : Front(s)[i] = s[i]
  <2> DEFINE n == Len(s) - 1
  <2>1. n \in Nat /\ 1 \in Int /\ n \in Int /\ \A i \in 1 .. n : s[i] \in S
    BY <1>1
  <2> HIDE DEF n
  <2>2. /\ SubSeq(s, 1, n) \in Seq(S)
        /\ Len(SubSeq(s, 1, n)) = IF 1 <= n THEN n - 1 + 1 ELSE 0
        /\ \A i \in 1 .. n - 1 + 1 : SubSeq(s, 1, n)[i] = s[1 + i - 1]
    BY <2>1, SubSeqProperties
  <2>3. Len(SubSeq(s, 1, n)) = n /\ \A i \in 1 .. n : SubSeq(s, 1, n)[i] = s[i]
    BY <2>1, <2>2
  <2>4. Front(s) = SubSeq(s, 1, n)
    BY DEF Front, n
  <2> QED
    BY <2>2, <2>3, <2>4 DEF n
<1>4. \A i, j \in 1 .. Len(s) : s[i] = s[j] => i = j
  BY ListIs
<1>5. \A i \in 1 .. Len(Front(s)) : /\ i \in 1 .. Len(s) /\ i # Len(s)
                                    /\ Front(s)[i] = s[i] /\ s[i] \in S /\ s[i] # Last(s)
  <2>1. \A i \in 1 .. Len(Front(s)) : i \in 1 .. Len(s) /\ i # Len(s)
    BY <1>1, <1>3
  <2> QED
    BY <1>1, <1>2, <1>3, <1>4, <2>1
<1>6. Front(s) \in Seq(S \ {Last(s)})
  <2>1. Front(s) \in [1 .. Len(Front(s)) -> S \ {Last(s)}]
    BY <1>3, <1>5
  <2>2. Len(Front(s)) \in Nat
    BY <1>1, <1>3
  <2> QED
    BY <2>1, <2>2
<1>7. \A x \in S \ {Last(s)} : \E i \in 1 .. Len(Front(s)) : Front(s)[i] = x
  <2> TAKE x \in S \ {Last(s)}
  <2>1. PICK i \in 1 .. Len(s) : s[i] = x
    BY ListIs
  <2>2. i # Len(s)
    BY <1>2, <2>1
  <2>3. i \in 1 .. Len(Front(s))
    BY <1>1, <1>3, <2>2
  <2> QED
    BY <1>5, <2>1, <2>3
<1>8. Lists(Front(s), S \ {Last(s)})
  <2>1. \A i, j \in 1 .. Len(Front(s)) : Front(s)[i] = Front(s)[j] => i = j
    BY <1>4, <1>5
  <2> QED
    BY <1>6, <1>7, <2>1, IsList
<1> QED
  BY <1>1, <1>2, <1>3, <1>8, ListIs

-----------------------------------------------------------------------------
(***************************************************************************)
(* The places a block can have in a file: an entry of i_addr, an entry of  *)
(* the table that entry names, or an entry of a table that one names.      *)
(***************************************************************************)
None == -1

Way == {None} \cup Index

Place ==
  {p \in File \X AddrIndex \X Way \X Way :
     /\ p[3] # None => p[2] >= SMALL
     /\ p[4] # None => p[2] >= SMALL + 2 /\ p[3] # None}

\* The place of the table that has a place, and the entry there.
Up(p) == IF p[4] # None THEN <<p[1], p[2], p[3], None>> ELSE <<p[1], p[2], None, None>>

Slot(p) == IF p[4] # None THEN p[4] ELSE p[3]

\* The places of data.
Leaf(p) ==
  IF p[2] < SMALL THEN TRUE ELSE IF p[2] < SMALL + 2 THEN p[3] # None ELSE p[4] # None

\* What is at a place, by the entries of the files and what the blocks show.
Addrs == [File -> [AddrIndex -> {0} \cup Block]]

Shows == {v \in [{0} \cup Block -> Contents] : v[0] = Cleared}

At(a, v, p) ==
  IF p[3] = None THEN a[p[1]][p[2]]
  ELSE IF p[4] = None THEN v[a[p[1]][p[2]]][p[3]]
  ELSE v[v[a[p[1]][p[2]]][p[3]]][p[4]]

Tree(a, v) == [p \in Place |-> At(a, v, p)]

Trees == [Place -> {0} \cup Block]

\* No block is at two places, and the free ones are those that are at none.
Unplaced(t) == {b \in Block : \A p \in Place : t[p] # b}

Sound(t, fr) ==
  /\ t \in Trees
  /\ \A p, q \in Place : t[p] = t[q] /\ t[p] # 0 => p = q
  /\ Lists(fr, Unplaced(t))

LEMMA Consts ==
  /\ IsFiniteSet(File) /\ File # {} /\ IsFiniteSet(Block) /\ Block \subseteq Nat \ {0}
  /\ PerBlock \in Nat \ {0} /\ SMALL \in Nat
  /\ 0 \in Index /\ Index \subseteq Nat /\ None \notin Index
  /\ AddrIndex \subseteq Nat /\ Cleared \in Contents
  /\ Datum \subseteq Block
BY FileAssumption DEF Index, None, AddrIndex, Cleared, Contents

LEMMA PlaceIs ==
  ASSUME NEW p \in Place
  PROVE  /\ p = <<p[1], p[2], p[3], p[4]>>
         /\ p[1] \in File /\ p[2] \in AddrIndex /\ p[3] \in Way /\ p[4] \in Way
         /\ p[3] # None => p[2] >= SMALL
         /\ p[4] # None => p[2] >= SMALL + 2 /\ p[3] # None
BY DEF Place

LEMMA IsPlace ==
  ASSUME NEW f \in File, NEW i \in AddrIndex, NEW j \in Way, NEW k \in Way,
         j # None => i >= SMALL, k # None => i >= SMALL + 2 /\ j # None
  PROVE  <<f, i, j, k>> \in Place
BY DEF Place

LEMMA PlaceAt ==
  ASSUME NEW a \in Addrs, NEW v \in Shows, NEW p \in Place
  PROVE  At(a, v, p) \in {0} \cup Block
<1>1. /\ p[1] \in File /\ p[2] \in AddrIndex /\ p[3] \in Way /\ p[4] \in Way
      /\ p[4] # None => p[3] # None
  BY PlaceIs
<1>2. a[p[1]][p[2]] \in {0} \cup Block
  BY <1>1 DEF Addrs
<1>3. \A b \in {0} \cup Block, i \in Index : v[b][i] \in {0} \cup Block
  BY DEF Shows, Contents
<1> QED
  BY <1>1, <1>2, <1>3 DEF At, Way

LEMMA UpIs ==
  ASSUME NEW p \in Place, p[3] # None
  PROVE  /\ Up(p) \in Place /\ ~ Leaf(Up(p)) /\ Slot(p) \in Index
         /\ Up(p)[1] = p[1] /\ Up(p)[2] = p[2] /\ Up(p)[4] = None
         /\ p[4] = None => Up(p)[3] = None
         /\ p[4] # None => Up(p)[3] = p[3]
<1>1. /\ p = <<p[1], p[2], p[3], p[4]>>
      /\ p[1] \in File /\ p[2] \in AddrIndex /\ p[3] \in Way /\ p[4] \in Way
      /\ p[2] >= SMALL
      /\ p[4] # None => p[2] >= SMALL + 2
  BY PlaceIs
<1>2. p[2] \in Nat /\ SMALL \in Nat
  BY <1>1, Consts
<1>3. None \in Way
  BY DEF Way
<1>4. CASE p[4] = None
  <2>1. Up(p) = <<p[1], p[2], None, None>> /\ Slot(p) = p[3]
    BY <1>4 DEF Up, Slot
  <2>2. Up(p) \in Place
    BY <1>1, <1>3, <2>1, IsPlace
  <2>3. ~ Leaf(Up(p))
    BY <1>1, <1>2, <2>1 DEF Leaf
  <2> QED
    BY <1>1, <1>4, <2>1, <2>2, <2>3 DEF Way, At
<1>5. CASE p[4] # None
  <2>1. Up(p) = <<p[1], p[2], p[3], None>> /\ Slot(p) = p[4]
    BY <1>5 DEF Up, Slot
  <2>2. Up(p) \in Place
    BY <1>1, <1>3, <2>1, IsPlace
  <2>3. ~ Leaf(Up(p))
    BY <1>1, <1>2, <1>5, <2>1 DEF Leaf
  <2> QED
    BY <1>1, <1>5, <2>1, <2>2, <2>3 DEF Way, At
<1> QED
  BY <1>4, <1>5

LEMMA SameUp ==
  ASSUME NEW p \in Place, NEW q \in Place, p[3] # None, q[3] # None,
         Up(p) = Up(q), Slot(p) = Slot(q)
  PROVE  p = q
<1>1. p = <<p[1], p[2], p[3], p[4]>> /\ q = <<q[1], q[2], q[3], q[4]>>
  BY PlaceIs
<1>2. /\ Up(p)[1] = p[1] /\ Up(p)[2] = p[2]
      /\ p[4] = None => Up(p)[3] = None
      /\ p[4] # None => Up(p)[3] = p[3]
  BY UpIs
<1>3. /\ Up(q)[1] = q[1] /\ Up(q)[2] = q[2]
      /\ q[4] = None => Up(q)[3] = None
      /\ q[4] # None => Up(q)[3] = q[3]
  BY UpIs
<1>4. p[4] = q[4] /\ p[3] = q[3]
  BY <1>2, <1>3 DEF Slot
<1> QED
  BY <1>1, <1>2, <1>3, <1>4

-----------------------------------------------------------------------------
(***************************************************************************)
(* What giving out a block, writing one and taking the blocks of a file    *)
(* back do to the tree of the files.                                       *)
(***************************************************************************)
LEMMA GivenOut ==
  ASSUME NEW t, NEW fr, Sound(t, fr), fr # << >>, NEW p \in Place, t[p] = 0
  PROVE  /\ Last(fr) \in Block /\ \A q \in Place : t[q] # Last(fr)
         /\ Front(fr) \in Seq(Block)
         /\ Sound([t EXCEPT ![p] = Last(fr)], Front(fr))
<1> DEFINE A == Last(fr)
           u == [t EXCEPT ![p] = A]
<1>1. /\ A \in Unplaced(t) /\ Lists(Front(fr), Unplaced(t) \ {A})
      /\ Front(fr) \in Seq(Unplaced(t))
  BY FrontLists DEF Sound
<1> HIDE DEF A
<1>2. A \in Block /\ A # 0 /\ \A q \in Place : t[q] # A
  BY <1>1, Consts DEF Unplaced
<1>3. u \in Trees /\ u[p] = A /\ \A q \in Place : q # p => u[q] = t[q]
  BY <1>2 DEF Sound, Trees
<1>4. \A q, r \in Place : u[q] = u[r] /\ u[q] # 0 => q = r
  BY <1>2, <1>3 DEF Sound
<1>5. Unplaced(u) = Unplaced(t) \ {A}
  <2>1. \A b \in Block : b # A => ((\A q \in Place : u[q] # b) <=> (\A q \in Place : t[q] # b))
    <3> TAKE b \in Block
    <3>1. b # 0
      BY Consts
    <3> QED
      BY <1>3, <3>1
  <2> QED
    BY <1>3, <2>1 DEF Unplaced
<1>6. Front(fr) \in Seq(Block)
  <2>1. Unplaced(t) \subseteq Block
    BY DEF Unplaced
  <2> QED
    BY <1>1, <2>1
<1>7. Sound(u, Front(fr))
  BY <1>1, <1>3, <1>4, <1>5 DEF Sound
<1> QED
  BY <1>2, <1>6, <1>7 DEF A

\* The blocks of a file.
BlocksOf(t, f) == {t[p] : p \in {q \in Place : q[1] = f}} \ {0}

LEMMA TakenBack ==
  ASSUME NEW t, NEW fr, Sound(t, fr), NEW f \in File, NEW s, Lists(s, BlocksOf(t, f))
  PROVE  Sound([q \in Place |-> IF q[1] = f THEN 0 ELSE t[q]], fr \o s)
<1> DEFINE u == [q \in Place |-> IF q[1] = f THEN 0 ELSE t[q]]
<1>1. u \in Trees
  BY DEF Sound, Trees
<1>2. \A q, r \in Place : u[q] = u[r] /\ u[q] # 0 => q = r
  BY DEF Sound
<1>3. Unplaced(t) \cap BlocksOf(t, f) = {}
  BY DEF Unplaced, BlocksOf
<1>4. Unplaced(u) = Unplaced(t) \cup BlocksOf(t, f)
  <2>1. ASSUME NEW b \in Unplaced(u), b \notin Unplaced(t) PROVE b \in BlocksOf(t, f)
    <3>1. b \in Block /\ b # 0
      BY <2>1, Consts DEF Unplaced
    <3>2. PICK p \in Place : t[p] = b
      BY <2>1, <3>1 DEF Unplaced
    <3>3. u[p] # b
      BY <2>1 DEF Unplaced
    <3>4. p[1] = f
      BY <3>2, <3>3
    <3> QED
      BY <3>1, <3>2, <3>4 DEF BlocksOf
  <2>2. ASSUME NEW b \in Unplaced(t) PROVE b \in Unplaced(u)
    <3>1. b \in Block /\ b # 0
      BY <2>2, Consts DEF Unplaced
    <3> QED
      BY <2>2, <3>1 DEF Unplaced
  <2>3. ASSUME NEW b \in BlocksOf(t, f) PROVE b \in Unplaced(u)
    <3>1. PICK p \in Place : p[1] = f /\ t[p] = b /\ b # 0
      BY <2>3 DEF BlocksOf
    <3>2. b \in Block
      BY <3>1 DEF Sound, Trees
    <3>3. ASSUME NEW q \in Place, u[q] = b PROVE FALSE
      <4>1. t[q] = b /\ q[1] # f
        BY <3>1, <3>3
      <4>2. q = p
        BY <3>1, <4>1 DEF Sound
      <4> QED
        BY <3>1, <4>1, <4>2
    <3> HIDE DEF u
    <3> QED
      BY <3>2, <3>3 DEF Unplaced
  <2> HIDE DEF u
  <2> QED
    BY <2>1, <2>2, <2>3
<1> HIDE DEF u
<1>5. Lists(fr \o s, Unplaced(u))
  <2>1. Lists(fr, Unplaced(t))
    BY DEF Sound
  <2>2. Lists(fr \o s, Unplaced(t) \cup BlocksOf(t, f))
    BY <1>3, <2>1, JoinLists
  <2> QED
    BY <1>4, <2>2
<1> QED
  BY <1>1, <1>2, <1>5 DEF Sound, u

\* A block is entered in i_addr, or in the block t; it is empty.
Entered(a, f, i, A) == [a EXCEPT ![f][i] = A]

Empty(v, A) == [v EXCEPT ![A] = Cleared]

EmptyIn(v, t, j, A) == [v EXCEPT ![t] = [v[t] EXCEPT ![j] = A], ![A] = Cleared]

\* A block is entered in i_addr: it is empty, and nothing else is different.
LEMMA EnteredTop ==
  ASSUME NEW a \in Addrs, NEW v \in Shows, NEW A \in Block,
         \A q \in Place : Tree(a, v)[q] # A,
         NEW f \in File, NEW i \in AddrIndex, a[f][i] = 0,
         NEW b, b = Entered(a, f, i, A), NEW w, w = Empty(v, A)
  PROVE  /\ <<f, i, None, None>> \in Place /\ b \in Addrs /\ w \in Shows
         /\ Tree(b, w) = [Tree(a, v) EXCEPT ![<<f, i, None, None>>] = A]
<1> DEFINE p == <<f, i, None, None>>
<1>1. p \in Place
  BY IsPlace DEF Way
<1>2. A # 0 /\ Cleared \in Contents
  BY Consts
<1>3. b \in Addrs /\ w \in Shows
  BY <1>2 DEF Addrs, Shows, Entered, Empty
<1>4. /\ \A c \in {0} \cup Block : c # A => w[c] = v[c]
      /\ w[A] = Cleared /\ v[0] = Cleared
  BY <1>2 DEF Shows, Empty
<1>5. \A j \in Index : Cleared[j] = 0
  BY DEF Cleared
<1>6. At(b, w, p) = A
  BY DEF At, Addrs, Entered
<1>7. \A q \in Place : At(a, v, q) # A /\ At(a, v, q) \in {0} \cup Block
  BY PlaceAt DEF Tree
<1>8. ASSUME NEW q \in Place, q[3] = None, q # p PROVE At(b, w, q) = At(a, v, q)
  <2>1. /\ q = <<q[1], q[2], q[3], q[4]>> /\ q[1] \in File /\ q[2] \in AddrIndex
        /\ q[4] = None
    BY <1>8, PlaceIs
  <2>2. q[1] # f \/ q[2] # i
    BY <1>8, <2>1
  <2> QED
    BY <1>8, <2>1, <2>2 DEF At, Addrs, Entered
<1>9. ASSUME NEW q \in Place, q[3] # None,
             At(b, w, Up(q)) = At(a, v, Up(q)) \/ (At(b, w, Up(q)) = A /\ At(a, v, Up(q)) = 0)
      PROVE  At(b, w, q) = At(a, v, q)
  <2>1. /\ Up(q) \in Place /\ Slot(q) \in Index
        /\ At(b, w, q) = w[At(b, w, Up(q))][Slot(q)]
        /\ At(a, v, q) = v[At(a, v, Up(q))][Slot(q)]
    <3>1. Up(q) \in Place /\ ~ Leaf(Up(q)) /\ Slot(q) \in Index
      BY <1>9, UpIs
    <3> QED
      BY <1>9, <3>1 DEF At, Up, Slot
  <2>2. At(a, v, Up(q)) # A /\ At(a, v, Up(q)) \in {0} \cup Block
    BY <1>7, <2>1
  <2> QED
    BY <1>4, <1>5, <1>9, <2>1, <2>2
<1>10. At(a, v, p) = 0
  BY DEF At
<1>11. ASSUME NEW q \in Place, q[3] # None, q[4] = None PROVE At(b, w, q) = At(a, v, q)
  <2>1. Up(q) \in Place /\ Up(q)[3] = None
    BY <1>11, UpIs
  <2> HIDE DEF p
  <2> QED
    BY <1>6, <1>8, <1>9, <1>10, <1>11, <2>1
<1>12. ASSUME NEW q \in Place, q[4] # None PROVE At(b, w, q) = At(a, v, q)
  <2>1. q[3] # None
    BY <1>12, PlaceIs
  <2>2. Up(q) \in Place /\ Up(q)[3] # None /\ Up(q)[4] = None
    BY <1>12, <2>1, UpIs
  <2> QED
    BY <1>9, <1>11, <2>1, <2>2
<1>13. \A q \in Place : q # p => At(b, w, q) = At(a, v, q)
  BY <1>8, <1>11, <1>12
<1> HIDE DEF p
<1>14. Tree(b, w) = [Tree(a, v) EXCEPT ![p] = A]
  BY <1>1, <1>6, <1>13 DEF Tree
<1> QED
  BY <1>1, <1>3, <1>14 DEF p

\* A block is entered in an index table: it is empty, and nothing else is different.
LEMMA EnteredBelow ==
  ASSUME NEW a \in Addrs, NEW v \in Shows, NEW A \in Block,
         \A q \in Place : Tree(a, v)[q] # A,
         \A q, r \in Place : Tree(a, v)[q] = Tree(a, v)[r] /\ Tree(a, v)[q] # 0 => q = r,
         NEW p \in Place, p[3] # None, Tree(a, v)[p] = 0,
         NEW t \in Block, Tree(a, v)[Up(p)] = t,
         NEW w, w = EmptyIn(v, t, Slot(p), A)
  PROVE  w \in Shows /\ Tree(a, w) = [Tree(a, v) EXCEPT ![p] = A]
<1>1. /\ Up(p) \in Place /\ ~ Leaf(Up(p)) /\ Slot(p) \in Index
      /\ At(a, v, p) = v[At(a, v, Up(p))][Slot(p)]
      /\ At(a, w, p) = w[At(a, w, Up(p))][Slot(p)]
      /\ p[4] = None => Up(p)[3] = None
      /\ p[4] # None => Up(p)[3] # None
      /\ Up(p)[4] = None
  <2>1. /\ Up(p) \in Place /\ ~ Leaf(Up(p)) /\ Slot(p) \in Index
        /\ p[4] = None => Up(p)[3] = None
        /\ p[4] # None => Up(p)[3] # None
        /\ Up(p)[4] = None
    BY UpIs
  <2>2. At(a, v, p) = v[At(a, v, Up(p))][Slot(p)]
    BY DEF At, Up, Slot
  <2>3. At(a, w, p) = w[At(a, w, Up(p))][Slot(p)]
    BY ONLY p[3] # None DEF At, Up, Slot
  <2> QED
    BY <2>1, <2>2, <2>3
<1>2. A # 0 /\ t # 0 /\ A # t /\ Cleared \in Contents /\ v[t] \in Contents
  BY <1>1, Consts DEF Shows
<1>3. w \in Shows
  BY <1>1, <1>2 DEF Shows, Contents, EmptyIn
<1>4. /\ \A c \in {0} \cup Block : c # A /\ c # t => w[c] = v[c]
      /\ w[A] = Cleared /\ v[0] = Cleared
      /\ \A j \in Index : w[t][j] = IF j = Slot(p) THEN A ELSE v[t][j]
  BY <1>1, <1>2 DEF Shows, Contents, EmptyIn
<1>5. \A j \in Index : Cleared[j] = 0
  BY DEF Cleared
<1>6. \A q \in Place : At(a, v, q) # A /\ At(a, v, q) \in {0} \cup Block
  BY PlaceAt DEF Tree
<1>7. At(a, v, p) = 0 /\ At(a, v, Up(p)) = t
  BY <1>1 DEF Tree
<1>8. \A q, r \in Place : At(a, v, q) = At(a, v, r) /\ At(a, v, q) # 0 => q = r
  BY DEF Tree
<1>9. ASSUME NEW q \in Place, q[3] = None PROVE At(a, w, q) = At(a, v, q)
  BY <1>9 DEF At
<1>10. ASSUME NEW q \in Place, q[3] # None,
              \/ At(a, w, Up(q)) = At(a, v, Up(q))
              \/ At(a, w, Up(q)) = A /\ At(a, v, Up(q)) = 0
       PROVE  At(a, w, q) = IF q = p THEN A ELSE At(a, v, q)
  <2>1. /\ Up(q) \in Place /\ Slot(q) \in Index
        /\ At(a, w, q) = w[At(a, w, Up(q))][Slot(q)]
        /\ At(a, v, q) = v[At(a, v, Up(q))][Slot(q)]
    <3>1. Up(q) \in Place /\ ~ Leaf(Up(q)) /\ Slot(q) \in Index
      BY <1>10, UpIs
    <3> QED
      BY <1>10, <3>1 DEF At, Up, Slot
  <2>2. At(a, v, Up(q)) # A /\ At(a, v, Up(q)) \in {0} \cup Block
    BY <1>6, <2>1
  <2>3. CASE At(a, v, Up(q)) = t
    <3>1. Up(q) = Up(p)
      BY <1>1, <1>2, <1>7, <1>8, <2>1, <2>3
    <3>2. q # p => Slot(q) # Slot(p)
      BY <1>10, <3>1, SameUp
    <3>3. At(a, w, Up(q)) = t
      BY <1>2, <1>10, <2>3
    <3> QED
      BY <1>4, <2>1, <2>3, <3>2, <3>3
  <2>4. CASE At(a, v, Up(q)) # t
    <3>1. q # p
      BY <1>7, <2>4
    <3> QED
      <4>1. CASE At(a, w, Up(q)) = At(a, v, Up(q))
        BY <1>4, <2>1, <2>2, <2>4, <3>1, <4>1
      <4>2. CASE At(a, w, Up(q)) = A /\ At(a, v, Up(q)) = 0
        BY <1>4, <1>5, <2>1, <3>1, <4>2
      <4> QED
        BY <1>10, <4>1, <4>2
  <2> QED
    BY <2>3, <2>4
<1>11. ASSUME NEW q \in Place, q[3] # None, q[4] = None
       PROVE  At(a, w, q) = IF q = p THEN A ELSE At(a, v, q)
  <2>1. Up(q) \in Place /\ Up(q)[3] = None
    BY <1>11, UpIs
  <2> QED
    BY <1>9, <1>10, <1>11, <2>1
<1>12. ASSUME NEW q \in Place, q[4] # None
       PROVE  At(a, w, q) = IF q = p THEN A ELSE At(a, v, q)
  <2>1. q[3] # None
    BY <1>12, PlaceIs
  <2>2. Up(q) \in Place /\ Up(q)[3] # None /\ Up(q)[4] = None
    BY <1>12, <2>1, UpIs
  <2>3. At(a, w, Up(q)) = IF Up(q) = p THEN A ELSE At(a, v, Up(q))
    BY <1>11, <2>2
  <2>4. \/ At(a, w, Up(q)) = At(a, v, Up(q))
        \/ At(a, w, Up(q)) = A /\ At(a, v, Up(q)) = 0
    BY <1>7, <2>3
  <2> QED
    BY <1>10, <2>1, <2>4
<1>13. /\ At(a, w, p) = A
       /\ \A q \in Place : q # p => At(a, w, q) = At(a, v, q)
  BY <1>9, <1>11, <1>12
<1> QED
  BY <1>3, <1>13 DEF Tree

\* Whatever is written to a block of data.
LEMMA WrittenLeaf ==
  ASSUME NEW a \in Addrs, NEW v \in Shows,
         \A q, r \in Place : Tree(a, v)[q] = Tree(a, v)[r] /\ Tree(a, v)[q] # 0 => q = r,
         NEW p \in Place, Leaf(p), NEW t \in Block, Tree(a, v)[p] = t,
         NEW c \in Contents, NEW w, w = [v EXCEPT ![t] = c]
  PROVE  w \in Shows /\ Tree(a, w) = Tree(a, v)
<1>1. t # 0
  BY Consts
<1>2. w \in Shows /\ \A b \in {0} \cup Block : b # t => w[b] = v[b]
  BY <1>1 DEF Shows
<1>3. \A q, r \in Place : At(a, v, q) = At(a, v, r) /\ At(a, v, q) # 0 => q = r
  BY DEF Tree
<1>4. At(a, v, p) = t
  BY DEF Tree
<1>5. ASSUME NEW q \in Place, q[3] = None PROVE At(a, w, q) = At(a, v, q)
  BY <1>5 DEF At
<1>6. ASSUME NEW q \in Place, q[3] # None, At(a, w, Up(q)) = At(a, v, Up(q))
      PROVE  At(a, w, q) = At(a, v, q)
  <2>1. /\ Up(q) \in Place /\ ~ Leaf(Up(q))
        /\ At(a, w, q) = w[At(a, w, Up(q))][Slot(q)]
        /\ At(a, v, q) = v[At(a, v, Up(q))][Slot(q)]
    <3>1. Up(q) \in Place /\ ~ Leaf(Up(q)) /\ Slot(q) \in Index
      BY <1>6, UpIs
    <3> QED
      BY <1>6, <3>1 DEF At, Up, Slot
  <2>2. At(a, v, Up(q)) # t /\ At(a, v, Up(q)) \in {0} \cup Block
    BY <1>1, <1>3, <1>4, <2>1, PlaceAt
  <2> QED
    BY <1>2, <1>6, <2>1, <2>2
<1>7. ASSUME NEW q \in Place, q[3] # None, q[4] = None PROVE At(a, w, q) = At(a, v, q)
  BY <1>5, <1>6, <1>7, UpIs
<1>8. ASSUME NEW q \in Place, q[4] # None PROVE At(a, w, q) = At(a, v, q)
  <2>1. q[3] # None
    BY <1>8, PlaceIs
  <2>2. Up(q) \in Place /\ Up(q)[3] # None /\ Up(q)[4] = None
    BY <1>8, <2>1, UpIs
  <2> QED
    BY <1>6, <1>7, <2>1, <2>2
<1>9. \A q \in Place : At(a, w, q) = At(a, v, q)
  BY <1>5, <1>7, <1>8
<1> QED
  BY <1>2, <1>9 DEF Tree

\* The entries when a file has none.
Without(a, f) == [a EXCEPT ![f] = [i \in AddrIndex |-> 0]]

LEMMA EmptiedAt ==
  ASSUME NEW a \in Addrs, NEW v \in Shows, NEW f \in File,
         NEW b, b = Without(a, f)
  PROVE  \A q \in Place : At(b, v, q) = IF q[1] = f THEN 0 ELSE At(a, v, q)
<1>1. v[0] = Cleared /\ \A j \in Index : Cleared[j] = 0
  BY DEF Shows, Cleared
<1> SUFFICES ASSUME NEW q \in Place
             PROVE  At(b, v, q) = IF q[1] = f THEN 0 ELSE At(a, v, q)
  OBVIOUS
<1>2. /\ q[1] \in File /\ q[2] \in AddrIndex /\ q[3] \in Way /\ q[4] \in Way
      /\ q[4] # None => q[3] # None
  BY PlaceIs
<1>3. b[q[1]][q[2]] = IF q[1] = f THEN 0 ELSE a[q[1]][q[2]]
  BY <1>2 DEF Addrs, Without
<1> QED
  BY <1>1, <1>2, <1>3 DEF At, Way

LEMMA Emptied ==
  ASSUME NEW a \in Addrs, NEW v \in Shows, NEW f \in File,
         NEW b, b = Without(a, f)
  PROVE  /\ b \in Addrs
         /\ Tree(b, v) = [q \in Place |-> IF q[1] = f THEN 0 ELSE Tree(a, v)[q]]
<1>1. b \in Addrs
  BY DEF Addrs, Without
<1>2. \A q \in Place : At(b, v, q) = IF q[1] = f THEN 0 ELSE At(a, v, q)
  BY EmptiedAt
<1> QED
  BY <1>1, <1>2 DEF Tree

-----------------------------------------------------------------------------
(***************************************************************************)
(* The arithmetic of Bmap: which place holds a block of a file, and which  *)
(* block a unit is in.                                                     *)
(***************************************************************************)
LEMMA DivMod ==
  ASSUME NEW n \in Nat, NEW g \in Nat \ {0}
  PROVE  n = g * (n \div g) + (n % g) /\ n \div g \in Nat /\ n % g \in 0 .. g - 1
OBVIOUS

LEMMA DivModUnique ==
  ASSUME NEW q \in Nat, NEW g \in Nat \ {0}, NEW r \in 0 .. g - 1
  PROVE  (g * q + r) \div g = q /\ (g * q + r) % g = r
OBVIOUS

\* Numbers below g times k are in k rows of g.
LEMMA Rows ==
  ASSUME NEW g \in Nat \ {0}, NEW k \in Nat, NEW x \in Nat, x < g * k
  PROVE  x \div g \in 0 .. k - 1 /\ x % g \in 0 .. g - 1
<1> DEFINE q == x \div g
           r == x % g
<1>1. x = g * q + r /\ q \in Nat /\ r \in 0 .. g - 1
  BY DivMod
<1> HIDE DEF q, r
<1>2. g * q < g * k
  BY <1>1
<1>3. q < k
  BY <1>1, <1>2
<1> QED
  BY <1>1, <1>3 DEF q, r

LEMMA Digits ==
  ASSUME NEW P \in Nat \ {0}, NEW x \in Nat, x < P * P * 2
  PROVE  /\ x \div (P * P) \in 0 .. 1 /\ (x \div P) % P \in 0 .. P - 1 /\ x % P \in 0 .. P - 1
         /\ x = P * (P * (x \div (P * P)) + ((x \div P) % P)) + (x % P)
<1> DEFINE y == x \div P
           q == y \div P
           r == y % P
           s == x % P
<1>1. x = P * y + s /\ y \in Nat /\ s \in 0 .. P - 1
  BY DivMod
<1>2. y = P * q + r /\ q \in Nat /\ r \in 0 .. P - 1
  BY <1>1, DivMod
<1> HIDE DEF y, q, r, s
<1>3. P * P \in Nat \ {0} /\ P * r \in Nat /\ P * q \in Nat
  BY <1>2
<1>4. P * r + s \in 0 .. P * P - 1
  <2>1. P * r <= P * (P - 1)
    BY <1>2
  <2>2. P * (P - 1) = P * P - P
    OBVIOUS
  <2> QED
    BY <1>1, <1>3, <2>1, <2>2
<1>5. x = (P * P) * q + (P * r + s)
  <2>1. P * y = P * (P * q) + P * r
    BY <1>2
  <2>2. P * (P * q) = (P * P) * q
    BY <1>2
  <2> QED
    BY <1>1, <1>2, <1>3, <2>1, <2>2
<1>6. x \div (P * P) = q
  <2> DEFINE g == P * P
             z == P * r + s
  <2> HIDE DEF g, z
  <2> QED
    BY <1>2, <1>3, <1>4, <1>5, DivModUnique DEF g, z
<1>7. q \in 0 .. 1
  <2> DEFINE g == P * P
  <2>1. x < g * 2 /\ g \in Nat \ {0}
    BY <1>3
  <2> HIDE DEF g
  <2>2. x \div g \in 0 .. 1
    BY <2>1, Rows
  <2> QED
    BY <1>6, <2>2 DEF g
<1>8. x = P * (P * q + r) + s
  BY <1>1, <1>2
<1>9. q = x \div (P * P) /\ r = (x \div P) % P /\ s = x % P
  BY <1>6 DEF r, y, s
<1> QED
  BY <1>1, <1>2, <1>7, <1>8, <1>9

\* The place of block l of file f.
DataPlace(f, l) ==
  IF l < SMALL THEN <<f, l, None, None>>
  ELSE IF l < LARGE
    THEN <<f, (l - SMALL) \div PerBlock + SMALL, (l - SMALL) % PerBlock, None>>
    ELSE <<f, (l - LARGE) \div (PerBlock * PerBlock) + SMALL + 2,
           ((l - LARGE) \div PerBlock) % PerBlock, (l - LARGE) % PerBlock>>

LEMMA Sizes ==
  /\ PerBlock \in Nat \ {0} /\ SMALL \in Nat /\ LARGE \in Nat /\ HUGE \in Nat
  /\ LARGE = SMALL + PerBlock * 2 /\ HUGE = LARGE + PerBlock * PerBlock * 2
  /\ PerBlock * 2 \in Nat /\ PerBlock * PerBlock \in Nat /\ PerBlock * PerBlock * 2 \in Nat
<1>1. PerBlock \in Nat \ {0} /\ SMALL \in Nat
  BY Consts
<1>2. PerBlock * PerBlock \in Nat
  BY <1>1
<1> QED
  BY <1>1, <1>2 DEF LARGE, HUGE

LEMMA DataPlaceIs ==
  ASSUME NEW f \in File, NEW l \in Nat, l < HUGE
  PROVE  /\ DataPlace(f, l) \in Place /\ Leaf(DataPlace(f, l)) /\ DataPlace(f, l)[1] = f
         /\ l < SMALL <=> DataPlace(f, l)[3] = None
         /\ l < LARGE <=> DataPlace(f, l)[4] = None
<1>0. None \in Way /\ Index \subseteq Way /\ None \notin Index /\ Index = 0 .. PerBlock - 1
  BY Consts DEF Way, Index
<1>1. CASE l < SMALL
  <2>1. l \in AddrIndex
    BY <1>1, Sizes DEF AddrIndex
  <2>2. l < LARGE /\ DataPlace(f, l) = <<f, l, None, None>>
    BY <1>1, Sizes DEF DataPlace
  <2> QED
    BY <1>0, <1>1, <2>1, <2>2, IsPlace DEF Leaf
<1>2. CASE ~ (l < SMALL) /\ l < LARGE
  <2> DEFINE i == (l - SMALL) \div PerBlock
             j == (l - SMALL) % PerBlock
  <2>1. l - SMALL \in Nat /\ l - SMALL < PerBlock * 2
    BY <1>2, Sizes
  <2>2. i \in 0 .. 1 /\ j \in Index
    <3>1. i \in 0 .. 2 - 1 /\ j \in 0 .. PerBlock - 1
      BY <2>1, Rows, Sizes
    <3> HIDE DEF i, j
    <3> QED
      BY <1>0, <3>1
  <2>3. DataPlace(f, l) = <<f, i + SMALL, j, None>>
    BY <1>2 DEF DataPlace
  <2> HIDE DEF i, j
  <2>4. i + SMALL \in AddrIndex /\ i + SMALL >= SMALL /\ ~ (i + SMALL < SMALL) /\ i + SMALL < SMALL + 2
    BY <2>2, Sizes DEF AddrIndex
  <2>5. DataPlace(f, l) \in Place
    BY <1>0, <2>2, <2>3, <2>4, IsPlace
  <2> QED
    BY <1>0, <1>2, <2>2, <2>3, <2>4, <2>5 DEF Leaf
<1>3. CASE ~ (l < LARGE)
  <2> DEFINE i == (l - LARGE) \div (PerBlock * PerBlock)
             j == ((l - LARGE) \div PerBlock) % PerBlock
             k == (l - LARGE) % PerBlock
  <2>1. l - LARGE \in Nat /\ l - LARGE < PerBlock * PerBlock * 2 /\ ~ (l < SMALL)
    BY <1>3, Sizes
  <2>2. i \in 0 .. 1 /\ j \in Index /\ k \in Index
    BY <1>0, <2>1, Digits, Sizes
  <2>3. DataPlace(f, l) = <<f, i + SMALL + 2, j, k>>
    BY <1>3, <2>1 DEF DataPlace
  <2> HIDE DEF i, j, k
  <2>4. /\ i + SMALL + 2 \in AddrIndex /\ i + SMALL + 2 >= SMALL
        /\ i + SMALL + 2 >= SMALL + 2
        /\ ~ (i + SMALL + 2 < SMALL) /\ ~ (i + SMALL + 2 < SMALL + 2)
    BY <2>2, Sizes DEF AddrIndex
  <2>5. DataPlace(f, l) \in Place
    BY <1>0, <2>2, <2>3, <2>4, IsPlace
  <2> QED
    BY <1>0, <1>3, <2>1, <2>2, <2>3, <2>4, <2>5 DEF Leaf
<1> QED
  BY <1>1, <1>2, <1>3, Sizes

LEMMA DataPlaceApart ==
  ASSUME NEW f \in File, NEW g \in File, NEW l \in Nat, l < HUGE, NEW m \in Nat, m < HUGE,
         DataPlace(f, l) = DataPlace(g, m)
  PROVE  f = g /\ l = m
<1>1. /\ f = g
      /\ l < SMALL <=> m < SMALL
      /\ l < LARGE <=> m < LARGE
  <2>1. DataPlace(f, l)[1] = f /\ DataPlace(g, m)[1] = g
    BY DataPlaceIs
  <2>2. /\ l < SMALL <=> DataPlace(f, l)[3] = None
        /\ l < LARGE <=> DataPlace(f, l)[4] = None
    BY DataPlaceIs
  <2>3. /\ m < SMALL <=> DataPlace(g, m)[3] = None
        /\ m < LARGE <=> DataPlace(g, m)[4] = None
    BY DataPlaceIs
  <2> QED
    BY <2>1, <2>2, <2>3
<1>2. CASE l < SMALL
  BY <1>1, <1>2 DEF DataPlace
<1>3. CASE ~ (l < SMALL) /\ l < LARGE
  <2> DEFINE i(x) == (x - SMALL) \div PerBlock
             j(x) == (x - SMALL) % PerBlock
  <2>1. l - SMALL \in Nat /\ m - SMALL \in Nat
    BY <1>1, <1>3, Sizes
  <2>2. i(l) + SMALL = i(m) + SMALL /\ j(l) = j(m)
    BY <1>1, <1>3 DEF DataPlace
  <2>3. /\ l - SMALL = PerBlock * i(l) + j(l) /\ i(l) \in Nat
        /\ m - SMALL = PerBlock * i(m) + j(m) /\ i(m) \in Nat
    BY <2>1, DivMod, Sizes
  <2> HIDE DEF i, j
  <2>4. i(l) = i(m)
    BY <2>2, <2>3, Sizes
  <2> QED
    BY <1>1, <2>2, <2>3, <2>4, Sizes
<1>4. CASE ~ (l < LARGE)
  <2> DEFINE i(x) == (x - LARGE) \div (PerBlock * PerBlock)
             j(x) == ((x - LARGE) \div PerBlock) % PerBlock
             k(x) == (x - LARGE) % PerBlock
  <2>1. /\ l - LARGE \in Nat /\ l - LARGE < PerBlock * PerBlock * 2
        /\ m - LARGE \in Nat /\ m - LARGE < PerBlock * PerBlock * 2
        /\ ~ (l < SMALL) /\ ~ (m < SMALL) /\ ~ (m < LARGE)
    BY <1>1, <1>4, Sizes
  <2>2. i(l) + SMALL + 2 = i(m) + SMALL + 2 /\ j(l) = j(m) /\ k(l) = k(m)
    BY <1>4, <2>1 DEF DataPlace
  <2>3. i(l) \in 0 .. 1 /\ l - LARGE = PerBlock * (PerBlock * i(l) + j(l)) + k(l)
    BY <2>1, Digits, Sizes
  <2>4. i(m) \in 0 .. 1 /\ m - LARGE = PerBlock * (PerBlock * i(m) + j(m)) + k(m)
    BY <2>1, Digits, Sizes
  <2> HIDE DEF i, j, k
  <2>5. i(l) = i(m)
    BY <2>2, <2>3, <2>4, Sizes
  <2>6. l - LARGE = m - LARGE
    BY <2>2, <2>3, <2>4, <2>5
  <2> QED
    BY <1>1, <2>6, Sizes
<1> QED
  BY <1>1, <1>2, <1>3, <1>4, Sizes

\* The units from o on, n of them, that are in one block.
LEMMA UnitsOfBlock ==
  ASSUME NEW o \in Nat, NEW n \in Nat, n <= PerBlock - (o % PerBlock), NEW u \in Nat
  PROVE  u \in o .. o + n - 1 <=>
           /\ u \div PerBlock = o \div PerBlock
           /\ u % PerBlock \in (o % PerBlock) .. (o % PerBlock) + n - 1
<1> DEFINE P == PerBlock
           L == o \div PerBlock
           r == o % PerBlock
           M == u \div PerBlock
           s == u % PerBlock
<1>1. P \in Nat \ {0}
  BY Sizes
<1>2. o = P * L + r /\ L \in Nat /\ r \in 0 .. P - 1
  BY <1>1, DivMod
<1>3. u = P * M + s /\ M \in Nat /\ s \in 0 .. P - 1
  BY <1>1, DivMod
<1>4. n <= P - r
  OBVIOUS
<1> HIDE DEF P, L, r, M, s
<1>5. M = L => (u \in o .. o + n - 1 <=> s \in r .. r + n - 1)
  BY <1>1, <1>2, <1>3
<1>6. M < L => u < o
  <2> SUFFICES ASSUME M < L PROVE u < o
    OBVIOUS
  <2>1. P * (L - M - 1) \in Nat /\ P * L = P * (L - M - 1) + P * M + P
    BY <1>1, <1>2, <1>3
  <2>2. P * M \in Nat /\ P * L \in Nat
    BY <1>1, <1>2, <1>3
  <2> QED
    BY <1>1, <1>2, <1>3, <2>1, <2>2
<1>7. L < M => u > o + n - 1
  <2> SUFFICES ASSUME L < M PROVE u > o + n - 1
    OBVIOUS
  <2>1. P * (M - L - 1) \in Nat /\ P * M = P * (M - L - 1) + P * L + P
    BY <1>1, <1>2, <1>3
  <2>2. P * M \in Nat /\ P * L \in Nat
    BY <1>1, <1>2, <1>3
  <2> QED
    BY <1>1, <1>2, <1>3, <1>4, <2>1, <2>2
<1>8. u \in o .. o + n - 1 <=> M = L /\ s \in r .. r + n - 1
  BY <1>2, <1>3, <1>5, <1>6, <1>7
<1> QED
  BY <1>8 DEF M, L, s, r

-----------------------------------------------------------------------------
(***************************************************************************)
(* The units of the files, by the tree of their blocks.                    *)
(***************************************************************************)
Content(a, v) ==
  [f \in File |-> [u \in 0 .. HUGE * PerBlock - 1 |->
                     v[At(a, v, DataPlace(f, u \div PerBlock))][u % PerBlock]]]

LEMMA UnitIs ==
  ASSUME NEW u \in 0 .. HUGE * PerBlock - 1
  PROVE  u \in Nat /\ u \div PerBlock \in Nat /\ u \div PerBlock < HUGE /\ u % PerBlock \in Index
<1>1. u \in Nat /\ u < PerBlock * HUGE
  <2>1. HUGE * PerBlock = PerBlock * HUGE
    BY Sizes
  <2>2. PerBlock * HUGE \in Nat
    BY Sizes
  <2> QED
    BY <2>1, <2>2
<1>2. u \div PerBlock \in 0 .. HUGE - 1 /\ u % PerBlock \in 0 .. PerBlock - 1
  BY <1>1, Rows, Sizes
<1> QED
  BY <1>1, <1>2, Sizes DEF Index

LEMMA ContentKept ==
  ASSUME NEW a, NEW v, NEW b, NEW w,
         \A f \in File, l \in Nat : l < HUGE =>
           w[At(b, w, DataPlace(f, l))] = v[At(a, v, DataPlace(f, l))]
  PROVE  Content(b, w) = Content(a, v)
<1>1. \A f \in File, u \in 0 .. HUGE * PerBlock - 1 :
        w[At(b, w, DataPlace(f, u \div PerBlock))] = v[At(a, v, DataPlace(f, u \div PerBlock))]
  BY UnitIs
<1> QED
  BY <1>1 DEF Content

\* An empty block has been entered.
LEMMA EnteredContent ==
  ASSUME NEW a \in Addrs, NEW v \in Shows, NEW b \in Addrs, NEW w \in Shows,
         NEW p \in Place, NEW A \in Block,
         Tree(a, v)[p] = 0, Tree(b, w) = [Tree(a, v) EXCEPT ![p] = A], w[A] = Cleared,
         \A q \in Place : Leaf(q) /\ q # p /\ Tree(a, v)[q] # 0 =>
           w[Tree(a, v)[q]] = v[Tree(a, v)[q]]
  PROVE  Content(b, w) = Content(a, v)
<1>1. v[0] = Cleared /\ w[0] = Cleared
  BY DEF Shows
<1>2. ASSUME NEW q \in Place, Leaf(q) PROVE w[At(b, w, q)] = v[At(a, v, q)]
  <2>1. Tree(b, w)[q] = At(b, w, q) /\ Tree(a, v)[q] = At(a, v, q)
    BY DEF Tree
  <2>2. DOMAIN Tree(a, v) = Place
    BY DEF Tree
  <2>3. CASE q = p
    BY <1>1, <2>1, <2>2, <2>3
  <2>4. CASE q # p
    BY <1>1, <1>2, <2>1, <2>2, <2>4
  <2> QED
    BY <2>3, <2>4
<1>3. \A f \in File, l \in Nat : l < HUGE =>
        w[At(b, w, DataPlace(f, l))] = v[At(a, v, DataPlace(f, l))]
  BY <1>2, DataPlaceIs
<1> QED
  BY <1>3, ContentKept

\* The units from o on, n of them, are written to their block.
\* What WriteI's turn writes: n units of block t, and of file f, are d.
Overwritten(v, t, o, n, d) ==
  [v EXCEPT ![t] = [i \in Index |-> IF i \in o .. o + n - 1 THEN d ELSE v[t][i]]]

WrittenUnits(c, f, o, n, d) ==
  [c EXCEPT ![f] = [u \in 0 .. HUGE * PerBlock - 1 |->
                      IF u \in o .. o + n - 1 THEN d ELSE c[f][u]]]

LEMMA WrittenContent ==
  ASSUME NEW a \in Addrs, NEW v \in Shows,
         \A q, r \in Place : Tree(a, v)[q] = Tree(a, v)[r] /\ Tree(a, v)[q] # 0 => q = r,
         NEW f \in File, NEW o \in Nat, NEW n \in Nat, NEW d \in Block,
         o \div PerBlock < HUGE, n <= PerBlock - (o % PerBlock),
         NEW t \in Block, Tree(a, v)[DataPlace(f, o \div PerBlock)] = t,
         NEW w, w = Overwritten(v, t, o % PerBlock, n, d)
  PROVE  /\ w \in Shows /\ Tree(a, w) = Tree(a, v)
         /\ Content(a, w) = WrittenUnits(Content(a, v), f, o, n, d)
<1> DEFINE c == [i \in Index |->
                   IF i \in (o % PerBlock) .. (o % PerBlock) + n - 1 THEN d ELSE v[t][i]]
           l == o \div PerBlock
           p == DataPlace(f, l)
           new == [u \in 0 .. HUGE * PerBlock - 1 |->
                     IF u \in o .. o + n - 1 THEN d ELSE Content(a, v)[f][u]]
<1>1. l \in Nat /\ p \in Place /\ Leaf(p)
  BY DataPlaceIs, DivMod, Sizes
<1>2. c \in Contents
  BY DEF Shows, Contents
<1>3. w \in Shows /\ Tree(a, w) = Tree(a, v)
  <2> HIDE DEF c, p, l
  <2>1. Tree(a, v)[p] = t /\ w = [v EXCEPT ![t] = c]
    BY DEF p, l, c, Overwritten
  <2> QED
    BY ONLY <1>1, <1>2, <2>1, WrittenLeaf, a \in Addrs, v \in Shows, t \in Block,
            \A q, r \in Place : Tree(a, v)[q] = Tree(a, v)[r] /\ Tree(a, v)[q] # 0 => q = r
<1>4. \A q \in Place : At(a, w, q) = At(a, v, q)
  BY <1>3 DEF Tree
<1>5. t # 0 /\ w[t] = c /\ \A b \in {0} \cup Block : b # t => w[b] = v[b]
  BY Consts DEF Shows, Overwritten
<1>6. ASSUME NEW g \in File, NEW u \in 0 .. HUGE * PerBlock - 1
      PROVE  Content(a, w)[g][u] = IF g = f THEN new[u] ELSE Content(a, v)[g][u]
  <2> DEFINE m == u \div PerBlock
             q == DataPlace(g, m)
             i == u % PerBlock
  <2>1. u \in Nat /\ m \in Nat /\ m < HUGE /\ i \in Index
    BY UnitIs
  <2>2. q \in Place
    BY <2>1, DataPlaceIs
  <2>3. Content(a, w)[g][u] = w[At(a, w, q)][i] /\ Content(a, v)[g][u] = v[At(a, v, q)][i]
    BY DEF Content
  <2>4. At(a, w, q) = At(a, v, q) /\ At(a, v, q) \in {0} \cup Block /\ At(a, v, p) = t
    BY <1>1, <1>4, <2>2, PlaceAt DEF Tree
  <2>5. u \in o .. o + n - 1 <=> m = l /\ i \in (o % PerBlock) .. (o % PerBlock) + n - 1
    BY <2>1, UnitsOfBlock
  <2>6. CASE g = f /\ m = l
    <3>1. q = p
      BY <2>6
    <3>2. Content(a, w)[g][u] = c[i] /\ Content(a, v)[g][u] = v[t][i]
      BY <1>5, <2>3, <2>4, <3>1
    <3>3. new[u] = IF u \in o .. o + n - 1 THEN d ELSE Content(a, v)[f][u]
      OBVIOUS
    <3>4. c[i] = IF i \in (o % PerBlock) .. (o % PerBlock) + n - 1 THEN d ELSE v[t][i]
      BY <2>1
    <3> HIDE DEF c, new, m, q, i, l, p
    <3> QED
      BY <2>5, <2>6, <3>2, <3>3, <3>4
  <2>7. CASE ~ (g = f /\ m = l)
    <3>1. q # p
      BY <1>1, <2>1, <2>7, DataPlaceApart
    <3>2. At(a, v, q) # t
      <4>1. Tree(a, v)[q] = At(a, v, q) /\ Tree(a, v)[p] = t
        BY <2>2 DEF Tree
      <4> HIDE DEF q, p
      <4> QED
        BY <1>1, <1>5, <2>2, <3>1, <4>1
    <3>3. Content(a, w)[g][u] = Content(a, v)[g][u]
      BY <1>5, <2>3, <2>4, <3>2
    <3>4. new[u] = IF u \in o .. o + n - 1 THEN d ELSE Content(a, v)[f][u]
      OBVIOUS
    <3> HIDE DEF new, m, q, i, l, p
    <3> QED
      BY <2>5, <2>7, <3>3, <3>4
  <2> QED
    BY <2>6, <2>7
<1>7. Content(a, w) = [Content(a, v) EXCEPT ![f] = new]
  <2>1. /\ Content(a, w) = [g \in File |-> Content(a, w)[g]]
        /\ \A g \in File : Content(a, w)[g] = [u \in 0 .. HUGE * PerBlock - 1 |-> Content(a, w)[g][u]]
        /\ Content(a, v) = [g \in File |-> Content(a, v)[g]]
        /\ \A g \in File : Content(a, v)[g] = [u \in 0 .. HUGE * PerBlock - 1 |-> Content(a, v)[g][u]]
    BY DEF Content
  <2>2. new = [u \in 0 .. HUGE * PerBlock - 1 |-> new[u]]
    OBVIOUS
  <2>3. \A g \in File : Content(a, w)[g] = IF g = f THEN new ELSE Content(a, v)[g]
    <3> HIDE DEF new
    <3> TAKE g \in File
    <3>1. CASE g = f
      <4>1. \A u \in 0 .. HUGE * PerBlock - 1 : Content(a, w)[g][u] = new[u]
        BY <1>6, <3>1
      <4> QED
        BY <2>1, <2>2, <3>1, <4>1
    <3>2. CASE g # f
      <4>1. \A u \in 0 .. HUGE * PerBlock - 1 : Content(a, w)[g][u] = Content(a, v)[g][u]
        BY <1>6, <3>2
      <4> QED
        BY <2>1, <3>2, <4>1
    <3> QED
      BY <3>1, <3>2
  <2> HIDE DEF new
  <2> QED
    BY <2>1, <2>3
<1>8. Content(a, w) = WrittenUnits(Content(a, v), f, o, n, d)
  BY <1>7 DEF WrittenUnits
<1> QED
  BY <1>3, <1>8

LEMMA EmptiedContent ==
  ASSUME NEW a \in Addrs, NEW v \in Shows, NEW f \in File,
         NEW b, b = Without(a, f)
  PROVE  Content(b, v) = [Content(a, v) EXCEPT ![f] = [u \in 0 .. HUGE * PerBlock - 1 |-> 0]]
<1>1. \A q \in Place : At(b, v, q) = IF q[1] = f THEN 0 ELSE At(a, v, q)
  BY EmptiedAt
<1>2. v[0] = Cleared /\ \A j \in Index : Cleared[j] = 0
  BY DEF Shows, Cleared
<1>3. ASSUME NEW g \in File, NEW u \in 0 .. HUGE * PerBlock - 1
      PROVE  v[At(b, v, DataPlace(g, u \div PerBlock))][u % PerBlock]
               = IF g = f THEN 0 ELSE v[At(a, v, DataPlace(g, u \div PerBlock))][u % PerBlock]
  <2>1. /\ DataPlace(g, u \div PerBlock) \in Place /\ DataPlace(g, u \div PerBlock)[1] = g
        /\ u % PerBlock \in Index
    BY DataPlaceIs, UnitIs
  <2> QED
    BY <1>1, <1>2, <2>1
<1> QED
  BY <1>3 DEF Content

-----------------------------------------------------------------------------
(***************************************************************************)
(* The inductive invariant.  Until an index block is left unwritten, the   *)
(* files and the free list are sound, as whoever holds the index block in  *)
(* hand sees them, and Bmap holds what it has looked up.                   *)
(***************************************************************************)

\* What the blocks show: the index block in hand is what its buffer is.
Shown ==
  [b \in {0} \cup Block |->
     IF b = 0 THEN Cleared ELSE IF b = tab /\ pc \in {"second", "last"} THEN buf ELSE store[b]]

Base ==
  /\ addr \in Addrs
  /\ size \in [File -> 0 .. HUGE * PerBlock]
  /\ store \in [Block -> Contents]
  /\ free \in Seq(Block)
  /\ stuck \in BOOLEAN /\ torn \in BOOLEAN
  /\ pc \in {"idle", "turn", "first", "second", "last", "data"}
  /\ op \in {"read", "write"} /\ file \in File
  /\ off \in Nat /\ cnt \in Nat /\ datum \in Datum
  /\ tab \in {0} \cup Block /\ buf \in Contents /\ phys \in {0} \cup Block
  /\ calls \in 0 .. MaxCalls

\* What a call works with has been tested on the way.
InHand ==
  /\ pc \notin {"idle", "turn"} =>
       pc # "first" /\ cnt # 0 /\ Lbn < HUGE /\ (op = "read" => off < size[file])
  /\ pc = "second" => Lbn >= LARGE
  /\ pc = "last" => Lbn >= SMALL
  /\ pc \in {"second", "last"} => tab # 0 /\ buf \in {store[tab], Cleared}
  /\ pc = "data" => phys # 0

\* What Bmap has looked up is there.
Here == DataPlace(file, Lbn)

LookedUp(t) ==
  /\ pc = "second" => tab = t[Up(Up(Here))]
  /\ pc = "last" => tab = t[Up(Here)]
  /\ pc = "data" => phys = t[Here]

Whole == Sound(Tree(addr, Shown), free) /\ LookedUp(Tree(addr, Shown))

Inv == Base /\ InHand /\ TornMeansStuck /\ (~ torn => Whole)

LEMMA Init_Inv == Init => Inv
<1> SUFFICES ASSUME Init PROVE Inv
  OBVIOUS
<1> USE DEF Init
<1>1. Some(File) \in File /\ Some(Datum) \in Datum
  BY FileAssumption DEF Some
<1>2. HUGE * PerBlock \in Nat /\ MaxCalls \in Nat
  BY Sizes, FileAssumption
<1>3. Lists(free, Block)
  BY Consts, DescendingLists
<1>4. Base
  <2>1. store \in [Block -> Contents]
    BY FileAssumption DEF Contents, Index
  <2>2. free \in Seq(Block)
    BY <1>3 DEF Lists
  <2>3. addr \in Addrs
    BY DEF Addrs
  <2>4. size \in [File -> 0 .. HUGE * PerBlock]
    <3>1. 0 \in 0 .. HUGE * PerBlock
      BY <1>2
    <3> QED
      BY <3>1
  <2>5. /\ stuck \in BOOLEAN /\ torn \in BOOLEAN /\ file \in File /\ datum \in Datum
        /\ calls \in 0 .. MaxCalls
    <3>1. stuck \in BOOLEAN /\ torn \in BOOLEAN
      OBVIOUS
    <3>2. file \in File /\ datum \in Datum
      BY <1>1
    <3>3. calls \in 0 .. MaxCalls
      BY <1>2
    <3> QED
      BY <3>1, <3>2, <3>3
  <2>6. off \in Nat /\ cnt \in Nat /\ tab \in {0} \cup Block /\ phys \in {0} \cup Block
    OBVIOUS
  <2>7. buf \in Contents /\ pc = "idle" /\ op = "read"
    BY Consts
  <2> HIDE DEF Init
  <2> QED
    BY <2>1, <2>2, <2>3, <2>4, <2>5, <2>6, <2>7 DEF Base
<1>5. Shown \in Shows
  BY <1>4, Consts DEF Base, Shown, Shows
<1>6. Tree(addr, Shown) = [p \in Place |-> 0]
  <2>1. \A f \in File, i \in AddrIndex : addr[f][i] = 0
    OBVIOUS
  <2>2. Shown[0] = Cleared /\ \A j \in Index : Cleared[j] = 0
    BY DEF Shown, Cleared
  <2>3. \A p \in Place : At(addr, Shown, p) = 0
    <3> TAKE p \in Place
    <3>1. /\ p[1] \in File /\ p[2] \in AddrIndex /\ p[3] \in Way /\ p[4] \in Way
          /\ p[4] # None => p[3] # None
      BY PlaceIs
    <3> HIDE DEF Init
    <3> QED
      BY <2>1, <2>2, <3>1 DEF At, Way
  <2> QED
    BY <2>3 DEF Tree
<1>7. Whole
  <2>1. \A p \in Place : Tree(addr, Shown)[p] = 0
    BY <1>6
  <2>2. Unplaced(Tree(addr, Shown)) = Block
    BY <2>1, Consts DEF Unplaced
  <2>3. Tree(addr, Shown) \in Trees
    BY <1>6 DEF Trees
  <2>4. Sound(Tree(addr, Shown), free)
    BY <1>3, <2>1, <2>2, <2>3 DEF Sound
  <2> QED
    BY <2>4 DEF Whole, LookedUp
<1> QED
  BY <1>4, <1>7 DEF Inv, InHand, TornMeansStuck

-----------------------------------------------------------------------------
\* The place Bmap is on its way to, and the places of the index blocks before it.
LEMMA HereIs ==
  ASSUME Base, Lbn < HUGE
  PROVE  /\ Lbn \in Nat /\ Here \in Place /\ Leaf(Here)
         /\ Lbn < SMALL => Here = <<file, Lbn, None, None>> /\ Lbn \in AddrIndex
         /\ Lbn >= SMALL =>
              /\ Entry \in AddrIndex /\ Entry >= SMALL /\ Inner \in Index
              /\ Here[3] # None /\ Slot(Here) = Inner /\ Up(Here) \in Place /\ ~ Leaf(Up(Here))
         /\ Lbn >= SMALL /\ Lbn < LARGE =>
              Entry < SMALL + 2 /\ Up(Here) = <<file, Entry, None, None>>
         /\ Lbn >= LARGE =>
              /\ Lbn >= SMALL /\ Entry >= SMALL + 2 /\ Outer \in Index
              /\ Up(Here)[3] # None /\ Slot(Up(Here)) = Outer
              /\ Up(Up(Here)) = <<file, Entry, None, None>> /\ Up(Up(Here)) \in Place
<1>0. /\ Lbn \in Nat /\ file \in File /\ None \notin Index /\ Index = 0 .. PerBlock - 1
      /\ off \in Nat
  BY DivMod, Sizes, Consts DEF Base, Lbn, Index
<1>1. Here \in Place /\ Leaf(Here)
  <2>1. PICK l \in Nat : l = Lbn
    BY <1>0
  <2>2. PICK f \in File : f = file
    BY <1>0
  <2>3. DataPlace(f, l) \in Place /\ Leaf(DataPlace(f, l))
    BY <2>1, DataPlaceIs
  <2> QED
    BY <2>1, <2>2, <2>3 DEF Here
<1>2. CASE Lbn < SMALL
  <2>1. Here = <<file, Lbn, None, None>> /\ Lbn \in AddrIndex
    BY <1>0, <1>2, Sizes DEF Here, DataPlace, AddrIndex
  <2> QED
    BY <1>0, <1>1, <1>2, <2>1, Sizes
<1>3. CASE Lbn >= SMALL /\ Lbn < LARGE
  <2>1. Lbn - SMALL \in Nat /\ Lbn - SMALL < PerBlock * 2
    BY <1>0, <1>3, Sizes
  <2>2. (Lbn - SMALL) \div PerBlock \in 0 .. 2 - 1 /\ (Lbn - SMALL) % PerBlock \in 0 .. PerBlock - 1
    <3>1. PICK x : x = Lbn - SMALL
      OBVIOUS
    <3> QED
      BY <2>1, <3>1, Rows, Sizes
  <2>3. Entry = (Lbn - SMALL) \div PerBlock + SMALL /\ Inner = (Lbn - SMALL) % PerBlock
    BY <1>3 DEF Entry, Inner
  <2>4. Here = <<file, Entry, Inner, None>>
    BY <1>0, <1>3, <2>3, Sizes DEF Here, DataPlace
  <2>5. Entry \in AddrIndex /\ Entry >= SMALL /\ Entry < SMALL + 2 /\ Inner \in Index
    BY <1>0, <2>2, <2>3, Sizes DEF AddrIndex
  <2>6. Here[3] # None /\ Up(Here) = <<file, Entry, None, None>> /\ Slot(Here) = Inner
    BY <1>0, <2>4, <2>5 DEF Up, Slot
  <2>7. Up(Here) \in Place /\ ~ Leaf(Up(Here))
    <3>1. PICK p \in Place : p = Here
      BY <1>1
    <3> QED
      BY <2>6, <3>1, UpIs
  <2> QED
    BY <1>0, <1>1, <1>3, <2>5, <2>6, <2>7, Sizes
<1>4. CASE Lbn >= LARGE
  <2>1. Lbn - LARGE \in Nat /\ Lbn - LARGE < PerBlock * PerBlock * 2 /\ Lbn >= SMALL
    BY <1>0, <1>4, Sizes
  <2>2. /\ (Lbn - LARGE) \div (PerBlock * PerBlock) \in 0 .. 1
        /\ ((Lbn - LARGE) \div PerBlock) % PerBlock \in 0 .. PerBlock - 1
        /\ (Lbn - LARGE) % PerBlock \in 0 .. PerBlock - 1
    <3>1. PICK x : x = Lbn - LARGE
      OBVIOUS
    <3> QED
      BY <2>1, <3>1, Digits, Sizes
  <2>3. /\ Entry = (Lbn - LARGE) \div (PerBlock * PerBlock) + SMALL + 2
        /\ Outer = ((Lbn - LARGE) \div PerBlock) % PerBlock
        /\ Inner = (Lbn - LARGE) % PerBlock
    BY <1>0, <1>4, Sizes DEF Entry, Outer, Inner
  <2>4. Here = <<file, Entry, Outer, Inner>>
    BY <1>0, <1>4, <2>1, <2>3, Sizes DEF Here, DataPlace
  <2>5. /\ Entry \in AddrIndex /\ Entry >= SMALL /\ Entry >= SMALL + 2
        /\ Inner \in Index /\ Outer \in Index
    BY <1>0, <2>2, <2>3, Sizes DEF AddrIndex
  <2>6. /\ Here[3] # None /\ Up(Here) = <<file, Entry, Outer, None>> /\ Slot(Here) = Inner
        /\ Up(Here)[3] # None /\ Slot(Up(Here)) = Outer
        /\ Up(Up(Here)) = <<file, Entry, None, None>>
    BY <1>0, <2>4, <2>5 DEF Up, Slot
  <2>7. Up(Here) \in Place /\ ~ Leaf(Up(Here))
    <3>1. PICK p \in Place : p = Here
      BY <1>1
    <3> QED
      BY <2>6, <3>1, UpIs
  <2>8. Up(Up(Here)) \in Place
    <3>1. PICK p \in Place : p = Up(Here)
      BY <2>7
    <3> QED
      BY <2>6, <3>1, UpIs
  <2> QED
    BY <1>0, <1>1, <1>4, <2>1, <2>5, <2>6, <2>7, <2>8, Sizes
<1> QED
  BY <1>0, <1>2, <1>3, <1>4, Sizes

LEMMA ShownIs == Base => Shown \in Shows
BY Consts DEF Base, Shown, Shows

LEMMA ShownNext == Base' => (Shown \in Shows)'
BY ShownIs, PTL

LEMMA AllocIs ==
  ASSUME Base, free # << >>
  PROVE  Allocated \in Block /\ Allocated # 0 /\ Front(free) \in Seq(Block)
<1>1. free \in Seq(Block) /\ Len(free) \in Nat \ {0}
  BY DEF Base
<1>2. free[Len(free)] \in Block
  BY <1>1
<1>3. PICK s \in Seq(Block) : s = free
  BY <1>1
<1>4. PICK n \in Nat : n = Len(free) - 1
  BY <1>1
<1>5. SubSeq(s, 1, n) \in Seq(Block)
  BY <1>1, <1>3, <1>4, SubSeqProperties
<1> QED
  BY <1>2, <1>3, <1>4, <1>5, Consts DEF Allocated, Last, Front

-----------------------------------------------------------------------------
\* Every step keeps the invariant, and the units of the files but in WriteI and ITrunc.

View == Content(addr, Shown)

Flat(s) == [b \in {0} \cup Block |-> IF b = 0 THEN Cleared ELSE s[b]]

LEMMA ShownFlat ==
  ASSUME Base
  PROVE  /\ pc \notin {"second", "last"} => Shown = Flat(store)
         /\ pc \in {"second", "last"} /\ tab # 0 => Shown = [Flat(store) EXCEPT ![tab] = buf]
         /\ pc \in {"second", "last"} /\ tab # 0 /\ store[tab] = buf => Shown = Flat(store)
BY DEF Base, Shown, Flat

LEMMA ShownFlatNext == (Base =>
  /\ pc \notin {"second", "last"} => Shown = Flat(store)
  /\ pc \in {"second", "last"} /\ tab # 0 => Shown = [Flat(store) EXCEPT ![tab] = buf]
  /\ pc \in {"second", "last"} /\ tab # 0 /\ store[tab] = buf => Shown = Flat(store))'
<1>1. Base =>
        /\ pc \notin {"second", "last"} => Shown = Flat(store)
        /\ pc \in {"second", "last"} /\ tab # 0 => Shown = [Flat(store) EXCEPT ![tab] = buf]
        /\ pc \in {"second", "last"} /\ tab # 0 /\ store[tab] = buf => Shown = Flat(store)
  BY ShownFlat
<1> QED
  BY <1>1, PTL

\* Nothing has changed but where the call is.
LEMMA SameWhole ==
  ASSUME Whole, addr' = addr, Shown' = Shown, free' = free,
         (LookedUp(Tree(addr, Shown)))'
  PROVE  Whole' /\ View' = View
BY DEF Whole, View

LEMMA EndsInv ==
  ASSUME Inv, Done, calls' \in 0 .. MaxCalls,
         UNCHANGED <<addr, size, store, free>>, stuck' \in BOOLEAN, torn' \in BOOLEAN,
         torn => torn', torn' => stuck' /\ free = << >>,
         ~ torn' /\ pc \in {"second", "last"} => store[tab] = buf
  PROVE  Inv' /\ (~ torn' => View' = View)
<1>1. Some(File) \in File /\ Some(Datum) \in Datum
  BY FileAssumption DEF Some
<1>2. Base'
  BY <1>1, Consts DEF Inv, Base, Done
<1>3. InHand' /\ TornMeansStuck' /\ (LookedUp(Tree(addr, Shown)))'
  BY DEF Done, InHand, TornMeansStuck, LookedUp
<1>4. ASSUME ~ torn' PROVE Whole' /\ View' = View
  <2>1. Whole
    BY <1>4 DEF Inv
  <2>2. Shown = Flat(store)
    BY <1>4, ShownFlat DEF Inv, InHand
  <2>3. Shown' = Flat(store)
    BY <1>2, ShownFlatNext DEF Done
  <2> QED
    BY <1>3, <2>1, <2>2, <2>3, SameWhole
<1> QED
  BY <1>2, <1>3, <1>4 DEF Inv

LEMMA RdwrInv ==
  ASSUME Inv, Rdwr
  PROVE  Inv' /\ torn' = torn /\ (~ torn' => View' = View)
<1>1. calls' \in 0 .. MaxCalls
  BY FileAssumption DEF Rdwr, Called, Inv, Base
<1>2. Base' /\ pc' = "turn" /\ pc = "idle" /\ UNCHANGED disk
  BY <1>1, FileAssumption DEF Rdwr, Goto, Inv, Base, disk
<1>3. InHand' /\ TornMeansStuck' /\ (LookedUp(Tree(addr, Shown)))'
  BY <1>2 DEF Inv, InHand, TornMeansStuck, LookedUp, disk
<1>4. Shown' = Shown
  <2>1. Shown = Flat(store)
    BY <1>2, ShownFlat DEF Inv
  <2>2. Shown' = Flat(store)
    BY <1>2, ShownFlatNext DEF disk
  <2> QED
    BY <2>1, <2>2
<1>5. ~ torn => Whole' /\ View' = View
  BY <1>2, <1>3, <1>4, SameWhole DEF Inv, disk
<1> QED
  BY <1>2, <1>3, <1>5 DEF Inv, disk

LEMMA TurnEndsInv ==
  ASSUME Inv, TurnEnds \/ MapTooBig, calls' \in 0 .. MaxCalls
  PROVE  Inv' /\ torn' = torn /\ (~ torn' => View' = View)
<1>1. Done /\ UNCHANGED disk /\ pc = "turn"
  BY DEF TurnEnds, MapTooBig, Turn
<1>2. stuck' \in BOOLEAN /\ torn' \in BOOLEAN /\ (torn' => stuck' /\ free = << >>)
  BY <1>1 DEF Inv, Base, TornMeansStuck, disk
<1> QED
  BY <1>1, <1>2, EndsInv DEF disk

\* A block found in an entry.
LEMMA FoundInv ==
  ASSUME Inv, calls' \in 0 .. MaxCalls,
         UNCHANGED <<addr, size, store, free, stuck, torn, op, file, off, cnt, datum>>,
         pc' \in {"second", "last", "data"}, tab' \in {0} \cup Block, buf' \in Contents,
         phys' \in {0} \cup Block, cnt # 0, Lbn < HUGE, op = "read" => off < size[file],
         pc \in {"second", "last"} => store[tab] = buf,
         pc' = "second" => Lbn >= LARGE, pc' = "last" => Lbn >= SMALL,
         pc' \in {"second", "last"} => tab' # 0 /\ buf' = store[tab'],
         pc' = "data" => phys' # 0,
         ~ torn =>
           /\ pc' = "second" => tab' = Tree(addr, Shown)[Up(Up(Here))]
           /\ pc' = "last" => tab' = Tree(addr, Shown)[Up(Here)]
           /\ pc' = "data" => phys' = Tree(addr, Shown)[Here]
  PROVE  Inv' /\ (~ torn' => View' = View)
<1>1. Base'
  BY DEF Inv, Base
<1>2. Lbn' = Lbn /\ Here' = Here
  BY DEF Lbn, Here
<1>3. InHand' /\ TornMeansStuck'
  BY <1>2 DEF Inv, InHand, TornMeansStuck
<1>4. ASSUME ~ torn PROVE Whole' /\ View' = View
  <2>1. Shown = Flat(store)
    BY ShownFlat DEF Inv, InHand
  <2>2. Shown' = Flat(store)
    BY <1>1, ShownFlatNext
  <2>3. Tree(addr, Shown)' = Tree(addr, Shown)
    BY <2>1, <2>2
  <2>4. (LookedUp(Tree(addr, Shown)))'
    BY <1>2, <1>4, <2>3 DEF LookedUp
  <2> QED
    BY <1>4, <2>1, <2>2, <2>4, SameWhole DEF Inv
<1> QED
  BY <1>1, <1>3, <1>4 DEF Inv

\* A block given out.
LEMMA GivesInv ==
  ASSUME Inv, Alloc, UNCHANGED <<stuck, torn>>, Base', InHand',
         NEW p \in Place, Tree(addr, Shown)[p] = 0,
         Tree(addr, Shown)' = [Tree(addr, Shown) EXCEPT ![p] = Allocated],
         Shown'[Allocated] = Cleared,
         \A q \in Place : Leaf(q) /\ q # p /\ Tree(addr, Shown)[q] # 0 =>
           Shown'[Tree(addr, Shown)[q]] = Shown[Tree(addr, Shown)[q]],
         (LookedUp(Tree(addr, Shown)))'
  PROVE  Inv' /\ View' = View
<1>1. ~ torn /\ ~ stuck /\ free # << >> /\ free' = Front(free) /\ ~ torn'
  BY DEF Inv, Alloc, TornMeansStuck
<1>2. Sound(Tree(addr, Shown), free)
  BY <1>1 DEF Inv, Whole
<1>3. PICK t, fr : t = Tree(addr, Shown) /\ fr = free
  OBVIOUS
<1>4. Last(fr) \in Block /\ Sound([t EXCEPT ![p] = Last(fr)], Front(fr))
  BY <1>1, <1>2, <1>3, GivenOut
<1>5. Sound(Tree(addr, Shown)', free')
  BY <1>1, <1>3, <1>4 DEF Allocated
<1>6. Inv'
  BY <1>1, <1>5 DEF Inv, Whole, TornMeansStuck
<1>7. View' = View
  <2>1. PICK a, v, b, w, A : a = addr /\ v = Shown /\ b = addr' /\ w = Shown' /\ A = Allocated
    OBVIOUS
  <2>2. a \in Addrs /\ v \in Shows /\ b \in Addrs /\ w \in Shows
    BY <2>1, ShownIs, ShownNext DEF Inv, Base
  <2>3. A \in Block
    BY <1>3, <1>4, <2>1 DEF Allocated
  <2>4. /\ Tree(a, v)[p] = 0 /\ Tree(b, w) = [Tree(a, v) EXCEPT ![p] = A] /\ w[A] = Cleared
        /\ \A q \in Place : Leaf(q) /\ q # p /\ Tree(a, v)[q] # 0 =>
             w[Tree(a, v)[q]] = v[Tree(a, v)[q]]
    BY <2>1
  <2>5. Content(b, w) = Content(a, v)
    BY <2>2, <2>3, <2>4, EnteredContent
  <2> QED
    BY <2>1, <2>5 DEF View
<1> QED
  BY <1>6, <1>7

\* A block given out for an entry of i_addr.
LEMMA GivesTop ==
  ASSUME Inv, Alloc, NEW i \in AddrIndex, addr[file][i] = 0,
         addr' = [addr EXCEPT ![file][i] = Allocated],
         Shown' = [Shown EXCEPT ![Allocated] = Cleared],
         UNCHANGED <<stuck, torn>>, Base', InHand', NEW p, p = <<file, i, None, None>>,
         Tree(addr, Shown)' = [Tree(addr, Shown) EXCEPT ![p] = Allocated] =>
           (LookedUp(Tree(addr, Shown)))'
  PROVE  Inv' /\ View' = View
<1>1. ~ torn /\ free # << >>
  BY DEF Inv, Alloc, TornMeansStuck
<1>2. Sound(Tree(addr, Shown), free)
  BY <1>1 DEF Inv, Whole
<1>3. PICK a, v, b, w, A, f, fr : /\ a = addr /\ v = Shown /\ b = addr' /\ w = Shown'
                                  /\ A = Allocated /\ f = file /\ fr = free
  OBVIOUS
<1>4. a \in Addrs /\ v \in Shows /\ f \in File
  BY <1>3, ShownIs DEF Inv, Base
<1>5. A \in Unplaced(Tree(a, v))
  <2>1. Lists(fr, Unplaced(Tree(a, v)))
    BY <1>2, <1>3 DEF Sound
  <2> QED
    BY <1>1, <1>3, <2>1, FrontLists DEF Allocated
<1>6. A \in Block /\ \A q \in Place : Tree(a, v)[q] # A
  BY <1>5 DEF Unplaced
<1>7. a[f][i] = 0 /\ b = Entered(a, f, i, A) /\ w = Empty(v, A)
  BY <1>3 DEF Entered, Empty
<1>8. /\ <<f, i, None, None>> \in Place
      /\ Tree(b, w) = [Tree(a, v) EXCEPT ![<<f, i, None, None>>] = A]
  BY <1>4, <1>6, <1>7, EnteredTop
<1>9. p \in Place /\ Tree(addr, Shown)' = [Tree(addr, Shown) EXCEPT ![p] = Allocated]
  BY <1>3, <1>8
<1>10. Tree(addr, Shown)[p] = 0
  BY <1>9 DEF Tree, At
<1>11. Shown'[Allocated] = Cleared
  BY <1>3, <1>4, <1>6, <1>7 DEF Shows, Empty
<1>12. \A q \in Place : Leaf(q) /\ q # p /\ Tree(addr, Shown)[q] # 0 =>
         Shown'[Tree(addr, Shown)[q]] = Shown[Tree(addr, Shown)[q]]
  <2>1. \A q \in Place : w[Tree(a, v)[q]] = v[Tree(a, v)[q]]
    <3> TAKE q \in Place
    <3>1. Tree(a, v)[q] \in {0} \cup Block /\ Tree(a, v)[q] # A
      BY <1>4, <1>6, PlaceAt DEF Tree
    <3> QED
      BY <1>4, <1>7, <3>1 DEF Shows, Empty
  <2> QED
    BY <1>3, <2>1
<1> QED
  BY <1>9, <1>10, <1>11, <1>12, GivesInv

\* A block given out for an entry of the index block in hand.
LEMMA GivesBelow ==
  ASSUME Inv, Alloc, NEW p, p \in Place, p[3] # None, Tree(addr, Shown)[Up(p)] = tab, tab # 0,
         Shown[tab][Slot(p)] = 0, addr' = addr,
         Shown' = [Shown EXCEPT ![tab] = [Shown[tab] EXCEPT ![Slot(p)] = Allocated],
                                ![Allocated] = Cleared],
         UNCHANGED <<stuck, torn>>, Base', InHand',
         Tree(addr, Shown)' = [Tree(addr, Shown) EXCEPT ![p] = Allocated] =>
           (LookedUp(Tree(addr, Shown)))'
  PROVE  Inv' /\ View' = View
<1>1. ~ torn /\ free # << >>
  BY DEF Inv, Alloc, TornMeansStuck
<1>2. Sound(Tree(addr, Shown), free)
  BY <1>1 DEF Inv, Whole
<1>3. PICK a, v, w, A, t, fr : /\ a = addr /\ v = Shown /\ w = Shown'
                               /\ A = Allocated /\ t = tab /\ fr = free
  OBVIOUS
<1>4. a \in Addrs /\ v \in Shows /\ t \in Block
  BY <1>3, ShownIs DEF Inv, Base
<1>5. A \in Unplaced(Tree(a, v))
  <2>1. Lists(fr, Unplaced(Tree(a, v)))
    BY <1>2, <1>3 DEF Sound
  <2> QED
    BY <1>1, <1>3, <2>1, FrontLists DEF Allocated
<1>6. /\ A \in Block /\ \A q \in Place : Tree(a, v)[q] # A
      /\ \A q, r \in Place : Tree(a, v)[q] = Tree(a, v)[r] /\ Tree(a, v)[q] # 0 => q = r
  BY <1>2, <1>3, <1>5 DEF Unplaced, Sound
<1>7. Up(p) \in Place /\ ~ Leaf(Up(p))
  BY UpIs
<1>8. Tree(a, v)[Up(p)] = t /\ v[t][Slot(p)] = 0
  BY <1>3
<1>9. Tree(a, v)[p] = 0
  <2>1. At(a, v, p) = v[At(a, v, Up(p))][Slot(p)]
    BY ONLY p[3] # None DEF At, Up, Slot
  <2>2. Tree(a, v)[Up(p)] = At(a, v, Up(p)) /\ Tree(a, v)[p] = At(a, v, p)
    BY <1>7 DEF Tree
  <2> QED
    BY <1>8, <2>1, <2>2
<1>10. w = EmptyIn(v, t, Slot(p), A)
  BY <1>3 DEF EmptyIn
<1>11. w \in Shows /\ Tree(a, w) = [Tree(a, v) EXCEPT ![p] = A]
  BY ONLY <1>4, <1>6, <1>8, <1>9, <1>10, p \in Place, p[3] # None, EnteredBelow
<1>12. Tree(addr, Shown)' = [Tree(addr, Shown) EXCEPT ![p] = Allocated]
  BY <1>3, <1>11
<1>13. Shown'[Allocated] = Cleared
  BY <1>3, <1>4, <1>6, <1>10 DEF Shows, EmptyIn
<1>14. \A q \in Place : Leaf(q) /\ q # p /\ Tree(addr, Shown)[q] # 0 =>
         Shown'[Tree(addr, Shown)[q]] = Shown[Tree(addr, Shown)[q]]
  <2>1. \A q \in Place : Leaf(q) => w[Tree(a, v)[q]] = v[Tree(a, v)[q]]
    <3> SUFFICES ASSUME NEW q \in Place, Leaf(q) PROVE w[Tree(a, v)[q]] = v[Tree(a, v)[q]]
      OBVIOUS
    <3>1. Tree(a, v)[q] \in {0} \cup Block /\ Tree(a, v)[q] # A
      BY <1>4, <1>6, PlaceAt DEF Tree
    <3>2. Tree(a, v)[q] # t
      BY <1>4, <1>6, <1>7, <1>8, Consts
    <3> QED
      BY <1>4, <1>10, <3>1, <3>2 DEF Shows, EmptyIn
  <2> QED
    BY <1>3, <2>1
<1>15. Tree(addr, Shown)[p] = 0
  BY <1>3, <1>9
<1> QED
  BY <1>12, <1>13, <1>14, <1>15, GivesInv

LEMMA TurnIs ==
  ASSUME Inv, Turn
  PROVE  /\ pc = "turn" /\ cnt # 0 /\ (op = "read" => off < size[file])
         /\ Shown = Flat(store) /\ Base
<1>1. pc = "turn" /\ cnt # 0 /\ (op = "read" => ~ (size[file] - off <= 0))
  BY DEF Turn, EndOfFile
<1>2. size[file] \in Nat /\ off \in Nat
  BY DEF Inv, Base
<1>3. Shown = Flat(store)
  BY <1>1, ShownFlat DEF Inv
<1> QED
  BY <1>1, <1>2, <1>3 DEF Inv

LEMMA LbnIs == Base => Lbn \in Nat
<1> SUFFICES ASSUME Base PROVE Lbn \in Nat
  OBVIOUS
<1>1. off \in Nat
  BY DEF Base
<1> QED
  BY <1>1, DivMod, Sizes DEF Lbn

LEMMA TreeTop ==
  ASSUME NEW p \in Place, NEW f, NEW i, p = <<f, i, None, None>>
  PROVE  Tree(addr, Shown)[p] = addr[f][i]
BY DEF Tree, At

LEMMA MapDirectInv ==
  ASSUME Inv, MapDirect, calls' \in 0 .. MaxCalls
  PROVE  Inv' /\ torn' = torn /\ (~ torn' => View' = View)
<1>0. /\ pc = "turn" /\ cnt # 0 /\ (op = "read" => off < size[file])
      /\ Shown = Flat(store) /\ Base
  BY TurnIs DEF MapDirect
<1>1. Lbn < HUGE /\ Lbn \in Nat /\ Lbn < SMALL
  <2>1. Lbn < SMALL
    BY DEF MapDirect
  <2>2. Lbn \in Nat
    BY <1>0, LbnIs
  <2> QED
    BY <2>1, <2>2, Sizes
<1>2. Here \in Place /\ Here = <<file, Lbn, None, None>> /\ Lbn \in AddrIndex
  BY <1>0, <1>1, HereIs
<1>3. Tree(addr, Shown)[Here] = addr[file][Lbn]
  BY <1>2, TreeTop
<1>4. addr[file][Lbn] \in {0} \cup Block
  BY <1>0, <1>2 DEF Base, Addrs
<1>5. CASE addr[file][Lbn] # 0
  <2>1. /\ phys' = addr[file][Lbn] /\ pc' = "data"
        /\ UNCHANGED <<disk, op, file, off, cnt, datum, tab, buf>>
    BY <1>5 DEF MapDirect
  <2>2. UNCHANGED <<addr, size, store, free, stuck, torn, op, file, off, cnt, datum>>
    BY <2>1 DEF disk
  <2>3. tab' \in {0} \cup Block /\ buf' \in Contents /\ phys' \in {0} \cup Block
    BY <1>0, <1>4, <2>1 DEF Base
  <2>4. pc' = "data" /\ phys' # 0 /\ phys' = Tree(addr, Shown)[Here]
    BY <1>3, <1>5, <2>1
  <2> QED
    BY <1>0, <1>1, <2>2, <2>3, <2>4, FoundInv
<1>6. CASE addr[file][Lbn] = 0 /\ Alloc /\ ~ AllocFails
  <2>1. /\ store' = Bdwrite(Allocated, Cleared)
        /\ addr' = [addr EXCEPT ![file][Lbn] = Allocated]
        /\ phys' = Allocated /\ pc' = "data"
        /\ UNCHANGED <<size, stuck, torn, op, file, off, cnt, datum, tab, buf>>
        /\ free' = Front(free) /\ free # << >>
    BY <1>6 DEF MapDirect, Alloc
  <2>2. Allocated \in Block /\ Allocated # 0 /\ free' \in Seq(Block)
    BY <1>0, <2>1, AllocIs
  <2>3. store' \in [Block -> Contents] /\ addr' \in Addrs
    BY <1>0, <2>1, <2>2, Consts DEF Base, Bdwrite, Addrs
  <2>4. Base'
    BY <1>0, <2>1, <2>2, <2>3 DEF Base
  <2>5. Lbn' = Lbn /\ Here' = Here
    BY <2>1 DEF Lbn, Here
  <2>6. InHand'
    BY <1>0, <1>1, <2>1, <2>2, <2>5 DEF InHand
  <2>7. Shown' = [Shown EXCEPT ![Allocated] = Cleared]
    <3>1. Shown' = Flat(store')
      BY <2>1, <2>4, ShownFlatNext DEF Flat
    <3> QED
      BY <1>0, <2>1, <2>2, <3>1 DEF Flat, Bdwrite, Base
  <2>8. Tree(addr, Shown)' = [Tree(addr, Shown) EXCEPT ![Here] = Allocated] =>
          (LookedUp(Tree(addr, Shown)))'
    BY <1>2, <2>1, <2>5 DEF LookedUp, Tree
  <2>9. PICK i, p : i = Lbn /\ p = Here
    OBVIOUS
  <2>10. Inv' /\ View' = View
    BY <1>2, <1>6, <2>1, <2>4, <2>6, <2>7, <2>8, <2>9, GivesTop
  <2> QED
    BY <2>1, <2>10
<1>7. CASE addr[file][Lbn] = 0 /\ AllocFails
  <2>1. Done /\ UNCHANGED <<addr, size, store, free, torn>> /\ stuck' = TRUE /\ free = << >>
    BY <1>7 DEF MapDirect, Alloc, AllocFails
  <2>2. torn' \in BOOLEAN
    BY <1>0, <2>1 DEF Base
  <2> QED
    BY <1>0, <2>1, <2>2, EndsInv
<1> QED
  BY <1>5, <1>6, <1>7 DEF MapDirect

LEMMA MapFirstInv ==
  ASSUME Inv, MapFirst, calls' \in 0 .. MaxCalls
  PROVE  Inv' /\ torn' = torn /\ (~ torn' => View' = View)
<1> DEFINE next == IF Entry >= SMALL + 2 THEN "second" ELSE "last"
<1>0. /\ pc = "turn" /\ cnt # 0 /\ (op = "read" => off < size[file])
      /\ Shown = Flat(store) /\ Base
  BY TurnIs DEF MapFirst
<1>1. Lbn < HUGE /\ Lbn \in Nat /\ Lbn >= SMALL
  <2>1. Lbn \in SMALL .. HUGE - 1
    BY DEF MapFirst
  <2>2. Lbn \in Nat
    BY <1>0, LbnIs
  <2> QED
    BY <2>1, <2>2, Sizes
<1>2. /\ Entry \in AddrIndex
      /\ next = "second" => Lbn >= LARGE /\ Up(Up(Here)) = <<file, Entry, None, None>>
      /\ next = "last" => Up(Here) = <<file, Entry, None, None>>
      /\ next \in {"second", "last"}
  <2>1. Lbn < LARGE \/ Lbn >= LARGE
    BY <1>1, Sizes
  <2>2. Lbn < LARGE => ~ (Entry >= SMALL + 2)
    <3>1. Lbn < LARGE => Entry \in Nat /\ Entry < SMALL + 2
      BY <1>0, <1>1, HereIs, Consts
    <3> HIDE DEF next
    <3> QED
      BY <3>1, Sizes
  <2> QED
    BY <1>0, <1>1, <2>1, <2>2, HereIs
<1>3. <<file, Entry, None, None>> \in Place
  BY <1>0, <1>2, IsPlace DEF Way, Base
<1>4. PICK e, p : e = Entry /\ p = <<file, Entry, None, None>>
  OBVIOUS
<1>5. p \in Place /\ e \in AddrIndex /\ p = <<file, e, None, None>>
  BY <1>2, <1>3, <1>4
<1>6. Tree(addr, Shown)[p] = addr[file][e]
  BY <1>5, TreeTop
<1>7. addr[file][e] \in {0} \cup Block
  BY <1>0, <1>5 DEF Base, Addrs
<1>8. CASE addr[file][e] # 0
  <2>1. /\ tab' = addr[file][e] /\ buf' = store[addr[file][e]] /\ pc' = next
        /\ UNCHANGED <<disk, op, file, off, cnt, datum, phys>>
    BY <1>4, <1>8 DEF MapFirst
  <2>2. UNCHANGED <<addr, size, store, free, stuck, torn, op, file, off, cnt, datum>>
    BY <2>1 DEF disk
  <2>3. tab' \in {0} \cup Block /\ buf' \in Contents /\ phys' \in {0} \cup Block
    BY <1>0, <1>7, <1>8, <2>1 DEF Base
  <2>4. /\ pc' = "second" => tab' = Tree(addr, Shown)[Up(Up(Here))] /\ Lbn >= LARGE
        /\ pc' = "last" => tab' = Tree(addr, Shown)[Up(Here)]
        /\ pc' \in {"second", "last"} /\ tab' # 0 /\ buf' = store[tab']
    BY <1>2, <1>4, <1>6, <1>8, <2>1
  <2> HIDE DEF next
  <2> QED
    BY <1>0, <1>1, <2>2, <2>3, <2>4, FoundInv
<1>9. CASE addr[file][e] = 0 /\ Alloc /\ ~ AllocFails
  <2>1. /\ addr' = [addr EXCEPT ![file][e] = Allocated]
        /\ tab' = Allocated /\ buf' = Cleared /\ pc' = next
        /\ UNCHANGED <<size, store, stuck, torn, op, file, off, cnt, datum, phys>>
        /\ free' = Front(free) /\ free # << >>
    BY <1>4, <1>9 DEF MapFirst, Alloc
  <2>2. Allocated \in Block /\ Allocated # 0 /\ free' \in Seq(Block)
    BY <1>0, <2>1, AllocIs
  <2>3. addr' \in Addrs
    BY <1>0, <1>5, <2>1, <2>2 DEF Base, Addrs
  <2>4. Base'
    BY <1>0, <1>2, <2>1, <2>2, <2>3, Consts DEF Base
  <2>5. Lbn' = Lbn /\ Here' = Here
    BY <2>1 DEF Lbn, Here
  <2>6. InHand'
    BY <1>0, <1>1, <1>2, <2>1, <2>2, <2>5 DEF InHand
  <2>7. Shown' = [Shown EXCEPT ![Allocated] = Cleared]
    <3>1. Shown' = [Flat(store') EXCEPT ![tab'] = buf']
      BY <1>2, <2>1, <2>2, <2>4, ShownFlatNext DEF Flat
    <3> QED
      BY <1>0, <2>1, <3>1
  <2>8. Tree(addr, Shown)' = [Tree(addr, Shown) EXCEPT ![p] = Allocated] =>
          (LookedUp(Tree(addr, Shown)))'
    <3> SUFFICES ASSUME Tree(addr, Shown)' = [Tree(addr, Shown) EXCEPT ![p] = Allocated]
                 PROVE  (LookedUp(Tree(addr, Shown)))'
      OBVIOUS
    <3>1. Tree(addr, Shown)'[p] = Allocated
      BY <1>5 DEF Tree
    <3>2. /\ pc' = "second" => Up(Up(Here'))= p
          /\ pc' = "last" => Up(Here') = p
          /\ pc' # "data"
      BY <1>2, <1>4, <2>1, <2>5
    <3> QED
      BY <2>1, <3>1, <3>2 DEF LookedUp
  <2>9. Inv' /\ View' = View
    BY <1>5, <1>9, <2>1, <2>4, <2>6, <2>7, <2>8, GivesTop
  <2> QED
    BY <2>1, <2>9
<1>10. CASE addr[file][e] = 0 /\ AllocFails
  <2>1. Done /\ UNCHANGED <<addr, size, store, free, torn>> /\ stuck' = TRUE /\ free = << >>
    BY <1>4, <1>10 DEF MapFirst, Alloc, AllocFails
  <2>2. torn' \in BOOLEAN
    BY <1>0, <2>1 DEF Base
  <2> QED
    BY <1>0, <2>1, <2>2, EndsInv
<1> QED
  BY <1>4, <1>8, <1>9, <1>10 DEF MapFirst

LEMMA InBuffer ==
  ASSUME Inv, pc \in {"second", "last"}
  PROVE  /\ tab \in Block /\ tab # 0 /\ Shown[tab] = buf /\ buf \in Contents
         /\ \A i \in Index : buf[i] # 0 => store[tab] = buf
<1>1. Base /\ tab # 0 /\ buf \in {store[tab], Cleared}
  BY DEF Inv, InHand
<1>2. tab \in Block /\ buf \in Contents
  BY <1>1 DEF Base
<1>3. Shown[tab] = buf
  BY <1>1, <1>2 DEF Shown
<1>4. \A i \in Index : Cleared[i] = 0
  BY DEF Cleared
<1> QED
  BY <1>1, <1>2, <1>3, <1>4

LEMMA MapSecondInv ==
  ASSUME Inv, MapSecond, calls' \in 0 .. MaxCalls
  PROVE  Inv' /\ (torn => torn') /\ (~ torn' => View' = View)
<1>0. /\ pc = "second" /\ Base /\ cnt # 0 /\ Lbn < HUGE /\ Lbn >= LARGE
      /\ op = "read" => off < size[file]
  BY DEF MapSecond, Inv, InHand
<1>1. /\ tab \in Block /\ tab # 0 /\ Shown[tab] = buf /\ buf \in Contents
      /\ \A i \in Index : buf[i] # 0 => store[tab] = buf
  BY <1>0, InBuffer
<1>2. PICK i, p : i = Outer /\ p = Up(Here)
  OBVIOUS
<1>3. i \in Index /\ p \in Place /\ p[3] # None /\ Slot(p) = i /\ Lbn >= SMALL /\ Up(p) = Up(Up(Here))
  BY <1>0, <1>2, HereIs
<1>4. buf[i] \in {0} \cup Block
  BY <1>1, <1>3 DEF Contents
<1>5. ASSUME ~ torn
      PROVE  Tree(addr, Shown)[Up(p)] = tab /\ Tree(addr, Shown)[p] = buf[i]
  <2>1. Tree(addr, Shown)[Up(p)] = tab
    BY <1>0, <1>3, <1>5 DEF Inv, Whole, LookedUp
  <2>2. Up(p) \in Place
    BY <1>3, UpIs
  <2>3. At(addr, Shown, p) = Shown[At(addr, Shown, Up(p))][Slot(p)]
    BY ONLY <1>3 DEF At, Up, Slot
  <2>4. Tree(addr, Shown)[Up(p)] = At(addr, Shown, Up(p)) /\ Tree(addr, Shown)[p] = At(addr, Shown, p)
    BY <1>3, <2>2 DEF Tree
  <2> QED
    BY <1>1, <1>3, <2>1, <2>3, <2>4
<1>6. CASE buf[i] # 0
  <2>1. /\ torn' = (torn \/ (tab # 0 /\ store[tab] # buf))
        /\ tab' = buf[i] /\ buf' = store[buf[i]] /\ pc' = "last"
        /\ UNCHANGED <<addr, size, store, free, stuck, op, file, off, cnt, datum, phys>>
    BY <1>2, <1>6 DEF MapSecond, Brelse
  <2>2. store[tab] = buf
    BY <1>1, <1>3, <1>6
  <2>3. torn' = torn
    BY <1>0, <2>1, <2>2 DEF Base
  <2>4. tab' \in {0} \cup Block /\ buf' \in Contents /\ phys' \in {0} \cup Block /\ tab' # 0
    BY <1>0, <1>4, <1>6, <2>1 DEF Base
  <2>5. ~ torn => tab' = Tree(addr, Shown)[Up(Here)]
    BY <1>2, <1>5, <2>1
  <2>6. Inv' /\ (~ torn' => View' = View)
    BY <1>0, <1>3, <2>1, <2>2, <2>3, <2>4, <2>5, FoundInv
  <2> QED
    BY <2>3, <2>6
<1>7. CASE buf[i] = 0 /\ Alloc /\ ~ AllocFails
  <2>1. /\ store' = Bdwrite(tab, Recorded(i))
        /\ tab' = Allocated /\ buf' = Cleared /\ pc' = "last"
        /\ UNCHANGED <<addr, size, stuck, torn, op, file, off, cnt, datum, phys>>
        /\ free' = Front(free) /\ free # << >> /\ ~ torn
    BY <1>2, <1>7 DEF MapSecond, Alloc, Inv, TornMeansStuck, Recorded
  <2>2. Allocated \in Block /\ Allocated # 0 /\ free' \in Seq(Block)
    BY <1>0, <2>1, AllocIs
  <2>3. Recorded(i) = [buf EXCEPT ![i] = Allocated] /\ Recorded(i) \in Contents
    BY <1>1, <1>3, <2>2 DEF Recorded, Contents
  <2>4. store' = [store EXCEPT ![tab] = Recorded(i)] /\ store' \in [Block -> Contents]
    BY <1>0, <2>1, <2>3 DEF Base, Bdwrite
  <2>5. Base'
    BY <1>0, <2>1, <2>2, <2>4, Consts DEF Base
  <2>6. Lbn' = Lbn /\ Here' = Here
    BY <2>1 DEF Lbn, Here
  <2>7. InHand'
    BY <1>0, <1>3, <2>1, <2>2, <2>6 DEF InHand
  <2>8. Shown' = [Shown EXCEPT ![tab] = [Shown[tab] EXCEPT ![Slot(p)] = Allocated],
                               ![Allocated] = Cleared]
    <3>1. Shown' = [Flat(store') EXCEPT ![tab'] = buf']
      BY <2>1, <2>2, <2>5, ShownFlatNext DEF Flat
    <3>2. Shown = [Flat(store) EXCEPT ![tab] = buf]
      BY <1>0, <1>1, ShownFlat
    <3>3. Flat(store') = [Flat(store) EXCEPT ![tab] = Recorded(i)]
      BY <1>0, <1>1, <2>4 DEF Flat, Base
    <3>4. Flat(store) \in [{0} \cup Block -> Contents]
      BY <1>0, Consts DEF Flat, Base
    <3>5. PICK fl, r, c : fl = Flat(store) /\ r = Recorded(i) /\ c = [Shown[tab] EXCEPT ![Slot(p)] = Allocated]
      OBVIOUS
    <3>6. c = r
      BY <1>1, <1>3, <2>3, <3>5
    <3>7. Shown' = [[fl EXCEPT ![tab] = r] EXCEPT ![Allocated] = Cleared]
      BY <2>1, <3>1, <3>3, <3>5
    <3>8. Shown = [fl EXCEPT ![tab] = buf] /\ fl \in [{0} \cup Block -> Contents]
      BY <3>2, <3>4, <3>5
    <3>9. [Shown EXCEPT ![tab] = r, ![Allocated] = Cleared]
            = [[fl EXCEPT ![tab] = r] EXCEPT ![Allocated] = Cleared]
      BY ONLY <3>8
    <3> QED
      BY <3>5, <3>6, <3>7, <3>9
  <2>9. Tree(addr, Shown)' = [Tree(addr, Shown) EXCEPT ![p] = Allocated] =>
          (LookedUp(Tree(addr, Shown)))'
    BY <1>2, <1>3, <2>1, <2>6 DEF LookedUp, Tree
  <2>10. Tree(addr, Shown)[Up(p)] = tab /\ Shown[tab][Slot(p)] = 0
    BY <1>1, <1>3, <1>5, <1>7, <2>1
  <2>11. Inv' /\ View' = View
    BY <1>1, <1>3, <1>7, <2>1, <2>5, <2>7, <2>8, <2>9, <2>10, GivesBelow
  <2> QED
    BY <2>1, <2>11
<1>8. CASE buf[i] = 0 /\ AllocFails
  <2>1. /\ Done /\ UNCHANGED <<addr, size, store, free>> /\ stuck' = TRUE /\ free = << >>
        /\ torn' = (torn \/ (tab # 0 /\ store[tab] # buf))
    BY <1>2, <1>8 DEF MapSecond, Alloc, AllocFails, Brelse
  <2>2. torn' \in BOOLEAN /\ (torn => torn') /\ (~ torn' => store[tab] = buf)
    BY <1>1, <2>1
  <2>3. Inv' /\ (~ torn' => View' = View)
    BY <2>1, <2>2, EndsInv
  <2> QED
    BY <2>2, <2>3
<1> QED
  BY <1>2, <1>6, <1>7, <1>8 DEF MapSecond

LEMMA MapLastInv ==
  ASSUME Inv, MapLast, calls' \in 0 .. MaxCalls
  PROVE  Inv' /\ (torn => torn') /\ (~ torn' => View' = View)
<1>0. /\ pc = "last" /\ Base /\ cnt # 0 /\ Lbn < HUGE /\ Lbn >= SMALL
      /\ op = "read" => off < size[file]
  BY DEF MapLast, Inv, InHand
<1>1. /\ tab \in Block /\ tab # 0 /\ Shown[tab] = buf /\ buf \in Contents
      /\ \A i \in Index : buf[i] # 0 => store[tab] = buf
  BY <1>0, InBuffer
<1>2. PICK i, p : i = Inner /\ p = Here
  OBVIOUS
<1>3. i \in Index /\ p \in Place /\ p[3] # None /\ Slot(p) = i
  BY <1>0, <1>2, HereIs
<1>4. buf[i] \in {0} \cup Block
  BY <1>1, <1>3 DEF Contents
<1>5. ASSUME ~ torn
      PROVE  Tree(addr, Shown)[Up(p)] = tab /\ Tree(addr, Shown)[p] = buf[i]
  <2>1. Tree(addr, Shown)[Up(p)] = tab
    BY <1>0, <1>2, <1>5 DEF Inv, Whole, LookedUp
  <2>2. Up(p) \in Place
    BY <1>3, UpIs
  <2>3. At(addr, Shown, p) = Shown[At(addr, Shown, Up(p))][Slot(p)]
    BY ONLY <1>3 DEF At, Up, Slot
  <2>4. Tree(addr, Shown)[Up(p)] = At(addr, Shown, Up(p)) /\ Tree(addr, Shown)[p] = At(addr, Shown, p)
    BY <1>3, <2>2 DEF Tree
  <2> QED
    BY <1>1, <1>3, <2>1, <2>3, <2>4
<1>6. CASE buf[i] # 0
  <2>1. /\ torn' = (torn \/ (tab # 0 /\ store[tab] # buf))
        /\ phys' = buf[i] /\ pc' = "data"
        /\ UNCHANGED <<addr, size, store, free, stuck, op, file, off, cnt, datum, tab, buf>>
    BY <1>2, <1>6 DEF MapLast, Brelse
  <2>2. store[tab] = buf
    BY <1>1, <1>3, <1>6
  <2>3. torn' = torn
    BY <1>0, <2>1, <2>2 DEF Base
  <2>4. tab' \in {0} \cup Block /\ buf' \in Contents /\ phys' \in {0} \cup Block /\ phys' # 0
    BY <1>0, <1>4, <1>6, <2>1 DEF Base
  <2>5. ~ torn => phys' = Tree(addr, Shown)[Here]
    BY <1>2, <1>5, <2>1
  <2>6. Inv' /\ (~ torn' => View' = View)
    BY <1>0, <1>3, <2>1, <2>2, <2>3, <2>4, <2>5, FoundInv
  <2> QED
    BY <2>3, <2>6
<1>7. CASE buf[i] = 0 /\ Alloc /\ ~ AllocFails
  <2>1. /\ store' = [Bdwrite(tab, Recorded(i)) EXCEPT ![Allocated] = Cleared]
        /\ phys' = Allocated /\ pc' = "data"
        /\ UNCHANGED <<addr, size, stuck, torn, op, file, off, cnt, datum, tab, buf>>
        /\ free' = Front(free) /\ free # << >> /\ ~ torn
    BY <1>2, <1>7 DEF MapLast, Alloc, Inv, TornMeansStuck, Recorded
  <2>2. Allocated \in Block /\ Allocated # 0 /\ free' \in Seq(Block)
    BY <1>0, <2>1, AllocIs
  <2>3. Recorded(i) = [buf EXCEPT ![i] = Allocated] /\ Recorded(i) \in Contents
    BY <1>1, <1>3, <2>2 DEF Recorded, Contents
  <2>4. /\ store' = [[store EXCEPT ![tab] = Recorded(i)] EXCEPT ![Allocated] = Cleared]
        /\ store' \in [Block -> Contents]
    BY <1>0, <2>1, <2>3, Consts DEF Base, Bdwrite
  <2>5. Base'
    BY <1>0, <2>1, <2>2, <2>4, Consts DEF Base
  <2>6. Lbn' = Lbn /\ Here' = Here
    BY <2>1 DEF Lbn, Here
  <2>7. InHand'
    BY <1>0, <1>3, <2>1, <2>2, <2>6 DEF InHand
  <2>8. Shown' = [Shown EXCEPT ![tab] = [Shown[tab] EXCEPT ![Slot(p)] = Allocated],
                               ![Allocated] = Cleared]
    <3>1. Shown' = Flat(store')
      BY <2>1, <2>5, ShownFlatNext DEF Flat
    <3>2. Shown = [Flat(store) EXCEPT ![tab] = buf]
      BY <1>0, <1>1, ShownFlat
    <3>3. Flat(store') = [[Flat(store) EXCEPT ![tab] = Recorded(i)] EXCEPT ![Allocated] = Cleared]
      BY <1>0, <1>1, <2>2, <2>4 DEF Flat, Base
    <3>4. Flat(store) \in [{0} \cup Block -> Contents]
      BY <1>0, Consts DEF Flat, Base
    <3>5. PICK fl, r, c : fl = Flat(store) /\ r = Recorded(i) /\ c = [Shown[tab] EXCEPT ![Slot(p)] = Allocated]
      OBVIOUS
    <3>6. c = r
      BY <1>1, <1>3, <2>3, <3>5
    <3>7. Shown' = [[fl EXCEPT ![tab] = r] EXCEPT ![Allocated] = Cleared]
      BY <3>1, <3>3, <3>5
    <3>8. Shown = [fl EXCEPT ![tab] = buf] /\ fl \in [{0} \cup Block -> Contents]
      BY <3>2, <3>4, <3>5
    <3>9. [Shown EXCEPT ![tab] = r, ![Allocated] = Cleared]
            = [[fl EXCEPT ![tab] = r] EXCEPT ![Allocated] = Cleared]
      BY ONLY <3>8
    <3> QED
      BY <3>5, <3>6, <3>7, <3>9
  <2>9. Tree(addr, Shown)' = [Tree(addr, Shown) EXCEPT ![p] = Allocated] =>
          (LookedUp(Tree(addr, Shown)))'
    BY <1>2, <1>3, <2>1, <2>6 DEF LookedUp, Tree
  <2>10. Tree(addr, Shown)[Up(p)] = tab /\ Shown[tab][Slot(p)] = 0
    BY <1>1, <1>3, <1>5, <1>7, <2>1
  <2>11. Inv' /\ View' = View
    BY <1>1, <1>3, <1>7, <2>1, <2>5, <2>7, <2>8, <2>9, <2>10, GivesBelow
  <2> QED
    BY <2>1, <2>11
<1>8. CASE buf[i] = 0 /\ AllocFails
  <2>1. /\ Done /\ UNCHANGED <<addr, size, store, free>> /\ stuck' = TRUE /\ free = << >>
        /\ torn' = (torn \/ (tab # 0 /\ store[tab] # buf))
    BY <1>2, <1>8 DEF MapLast, Alloc, AllocFails, Brelse
  <2>2. torn' \in BOOLEAN /\ (torn => torn') /\ (~ torn' => store[tab] = buf)
    BY <1>1, <2>1
  <2>3. Inv' /\ (~ torn' => View' = View)
    BY <2>1, <2>2, EndsInv
  <2> QED
    BY <2>2, <2>3
<1> QED
  BY <1>2, <1>6, <1>7, <1>8 DEF MapLast

\* ReadI's and WriteI's turn: n units from off on, in one block.
LEMMA TurnSize ==
  ASSUME Inv, pc = "data"
  PROVE  /\ Base /\ off \in Nat /\ cnt \in Nat /\ cnt # 0 /\ Lbn \in Nat /\ Lbn < HUGE
         /\ off % PerBlock \in 0 .. PerBlock - 1 /\ PerBlock - (off % PerBlock) \in 1 .. PerBlock
         /\ \A n \in Nat : n <= PerBlock - (off % PerBlock) => off + n <= HUGE * PerBlock
         /\ Shown = Flat(store) /\ phys \in Block /\ phys # 0 /\ Shown[phys] = store[phys]
<1>1. Base /\ off \in Nat /\ cnt \in Nat /\ cnt # 0 /\ Lbn < HUGE /\ phys \in Block /\ phys # 0
  BY DEF Inv, InHand, Base
<1>2. /\ off = PerBlock * Lbn + (off % PerBlock) /\ Lbn \in Nat
      /\ off % PerBlock \in 0 .. PerBlock - 1
  BY <1>1, DivMod, Sizes DEF Lbn
<1>3. PICK P, L, r, o, h : P = PerBlock /\ L = Lbn /\ r = off % PerBlock /\ o = off /\ h = HUGE
  OBVIOUS
<1>4. /\ P \in Nat \ {0} /\ L \in Nat /\ r \in 0 .. P - 1 /\ o = P * L + r /\ h \in Nat /\ L < h
  BY <1>1, <1>2, <1>3, Sizes
<1>5. ASSUME NEW n \in Nat, n <= P - r PROVE o + n <= h * P
  <2>1. P * (h - L - 1) \in Nat /\ P * h = P * (h - L - 1) + P * L + P /\ P * h = h * P
    BY <1>4
  <2>2. P * L \in Nat /\ P * h \in Nat
    BY <1>4
  <2> QED
    BY <1>4, <1>5, <2>1, <2>2
<1>6. P - r \in 1 .. P
  BY <1>4
<1>7. Shown = Flat(store) /\ Shown[phys] = store[phys]
  BY <1>1, ShownFlat DEF Flat
<1> QED
  BY <1>1, <1>2, <1>3, <1>5, <1>6, <1>7

LEMMA LeastIs ==
  ASSUME NEW a \in Int, NEW b \in Int
  PROVE  Least(a, b) \in Int /\ Least(a, b) <= a /\ Least(a, b) <= b /\ Least(a, b) \in {a, b}
BY DEF Least

\* ReadI's turn reads what is there.
LEMMA ReadTurnInv ==
  ASSUME Inv, ReadTurn, calls' \in 0 .. MaxCalls
  PROVE  /\ Inv' /\ torn' = torn
         /\ ~ torn =>
              /\ View' = View /\ size' = size
              /\ \E n \in 1 .. PerBlock :
                   /\ off \in 0 .. HUGE * PerBlock - 1 /\ off + n <= size[file]
                   /\ out' = [i \in 1 .. n |-> View[file][off + i - 1]]
<1> DEFINE m == Least(PerBlock - (off % PerBlock), cnt)
           n == Least(m, size[file] - off)
<1>0. pc = "data" /\ op = "read" /\ pc' = "turn"
  BY DEF ReadTurn, Goto
<1>1. /\ Base /\ off \in Nat /\ cnt \in Nat /\ cnt # 0 /\ Lbn \in Nat /\ Lbn < HUGE
      /\ off % PerBlock \in 0 .. PerBlock - 1 /\ PerBlock - (off % PerBlock) \in 1 .. PerBlock
      /\ \A k \in Nat : k <= PerBlock - (off % PerBlock) => off + k <= HUGE * PerBlock
      /\ Shown = Flat(store) /\ phys \in Block /\ phys # 0 /\ Shown[phys] = store[phys]
  BY <1>0, TurnSize
<1>2. off < size[file] /\ size[file] \in 0 .. HUGE * PerBlock /\ PerBlock \in Nat \ {0}
  BY <1>0, <1>1, Sizes DEF Inv, InHand, Base
<1>3. /\ n \in 1 .. PerBlock /\ n <= cnt /\ n <= PerBlock - (off % PerBlock)
      /\ off + n <= size[file]
  <2>1. /\ m \in Int /\ m <= PerBlock - (off % PerBlock) /\ m <= cnt
        /\ m \in {PerBlock - (off % PerBlock), cnt}
    <3>1. PICK a, b : a = PerBlock - (off % PerBlock) /\ b = cnt
      OBVIOUS
    <3>2. a \in Int /\ b \in Int /\ m = Least(a, b)
      BY <1>1, <3>1
    <3> HIDE DEF m
    <3>3. m \in Int /\ m <= a /\ m <= b /\ m \in {a, b}
      BY <3>2, LeastIs
    <3> QED
      BY <3>1, <3>3
  <2>2. size[file] - off \in Int
    BY <1>1, <1>2
  <2> HIDE DEF m
  <2>3. n \in Int /\ n <= m /\ n <= size[file] - off /\ n \in {m, size[file] - off}
    <3>1. PICK a, b : a = m /\ b = size[file] - off
      OBVIOUS
    <3>2. a \in Int /\ b \in Int /\ n = Least(a, b)
      BY <2>1, <2>2, <3>1
    <3> HIDE DEF n
    <3>3. n \in Int /\ n <= a /\ n <= b /\ n \in {a, b}
      BY <3>2, LeastIs
    <3> QED
      BY <3>1, <3>3
  <2> HIDE DEF n
  <2> QED
    BY <1>1, <1>2, <2>1, <2>3
<1>4. /\ out' = [i \in 1 .. n |-> store[phys][(off % PerBlock) + i - 1]]
      /\ off' = off + n /\ cnt' = cnt - n
      /\ tab' = 0 /\ buf' = Cleared /\ phys' = 0
      /\ UNCHANGED <<disk, op, file, datum>>
  BY DEF ReadTurn
<1> HIDE DEF n
<1>5. Base'
  BY <1>0, <1>1, <1>3, <1>4, Consts DEF Base, disk
<1>6. InHand' /\ TornMeansStuck' /\ (LookedUp(Tree(addr, Shown)))'
  BY <1>0, <1>4 DEF Inv, InHand, TornMeansStuck, LookedUp, disk
<1>7. Shown' = Shown
  <2>1. Shown' = Flat(store)
    BY <1>0, <1>4, <1>5, ShownFlatNext DEF disk
  <2> QED
    BY <1>1, <2>1
<1>8. ASSUME ~ torn PROVE Whole' /\ View' = View
  BY <1>4, <1>6, <1>7, <1>8, SameWhole DEF Inv, disk
<1>9. Inv' /\ torn' = torn
  BY <1>4, <1>5, <1>6, <1>8 DEF Inv, disk
<1>10. ASSUME ~ torn
       PROVE  /\ off \in 0 .. HUGE * PerBlock - 1
              /\ out' = [i \in 1 .. n |-> View[file][off + i - 1]]
  <2>0. PICK M : M = HUGE * PerBlock
    OBVIOUS
  <2>1. M \in Nat /\ size[file] <= M /\ off \in 0 .. M - 1
    BY <1>1, <1>2, <2>0, Sizes
  <2>2. phys = At(addr, Shown, Here)
    <3>1. phys = Tree(addr, Shown)[Here] /\ Here \in Place
      BY <1>0, <1>1, <1>10, HereIs DEF Inv, Whole, LookedUp
    <3> QED
      BY <3>1 DEF Tree
  <2>3. ASSUME NEW i \in 1 .. n
        PROVE  View[file][off + i - 1] = store[phys][(off % PerBlock) + i - 1]
    <3>1. PICK o, k, u, P, r : /\ o = off /\ k = n /\ u = off + i - 1 /\ P = PerBlock
                               /\ r = off % PerBlock
      OBVIOUS
    <3>2. u \in 0 .. HUGE * PerBlock - 1 /\ u \in Nat
      BY <1>1, <1>2, <1>3, <2>0, <2>1, <3>1
    <3>3. u \div PerBlock = o \div PerBlock
      <4>1. o \in Nat /\ k \in Nat /\ k <= PerBlock - (o % PerBlock) /\ u \in o .. o + k - 1
        BY <1>1, <1>3, <3>1
      <4> QED
        BY <3>2, <4>1, UnitsOfBlock
    <3>4. u % PerBlock = (off % PerBlock) + i - 1
      <4>1. /\ u = P * (u \div P) + (u % P) /\ o = P * (o \div P) + r
            /\ u % P \in Nat /\ r \in Nat /\ P * (o \div P) \in Nat
        <5>1. P \in Nat \ {0} /\ o \in Nat /\ u \in Nat /\ r = o % P
          BY <1>1, <1>2, <3>1, <3>2
        <5>2. u = P * (u \div P) + (u % P) /\ u % P \in 0 .. P - 1
          BY <5>1, DivMod
        <5>3. o = P * (o \div P) + (o % P) /\ o % P \in 0 .. P - 1 /\ o \div P \in Nat
          BY <5>1, DivMod
        <5>4. P * (o \div P) \in Nat
          BY <5>1, <5>3
        <5> QED
          BY <5>1, <5>2, <5>3, <5>4
      <4>2. u = o + i - 1
        BY <3>1
      <4> QED
        BY <1>1, <3>1, <3>3, <4>1, <4>2
    <3>5. View[file][u] = Shown[At(addr, Shown, DataPlace(file, u \div PerBlock))][u % PerBlock]
      BY <1>1, <3>2 DEF View, Content, Base
    <3>6. DataPlace(file, u \div PerBlock) = Here
      BY <3>1, <3>3 DEF Here, Lbn
    <3> QED
      BY <1>1, <2>2, <3>1, <3>4, <3>5, <3>6
  <2> QED
    BY <1>4, <2>0, <2>1, <2>3
<1> QED
  BY <1>3, <1>4, <1>8, <1>9, <1>10 DEF disk

\* WriteI's turn changes the units it names, and no others.
LEMMA WriteTurnInv ==
  ASSUME Inv, WriteTurn, calls' \in 0 .. MaxCalls
  PROVE  /\ Inv' /\ torn' = torn /\ out' = << >>
         /\ ~ torn =>
              \E n \in 1 .. PerBlock :
                /\ off \in 0 .. HUGE * PerBlock - 1 /\ off + n <= HUGE * PerBlock
                /\ View' = WrittenUnits(View, file, off, n, datum)
                /\ size' = [size EXCEPT ![file] =
                              IF size[file] < off + n THEN off + n ELSE size[file]]
<1> DEFINE n == Least(PerBlock - (off % PerBlock), cnt)
           c == [i \in Index |-> IF i \in (off % PerBlock) .. (off % PerBlock) + n - 1
                                 THEN datum ELSE store[phys][i]]
<1>0. pc = "data" /\ pc' = "turn"
  BY DEF WriteTurn, Goto
<1>1. /\ Base /\ off \in Nat /\ cnt \in Nat /\ cnt # 0 /\ Lbn \in Nat /\ Lbn < HUGE
      /\ off % PerBlock \in 0 .. PerBlock - 1 /\ PerBlock - (off % PerBlock) \in 1 .. PerBlock
      /\ \A k \in Nat : k <= PerBlock - (off % PerBlock) => off + k <= HUGE * PerBlock
      /\ Shown = Flat(store) /\ phys \in Block /\ phys # 0 /\ Shown[phys] = store[phys]
  BY <1>0, TurnSize
<1>2. PerBlock \in Nat \ {0} /\ HUGE * PerBlock \in Nat /\ datum \in Block /\ file \in File
  BY <1>1, Sizes, Consts DEF Base
<1>3. /\ n \in 1 .. PerBlock /\ n <= PerBlock - (off % PerBlock) /\ n <= cnt
      /\ off + n <= HUGE * PerBlock
  <2>1. PICK a, b : a = PerBlock - (off % PerBlock) /\ b = cnt
    OBVIOUS
  <2>2. a \in Int /\ b \in Int /\ n = Least(a, b)
    BY <1>1, <2>1
  <2> HIDE DEF n
  <2>3. n \in Int /\ n <= a /\ n <= b /\ n \in {a, b}
    BY <2>2, LeastIs
  <2> QED
    BY <1>1, <1>2, <2>1, <2>3
<1>4. /\ store' = [store EXCEPT ![phys] = c]
      /\ off' = off + n /\ cnt' = cnt - n
      /\ size' = [size EXCEPT ![file] = IF size[file] < off + n THEN off + n ELSE size[file]]
      /\ tab' = 0 /\ buf' = Cleared /\ phys' = 0 /\ out' = << >>
      /\ UNCHANGED <<addr, free, stuck, torn, op, file, datum>>
  BY DEF WriteTurn, Bdwrite, Extended
<1> HIDE DEF n
<1>5. c \in Contents
  BY <1>1, <1>2 DEF Base, Contents
<1>6. [Shown EXCEPT ![phys] = c] = Overwritten(Shown, phys, off % PerBlock, n, datum)
  BY <1>1 DEF Overwritten
<1> HIDE DEF c
<1>7. Base'
  <2>1. store' \in [Block -> Contents]
    BY <1>1, <1>4, <1>5 DEF Base
  <2>2. size' \in [File -> 0 .. HUGE * PerBlock]
    <3>1. PICK M : M = HUGE * PerBlock
      OBVIOUS
    <3>2. M \in Nat /\ off + n \in 0 .. M /\ size \in [File -> 0 .. M]
      BY <1>1, <1>2, <1>3, <3>1 DEF Base
    <3>3. size' \in [File -> 0 .. M]
      BY <1>4, <3>2
    <3> QED
      BY <3>1, <3>3
  <2>3. off' \in Nat /\ cnt' \in Nat
    BY <1>1, <1>3, <1>4
  <2> QED
    BY <1>0, <1>1, <1>4, <2>1, <2>2, <2>3, Consts DEF Base
<1>8. InHand' /\ TornMeansStuck' /\ (LookedUp(Tree(addr, Shown)))'
  BY <1>0, <1>4 DEF Inv, InHand, TornMeansStuck, LookedUp
<1>9. Shown' = [Shown EXCEPT ![phys] = c]
  <2>1. Shown' = Flat(store')
    BY <1>0, <1>7, ShownFlatNext
  <2> QED
    BY <1>1, <1>4, <2>1 DEF Flat, Base
<1>10. ASSUME ~ torn
       PROVE  /\ Tree(addr, Shown)' = Tree(addr, Shown)
              /\ View' = WrittenUnits(View, file, off, n, datum)
  <2>1. PICK a, v, w, f, o, k, d, t : /\ a = addr /\ v = Shown /\ w = Shown' /\ f = file
                                      /\ o = off /\ k = n /\ d = datum /\ t = phys
    OBVIOUS
  <2>2. Sound(Tree(a, v), free)
    BY <1>10, <2>1 DEF Inv, Whole
  <2>3. /\ a \in Addrs /\ v \in Shows /\ f \in File /\ o \in Nat /\ k \in Nat /\ d \in Block
        /\ o \div PerBlock < HUGE /\ k <= PerBlock - (o % PerBlock) /\ t \in Block
    BY <1>1, <1>2, <1>3, <2>1, ShownIs DEF Base, Lbn
  <2>4. Tree(a, v)[DataPlace(f, o \div PerBlock)] = t
    BY <1>0, <1>10, <2>1 DEF Inv, Whole, LookedUp, Here, Lbn
  <2>5. w = Overwritten(v, t, o % PerBlock, k, d)
    BY <1>6, <1>9, <2>1
  <2>6. \A q, r \in Place : Tree(a, v)[q] = Tree(a, v)[r] /\ Tree(a, v)[q] # 0 => q = r
    BY <2>2 DEF Sound
  <2>7. /\ Tree(a, w) = Tree(a, v)
        /\ Content(a, w) = WrittenUnits(Content(a, v), f, o, k, d)
    BY ONLY <2>3, <2>4, <2>5, <2>6, WrittenContent
  <2> QED
    BY <1>4, <2>1, <2>7 DEF View
<1>11. ~ torn => Whole'
  BY <1>4, <1>8, <1>10 DEF Inv, Whole
<1>12. off \in 0 .. HUGE * PerBlock - 1
  <2>1. PICK M, o, k : M = HUGE * PerBlock /\ o = off /\ k = n
    OBVIOUS
  <2>2. M \in Nat /\ o \in Nat /\ k \in Nat \ {0} /\ o + k <= M
    BY <1>1, <1>2, <1>3, <2>1
  <2>3. o \in 0 .. M - 1
    BY <2>2
  <2> QED
    BY <2>1, <2>3
<1>13. Inv' /\ torn' = torn /\ out' = << >>
  BY <1>4, <1>7, <1>8, <1>11 DEF Inv
<1>14. ASSUME ~ torn
       PROVE  \E k \in 1 .. PerBlock :
                /\ off \in 0 .. HUGE * PerBlock - 1 /\ off + k <= HUGE * PerBlock
                /\ View' = WrittenUnits(View, file, off, k, datum)
                /\ size' = [size EXCEPT ![file] =
                              IF size[file] < off + k THEN off + k ELSE size[file]]
  BY <1>3, <1>4, <1>10, <1>12, <1>14
<1> QED
  BY <1>13, <1>14

-----------------------------------------------------------------------------
(***************************************************************************)
(* ITrunc: between two calls, what it goes through is the blocks of the    *)
(* file, each once.                                                        *)
(***************************************************************************)
Now == Tree(addr, Flat(store))

Settled == Base /\ Sound(Now, free)

\* The blocks an index block names, and those that have their place below an entry
\* of i_addr.
Under(b) == {store[b][j] : j \in Index} \ {0}

Held(f, i) == {Now[p] : p \in {q \in Place : q[1] = f /\ q[2] = i}} \ {0}

LEMMA FlatIs ==
  ASSUME Base
  PROVE  /\ Flat(store) \in Shows /\ Flat(store)[0] = Cleared
         /\ \A b \in Block : b # 0 /\ Flat(store)[b] = store[b] /\ store[b] \in Contents
         /\ \A b \in Block, j \in Index : store[b][j] \in {0} \cup Block
BY Consts DEF Base, Flat, Shows, Contents

\* The places below an entry of i_addr, by their depth.
LEMMA PlacesBelow ==
  ASSUME Base, NEW f \in File, NEW i \in AddrIndex
  PROVE  /\ addr[f][i] \in {0} \cup Block
         /\ <<f, i, None, None>> \in Place /\ Now[<<f, i, None, None>>] = addr[f][i]
         /\ i >= SMALL => \A j \in Index :
              /\ <<f, i, j, None>> \in Place
              /\ Now[<<f, i, j, None>>] = Flat(store)[addr[f][i]][j]
         /\ i >= SMALL + 2 => \A j, k \in Index :
              /\ <<f, i, j, k>> \in Place
              /\ Now[<<f, i, j, k>>] = Flat(store)[Flat(store)[addr[f][i]][j]][k]
<1>1. addr[f][i] \in {0} \cup Block
  BY DEF Base, Addrs
<1>2. None \in Way /\ Index \subseteq Way /\ None \notin Index
  BY Consts DEF Way
<1>3. i \in Nat /\ SMALL \in Nat
  BY Consts
<1>4. <<f, i, None, None>> \in Place
  BY <1>2, IsPlace
<1>5. ASSUME i >= SMALL, NEW j \in Index PROVE <<f, i, j, None>> \in Place
  BY <1>2, <1>5, IsPlace
<1>6. ASSUME i >= SMALL + 2, NEW j \in Index, NEW k \in Index PROVE <<f, i, j, k>> \in Place
  BY <1>2, <1>3, <1>6, IsPlace
<1>7. i >= SMALL + 2 => i >= SMALL
  BY <1>3
<1> QED
  BY <1>1, <1>2, <1>4, <1>5, <1>6, <1>7 DEF Now, Tree, At

\* A place below an entry of i_addr is one of these.
LEMMA PlaceBelow ==
  ASSUME NEW p \in Place
  PROVE  LET f == p[1]  i == p[2]
         IN  \/ p = <<f, i, None, None>>
             \/ i >= SMALL /\ \E j \in Index : p = <<f, i, j, None>>
             \/ i >= SMALL + 2 /\ \E j, k \in Index : p = <<f, i, j, k>>
BY PlaceIs DEF Way

LEMMA InHeld ==
  ASSUME NEW f, NEW i, NEW p \in Place, p[1] = f, p[2] = i, Now[p] # 0
  PROVE  Now[p] \in Held(f, i)
BY DEF Held

LEMMA OfHeld ==
  ASSUME NEW f, NEW i, NEW x \in Held(f, i)
  PROVE  x # 0 /\ \E p \in Place : p[1] = f /\ p[2] = i /\ x = Now[p]
BY DEF Held

LEMMA HeldIs ==
  ASSUME Base, NEW f \in File, NEW i \in AddrIndex, NEW b, b = addr[f][i]
  PROVE  /\ b = 0 => Held(f, i) = {}
         /\ b # 0 /\ i < SMALL => Held(f, i) = {b}
         /\ b # 0 /\ i >= SMALL /\ i < SMALL + 2 => Held(f, i) = Under(b) \cup {b}
         /\ b # 0 /\ i >= SMALL + 2 =>
              Held(f, i) = (UNION {Under(c) \cup {c} : c \in Under(b)}) \cup {b}
<1> DEFINE v == Flat(store)
           Two == UNION {Under(c) \cup {c} : c \in Under(b)}
<1>1. /\ v[0] = Cleared /\ (\A j \in Index : Cleared[j] = 0)
      /\ \A c \in Block : c # 0 /\ v[c] = store[c]
      /\ \A c \in Block, j \in Index : store[c][j] \in {0} \cup Block
  BY FlatIs DEF Cleared
<1>2. i \in Nat /\ SMALL \in Nat
  BY Consts
<1> HIDE DEF v
<1>3. /\ b \in {0} \cup Block
      /\ <<f, i, None, None>> \in Place /\ Now[<<f, i, None, None>>] = b
      /\ i >= SMALL => \A j \in Index :
           <<f, i, j, None>> \in Place /\ Now[<<f, i, j, None>>] = v[b][j]
      /\ i >= SMALL + 2 => \A j, k \in Index :
           <<f, i, j, k>> \in Place /\ Now[<<f, i, j, k>>] = v[v[b][j]][k]
  BY PlacesBelow DEF v
<1>4. b # 0 => b \in Held(f, i)
  <2>1. \A q : q = <<f, i, None, None>> => q[1] = f /\ q[2] = i
    OBVIOUS
  <2> QED
    BY <1>3, <2>1, InHeld
<1>5. ASSUME b # 0, i >= SMALL, NEW x \in Under(b) PROVE x \in Held(f, i)
  <2>1. PICK j \in Index : x = store[b][j] /\ x # 0
    BY <1>5 DEF Under
  <2>2. v[b][j] = x
    BY <1>1, <1>3, <1>5, <2>1
  <2>3. PICK p \in Place : p = <<f, i, j, None>> /\ Now[p] = x
    BY <1>3, <1>5, <2>2
  <2> QED
    BY <2>1, <2>3, InHeld
<1>6. ASSUME b # 0, i >= SMALL + 2, NEW c \in Under(b), NEW x \in Under(c)
      PROVE  x \in Held(f, i)
  <2>1. PICK j \in Index : c = store[b][j] /\ c # 0
    BY <1>6 DEF Under
  <2>2. PICK k \in Index : x = store[c][k] /\ x # 0
    BY <1>6 DEF Under
  <2>3. c \in Block /\ b \in Block
    BY <1>1, <1>3, <1>6, <2>1
  <2>4. v[v[b][j]][k] = x
    BY <1>1, <2>1, <2>2, <2>3
  <2>5. PICK p \in Place : p = <<f, i, j, k>> /\ Now[p] = x
    BY <1>3, <1>6, <2>4
  <2> QED
    BY <2>2, <2>5, InHeld
<1>7. ASSUME NEW x \in Held(f, i)
      PROVE  /\ b # 0
             /\ \/ x = b
                \/ i >= SMALL /\ x \in Under(b)
                \/ i >= SMALL + 2 /\ x \in Two
  <2>1. PICK p \in Place : p[1] = f /\ p[2] = i /\ x = Now[p] /\ x # 0
    BY OfHeld
  <2>2. \/ p = <<f, i, None, None>>
        \/ i >= SMALL /\ \E j \in Index : p = <<f, i, j, None>>
        \/ i >= SMALL + 2 /\ \E j, k \in Index : p = <<f, i, j, k>>
    BY <2>1, PlaceBelow
  <2>3. CASE p = <<f, i, None, None>>
    BY <1>3, <2>1, <2>3
  <2>4. CASE i >= SMALL /\ \E j \in Index : p = <<f, i, j, None>>
    <3>1. PICK j \in Index : p = <<f, i, j, None>>
      BY <2>4
    <3>2. x = v[b][j]
      BY <1>3, <2>1, <2>4, <3>1
    <3>3. b # 0
      BY <1>1, <2>1, <3>2
    <3>4. x = store[b][j]
      BY <1>1, <1>3, <3>2, <3>3
    <3> QED
      BY <2>1, <2>4, <3>3, <3>4 DEF Under
  <2>5. CASE i >= SMALL + 2 /\ \E j, k \in Index : p = <<f, i, j, k>>
    <3>1. PICK j, k \in Index : p = <<f, i, j, k>>
      BY <2>5
    <3>2. x = v[v[b][j]][k]
      BY <1>3, <2>1, <2>5, <3>1
    <3>3. v[b][j] # 0
      BY <1>1, <2>1, <3>2
    <3>4. b # 0
      BY <1>1, <3>3
    <3>5. PICK c : c = v[b][j]
      OBVIOUS
    <3>6. c = store[b][j] /\ c \in Block /\ c \in Under(b)
      BY <1>1, <1>3, <3>3, <3>4, <3>5 DEF Under
    <3>7. x = store[c][k]
      BY <1>1, <3>2, <3>5, <3>6
    <3>8. x \in Under(c)
      BY <2>1, <3>7 DEF Under
    <3> QED
      BY <2>5, <3>4, <3>6, <3>8
  <2> QED
    BY <2>2, <2>3, <2>4, <2>5
<1>8. ASSUME NEW x \in Two PROVE \E c \in Under(b) : x = c \/ x \in Under(c)
  OBVIOUS
<1>9. \A c \in Under(b) : c \in Two
  OBVIOUS
<1> HIDE DEF Two
<1>10. b = 0 => Held(f, i) = {}
  BY <1>7
<1>11. b # 0 /\ i < SMALL => Held(f, i) = {b}
  <2>1. i < SMALL => ~ (i >= SMALL) /\ ~ (i >= SMALL + 2)
    BY <1>2
  <2> QED
    BY <1>4, <1>7, <2>1
<1>12. b # 0 /\ i >= SMALL /\ i < SMALL + 2 => Held(f, i) = Under(b) \cup {b}
  <2>1. i < SMALL + 2 => ~ (i >= SMALL + 2)
    BY <1>2
  <2> QED
    BY <1>4, <1>5, <1>7, <2>1
<1>13. b # 0 /\ i >= SMALL + 2 => Held(f, i) = Two \cup {b}
  <2>1. i >= SMALL + 2 => i >= SMALL
    BY <1>2
  <2> QED
    BY <1>4, <1>5, <1>6, <1>7, <1>8, <1>9, <2>1
<1> QED
  BY <1>10, <1>11, <1>12, <1>13 DEF Two

\* What is at two places is not one block.
LEMMA OnePlace ==
  ASSUME Settled, NEW p \in Place, NEW q \in Place, Now[p] # 0, Now[p] = Now[q]
  PROVE  p = q
BY DEF Settled, Sound

LEMMA UnderIs ==
  ASSUME Base, NEW b \in Block
  PROVE  /\ Under(b) \subseteq Block
         /\ \A j \in Index : store[b][j] # 0 => store[b][j] \in Under(b)
         /\ \A x \in Under(b) : \E j \in Index : x = store[b][j] /\ x # 0
BY FlatIs DEF Under

\* No index block names a block twice, itself, or a block another one names.
LEMMA TableApart ==
  ASSUME Settled, NEW f \in File, NEW i \in AddrIndex, i >= SMALL,
         NEW b, b = addr[f][i], b # 0
  PROVE  /\ b \in Block /\ b \notin Under(b)
         /\ \A j, k \in Index : store[b][j] = store[b][k] /\ store[b][j] # 0 => j = k
<1>1. Base
  BY DEF Settled
<1>2. /\ b \in Block /\ Flat(store)[b] = store[b]
      /\ <<f, i, None, None>> \in Place /\ Now[<<f, i, None, None>>] = b
      /\ \A j \in Index :
           <<f, i, j, None>> \in Place /\ Now[<<f, i, j, None>>] = Flat(store)[b][j]
  BY <1>1, PlacesBelow, FlatIs
<1>3. None \notin Index
  BY Consts
<1>4. \A j \in Index : Now[<<f, i, j, None>>] = store[b][j]
  BY <1>2
<1>5. ASSUME NEW j \in Index, NEW k \in Index, store[b][j] = store[b][k], store[b][j] # 0
      PROVE  j = k
  <2>1. <<f, i, j, None>> = <<f, i, k, None>>
    <3>1. PICK p, q : p = <<f, i, j, None>> /\ q = <<f, i, k, None>>
      OBVIOUS
    <3>2. p \in Place /\ q \in Place /\ Now[p] = store[b][j] /\ Now[q] = store[b][k]
      BY <1>2, <1>4, <3>1
    <3> QED
      BY <1>5, <3>1, <3>2, OnePlace
  <2> QED
    BY <2>1
<1>6. b \notin Under(b)
  <2> SUFFICES ASSUME NEW j \in Index, b = store[b][j] PROVE FALSE
    BY <1>1, <1>2, UnderIs
  <2>1. <<f, i, j, None>> = <<f, i, None, None>>
    <3>1. PICK p, q : p = <<f, i, j, None>> /\ q = <<f, i, None, None>>
      OBVIOUS
    <3>2. p \in Place /\ q \in Place /\ Now[p] = b /\ Now[q] = b
      BY <1>2, <1>4, <3>1
    <3> QED
      BY <3>1, <3>2, OnePlace
  <2> QED
    BY <1>3, <2>1
<1> QED
  BY <1>2, <1>5, <1>6

LEMMA TablesApart ==
  ASSUME Settled, NEW f \in File, NEW i \in AddrIndex, i >= SMALL + 2,
         NEW b, b = addr[f][i], b # 0
  PROVE  /\ \A c \in Under(b) :
              /\ c \notin Under(c) /\ b # c /\ b \notin Under(c)
              /\ \A j, k \in Index : store[c][j] = store[c][k] /\ store[c][j] # 0 => j = k
         /\ \A c, d \in Under(b) : c # d => (Under(c) \cup {c}) \cap (Under(d) \cup {d}) = {}
<1>1. Base
  BY DEF Settled
<1>2. i >= SMALL /\ None \notin Index
  BY Consts
<1>3. /\ b \in Block /\ Flat(store)[b] = store[b]
      /\ <<f, i, None, None>> \in Place /\ Now[<<f, i, None, None>>] = b
      /\ \A j \in Index :
           <<f, i, j, None>> \in Place /\ Now[<<f, i, j, None>>] = Flat(store)[b][j]
      /\ \A j, k \in Index :
           /\ <<f, i, j, k>> \in Place
           /\ Now[<<f, i, j, k>>] = Flat(store)[Flat(store)[b][j]][k]
  BY <1>1, <1>2, PlacesBelow, FlatIs
<1>4. ASSUME NEW c \in Under(b)
      PROVE  \E j \in Index :
               /\ <<f, i, j, None>> \in Place /\ Now[<<f, i, j, None>>] = c
               /\ c # 0 /\ c \in Block
               /\ \A k \in Index :
                    <<f, i, j, k>> \in Place /\ Now[<<f, i, j, k>>] = store[c][k]
  <2>1. PICK j \in Index : c = store[b][j] /\ c # 0
    BY <1>1, <1>3, UnderIs
  <2>2. c \in Block /\ Flat(store)[c] = store[c]
    BY <1>1, <1>3, <1>4, UnderIs, FlatIs
  <2>3. Flat(store)[b][j] = c
    BY <1>3, <2>1
  <2> QED
    BY <1>3, <2>1, <2>2, <2>3
<1>5. ASSUME NEW c \in Under(b)
      PROVE  /\ c \notin Under(c) /\ b # c /\ b \notin Under(c)
             /\ \A j, k \in Index : store[c][j] = store[c][k] /\ store[c][j] # 0 => j = k
  <2>1. PICK j \in Index :
          /\ <<f, i, j, None>> \in Place /\ Now[<<f, i, j, None>>] = c
          /\ c # 0 /\ c \in Block
          /\ \A k \in Index : <<f, i, j, k>> \in Place /\ Now[<<f, i, j, k>>] = store[c][k]
    BY <1>4
  <2>2. b # c
    <3> SUFFICES ASSUME b = c PROVE FALSE
      OBVIOUS
    <3>1. <<f, i, None, None>> = <<f, i, j, None>>
      BY <1>3, <2>1, OnePlace
    <3> QED
      BY <1>2, <3>1
  <2>3. ASSUME NEW k \in Index, store[c][k] = c PROVE FALSE
    <3>1. <<f, i, j, k>> = <<f, i, j, None>>
      BY <2>1, <2>3, OnePlace
    <3> QED
      BY <1>2, <3>1
  <2>4. ASSUME NEW k \in Index, store[c][k] = b PROVE FALSE
    <3>1. <<f, i, j, k>> = <<f, i, None, None>>
      <4>1. PICK p, q : p = <<f, i, j, k>> /\ q = <<f, i, None, None>>
        OBVIOUS
      <4>2. p \in Place /\ q \in Place /\ Now[p] = b /\ Now[q] = b
        BY <1>3, <2>1, <2>4, <4>1
      <4> QED
        BY <4>1, <4>2, OnePlace
    <3> QED
      BY <1>2, <3>1
  <2>5. ASSUME NEW k \in Index, NEW l \in Index, store[c][k] = store[c][l], store[c][k] # 0
        PROVE  k = l
    <3>1. <<f, i, j, k>> = <<f, i, j, l>>
      BY <2>1, <2>5, OnePlace
    <3> QED
      BY <3>1
  <2>6. \A x \in Under(c) : \E k \in Index : x = store[c][k]
    BY <1>1, <2>1, UnderIs
  <2> QED
    BY <2>2, <2>3, <2>4, <2>5, <2>6
<1>6. ASSUME NEW c \in Under(b), NEW d \in Under(b), c # d,
             NEW x, x \in Under(c) \cup {c}, x \in Under(d) \cup {d}
      PROVE  FALSE
  <2>1. PICK j \in Index :
          /\ <<f, i, j, None>> \in Place /\ Now[<<f, i, j, None>>] = c
          /\ c # 0 /\ c \in Block
          /\ \A k \in Index : <<f, i, j, k>> \in Place /\ Now[<<f, i, j, k>>] = store[c][k]
    BY <1>4
  <2>2. PICK l \in Index :
          /\ <<f, i, l, None>> \in Place /\ Now[<<f, i, l, None>>] = d
          /\ d # 0 /\ d \in Block
          /\ \A k \in Index : <<f, i, l, k>> \in Place /\ Now[<<f, i, l, k>>] = store[d][k]
    BY <1>4
  <2>3. /\ \A y \in Under(c) : \E k \in Index : y = store[c][k] /\ y # 0
        /\ \A y \in Under(d) : \E k \in Index : y = store[d][k] /\ y # 0
    BY <1>1, <2>1, <2>2, UnderIs
  <2>4. \E k \in Way : <<f, i, j, k>> \in Place /\ Now[<<f, i, j, k>>] = x /\ x # 0
    BY <1>6, <2>1, <2>3 DEF Way
  <2>5. \E k \in Way : <<f, i, l, k>> \in Place /\ Now[<<f, i, l, k>>] = x /\ x # 0
    BY <1>6, <2>2, <2>3 DEF Way
  <2>6. PICK k \in Way : <<f, i, j, k>> \in Place /\ Now[<<f, i, j, k>>] = x /\ x # 0
    BY <2>4
  <2>7. PICK m \in Way : <<f, i, l, m>> \in Place /\ Now[<<f, i, l, m>>] = x /\ x # 0
    BY <2>5
  <2>8. <<f, i, j, k>> = <<f, i, l, m>>
    BY <2>6, <2>7, OnePlace
  <2>9. j = l
    BY <2>8
  <2> QED
    BY <1>6, <2>1, <2>2, <2>9
<1> QED
  BY <1>5, <1>6

\* What ITrunc finds in an index block, and below one that names index blocks.
LEMMA BelowLists ==
  ASSUME Base, NEW b \in Block,
         \A j, k \in Index : store[b][j] = store[b][k] /\ store[b][j] # 0 => j = k
  PROVE  Lists(Below(b), Under(b))
<1> DEFINE c == store[b]
           S == {j \in DOMAIN c : c[j] # 0}
<1>1. DOMAIN c = Index /\ Index \in SUBSET Nat
  BY FlatIs, Consts DEF Contents
<1>2. IsFiniteSet(Index)
  <2>1. 0 \in Int /\ PerBlock - 1 \in Int
    BY Consts
  <2> QED
    BY <2>1, FS_Interval DEF Index
<1>3. S \in SUBSET Nat /\ IsFiniteSet(S)
  <2>1. S \subseteq Index
    BY <1>1
  <2> QED
    BY <1>1, <1>2, <2>1, FS_Subset
<1>4. Lists(Used(c), S)
  BY <1>3, DescendingLists DEF Used
<1>5. Below(b) = [i \in 1 .. Len(Used(c)) |-> c[Used(c)[i]]]
  BY DEF Below
<1>6. \A x, y \in S : c[x] = c[y] => x = y
  BY <1>1
<1>7. Under(b) = {c[x] : x \in S}
  BY <1>1 DEF Under
<1> HIDE DEF c, S
<1>8. PICK s : s = Used(c)
  OBVIOUS
<1>9. Lists([i \in 1 .. Len(s) |-> c[s[i]]], {c[x] : x \in S})
  BY <1>4, <1>6, <1>8, MappedLists
<1> QED
  BY <1>5, <1>7, <1>8, <1>9

LEMMA BelowTwiceLists ==
  ASSUME Settled, NEW f \in File, NEW i \in AddrIndex, i >= SMALL + 2,
         NEW b, b = addr[f][i], b # 0
  PROVE  Lists(BelowTwice(b), UNION {Under(c) \cup {c} : c \in Under(b)})
<1>1. Base /\ i >= SMALL
  BY Consts DEF Settled
<1>2. /\ b \in Block
      /\ \A j, k \in Index : store[b][j] = store[b][k] /\ store[b][j] # 0 => j = k
  BY <1>1, TableApart
<1>3. /\ \A c \in Under(b) :
           /\ c \notin Under(c)
           /\ \A j, k \in Index : store[c][j] = store[c][k] /\ store[c][j] # 0 => j = k
      /\ \A c, d \in Under(b) : c # d => (Under(c) \cup {c}) \cap (Under(d) \cup {d}) = {}
  BY TablesApart
<1>4. Lists(Below(b), Under(b)) /\ Under(b) \subseteq Block
  BY <1>1, <1>2, BelowLists, UnderIs
<1>5. ASSUME NEW c \in Under(b) PROVE Lists(Append(Below(c), c), Under(c) \cup {c})
  <2>1. c \in Block
    BY <1>4
  <2>2. Lists(Below(c), Under(c))
    BY <1>1, <1>3, <2>1, BelowLists
  <2> QED
    BY <1>3, <2>2, AppendLists
<1>6. PICK s : s = Below(b)
  OBVIOUS
<1>7. /\ Len(s) \in Nat /\ \A k \in 1 .. Len(s) : s[k] \in Under(b)
      /\ \A k, l \in 1 .. Len(s) : s[k] = s[l] => k = l
      /\ \A x \in Under(b) : \E k \in 1 .. Len(s) : s[k] = x
  BY <1>4, <1>6, ListIs
<1> DEFINE t == [k \in 1 .. Len(s) |-> Append(Below(s[k]), s[k])]
           P == [k \in 1 .. Len(s) |-> Under(s[k]) \cup {s[k]}]
<1>8. t = [k \in 1 .. Len(s) |-> t[k]] /\ \A k \in 1 .. Len(s) : Lists(t[k], P[k])
  BY <1>5, <1>7
<1>9. \A k, l \in 1 .. Len(s) : k # l => P[k] \cap P[l] = {}
  <2> TAKE k, l \in 1 .. Len(s)
  <2> HAVE k # l
  <2>1. s[k] \in Under(b) /\ s[l] \in Under(b) /\ s[k] # s[l]
    BY <1>7
  <2> QED
    BY <1>3, <2>1
<1>10. UNION {P[k] : k \in 1 .. Len(s)} = UNION {Under(c) \cup {c} : c \in Under(b)}
  <2>1. \A k \in 1 .. Len(s) : P[k] = Under(s[k]) \cup {s[k]}
    OBVIOUS
  <2> HIDE DEF P
  <2>2. ASSUME NEW k \in 1 .. Len(s), NEW x \in P[k]
        PROVE  \E c \in Under(b) : x \in Under(c) \cup {c}
    BY <1>7, <2>1
  <2>3. ASSUME NEW c \in Under(b), NEW x \in Under(c) \cup {c}
        PROVE  \E k \in 1 .. Len(s) : x \in P[k]
    BY <1>7, <2>1
  <2> DEFINE D(c) == Under(c) \cup {c}
  <2>4. /\ \A k \in 1 .. Len(s) : \A x \in P[k] : \E c \in Under(b) : x \in D(c)
        /\ \A c \in Under(b) : \A x \in D(c) : \E k \in 1 .. Len(s) : x \in P[k]
    BY <2>2, <2>3
  <2> HIDE DEF D
  <2>5. UNION {P[k] : k \in 1 .. Len(s)} = UNION {D(c) : c \in Under(b)}
    <3>1. ASSUME NEW x, x \in UNION {P[k] : k \in 1 .. Len(s)}
          PROVE  x \in UNION {D(c) : c \in Under(b)}
      <4>1. PICK k \in 1 .. Len(s) : x \in P[k]
        BY <3>1
      <4>2. PICK c \in Under(b) : x \in D(c)
        BY <2>4, <4>1
      <4> QED
        BY <4>2
    <3>2. ASSUME NEW x, x \in UNION {D(c) : c \in Under(b)}
          PROVE  x \in UNION {P[k] : k \in 1 .. Len(s)}
      <4>1. PICK c \in Under(b) : x \in D(c)
        BY <3>2
      <4>2. PICK k \in 1 .. Len(s) : x \in P[k]
        BY <2>4, <4>1
      <4> QED
        BY <4>2
    <3> QED
      BY <3>1, <3>2
  <2> QED
    BY <2>5 DEF D
<1>11. BelowTwice(b) = FlattenSeq(t)
  BY <1>6 DEF BelowTwice
<1> HIDE DEF t, P
<1>12. Lists(FlattenSeq(t), UNION {P[k] : k \in 1 .. Len(s)})
  BY <1>7, <1>8, <1>9, FlattenLists
<1> QED
  BY <1>10, <1>11, <1>12

LEMMA ChainLists ==
  ASSUME Settled, NEW f \in File, NEW i \in AddrIndex, addr[f][i] # 0
  PROVE  Lists(Chain(f, i), Held(f, i))
<1>1. PICK b : b = addr[f][i]
  OBVIOUS
<1>2. Base /\ i \in Nat /\ SMALL \in Nat /\ b # 0
  BY <1>1, Consts DEF Settled
<1>3. CASE i >= SMALL + 2
  <2>1. i >= SMALL
    BY <1>2, <1>3
  <2> DEFINE Two == UNION {Under(c) \cup {c} : c \in Under(b)}
  <2>2. Lists(BelowTwice(b), Two)
    BY <1>1, <1>2, <1>3, BelowTwiceLists
  <2>3. b \notin Two
    <3>1. b \in Block /\ b \notin Under(b)
      BY <1>1, <1>2, <2>1, TableApart
    <3>2. \A c \in Under(b) : b # c /\ b \notin Under(c)
      BY <1>1, <1>2, <1>3, TablesApart
    <3> QED
      BY <3>2
  <2>4. Held(f, i) = Two \cup {b}
    BY <1>1, <1>2, <1>3, HeldIs
  <2>5. Chain(f, i) = Append(BelowTwice(b), b)
    BY <1>1, <1>3 DEF Chain
  <2> HIDE DEF Two
  <2>6. Lists(Append(BelowTwice(b), b), Two \cup {b})
    BY <2>2, <2>3, AppendLists
  <2> QED
    BY <2>4, <2>5, <2>6
<1>4. CASE i >= SMALL /\ i < SMALL + 2
  <2>1. /\ b \in Block /\ b \notin Under(b)
        /\ \A j, k \in Index : store[b][j] = store[b][k] /\ store[b][j] # 0 => j = k
    BY <1>1, <1>2, <1>4, TableApart
  <2>2. Lists(Below(b), Under(b))
    BY <1>2, <2>1, BelowLists
  <2>3. Held(f, i) = Under(b) \cup {b}
    BY <1>1, <1>2, <1>4, HeldIs
  <2>4. ~ (i >= SMALL + 2)
    BY <1>2, <1>4
  <2>5. Chain(f, i) = Append(Below(b), b)
    BY <1>1, <1>4, <2>4 DEF Chain
  <2>6. Lists(Append(Below(b), b), Under(b) \cup {b})
    BY <2>1, <2>2, AppendLists
  <2> QED
    BY <2>3, <2>5, <2>6
<1>5. CASE i < SMALL
  <2>1. ~ (i >= SMALL + 2) /\ ~ (i >= SMALL)
    BY <1>2, <1>5
  <2>2. Chain(f, i) = <<b>> /\ Held(f, i) = {b}
    BY <1>1, <1>2, <1>5, <2>1, HeldIs DEF Chain
  <2>3. Lists(Append(<< >>, b), {} \cup {b})
    BY EmptyLists, AppendLists
  <2>4. Append(<< >>, b) = <<b>> /\ {} \cup {b} = {b}
    OBVIOUS
  <2> QED
    BY <2>2, <2>3, <2>4
<1> QED
  BY <1>2, <1>3, <1>4, <1>5

LEMMA FileBlocks ==
  ASSUME Settled, NEW f \in File
  PROVE  Lists(Blocks(f), BlocksOf(Now, f))
<1> DEFINE c == addr[f]
           S == {i \in DOMAIN c : c[i] # 0}
<1>1. Base
  BY DEF Settled
<1>2. DOMAIN c = AddrIndex /\ AddrIndex \in SUBSET Nat /\ IsFiniteSet(AddrIndex)
  <2>1. 0 \in Int /\ SMALL + 3 \in Int
    BY Consts
  <2> QED
    BY <1>1, <2>1, Consts, FS_Interval DEF Base, Addrs, AddrIndex
<1>3. S \in SUBSET Nat /\ IsFiniteSet(S)
  <2>1. S \subseteq AddrIndex
    BY <1>2
  <2> QED
    BY <1>2, <2>1, FS_Subset
<1>4. Lists(Used(c), S)
  BY <1>3, DescendingLists DEF Used
<1>5. S = {i \in AddrIndex : addr[f][i] # 0}
  BY <1>2
<1>6. PICK s : s = Used(c)
  OBVIOUS
<1> HIDE DEF c, S
<1>7. /\ Len(s) \in Nat /\ \A k \in 1 .. Len(s) : s[k] \in S
      /\ \A k, l \in 1 .. Len(s) : s[k] = s[l] => k = l
      /\ \A x \in S : \E k \in 1 .. Len(s) : s[k] = x
  BY <1>4, <1>6, ListIs
<1> DEFINE t == [k \in 1 .. Len(s) |-> Chain(f, s[k])]
           P == [k \in 1 .. Len(s) |-> Held(f, s[k])]
<1>8. t = [k \in 1 .. Len(s) |-> t[k]] /\ \A k \in 1 .. Len(s) : Lists(t[k], P[k])
  <2>1. \A k \in 1 .. Len(s) : Lists(Chain(f, s[k]), Held(f, s[k]))
    BY <1>5, <1>7, ChainLists
  <2> QED
    BY <2>1
<1>9. \A k, l \in 1 .. Len(s) : k # l => P[k] \cap P[l] = {}
  <2> SUFFICES ASSUME NEW k \in 1 .. Len(s), NEW l \in 1 .. Len(s), k # l,
                      NEW x \in Held(f, s[k]), x \in Held(f, s[l])
               PROVE  FALSE
    BY Zenon
  <2>1. PICK p \in Place : p[2] = s[k] /\ x = Now[p] /\ x # 0
    BY OfHeld
  <2>2. PICK q \in Place : q[2] = s[l] /\ x = Now[q]
    BY OfHeld
  <2>3. p = q
    BY <2>1, <2>2, OnePlace
  <2> QED
    BY <1>7, <2>1, <2>2, <2>3
<1>10. UNION {P[k] : k \in 1 .. Len(s)} = BlocksOf(Now, f)
  <2>1. \A k \in 1 .. Len(s) : P[k] = Held(f, s[k])
    OBVIOUS
  <2> HIDE DEF P
  <2>2. ASSUME NEW x, x \in UNION {P[k] : k \in 1 .. Len(s)} PROVE x \in BlocksOf(Now, f)
    <3>1. PICK k \in 1 .. Len(s) : x \in Held(f, s[k])
      BY <2>1, <2>2
    <3>2. PICK p \in Place : p[1] = f /\ x = Now[p] /\ x # 0
      BY <3>1, OfHeld
    <3> QED
      BY <3>2 DEF BlocksOf
  <2>3. ASSUME NEW x \in BlocksOf(Now, f) PROVE x \in UNION {P[k] : k \in 1 .. Len(s)}
    <3>1. PICK p \in Place : p[1] = f /\ x = Now[p] /\ x # 0
      BY <2>3 DEF BlocksOf
    <3>2. p[2] \in AddrIndex
      BY PlaceIs
    <3>3. x \in Held(f, p[2])
      BY <3>1, InHeld
    <3>4. addr[f][p[2]] # 0
      BY <1>1, <3>2, <3>3, HeldIs
    <3>5. PICK k \in 1 .. Len(s) : s[k] = p[2]
      BY <1>5, <1>7, <3>2, <3>4
    <3> QED
      BY <2>1, <3>3, <3>5
  <2> QED
    BY <2>2, <2>3
<1>11. Blocks(f) = FlattenSeq(t)
  BY <1>6 DEF Blocks, c
<1> HIDE DEF t, P
<1>12. Lists(FlattenSeq(t), UNION {P[k] : k \in 1 .. Len(s)})
  BY <1>7, <1>8, <1>9, FlattenLists
<1> QED
  BY <1>10, <1>11, <1>12

LEMMA SoundFree ==
  ASSUME NEW t, NEW fr, Sound(t, fr)
  PROVE  fr \in Seq(Block)
<1>1. fr \in Seq(Unplaced(t)) /\ Unplaced(t) \subseteq Block
  BY DEF Sound, Lists, Unplaced
<1> QED
  BY <1>1

\* ITrunc gives back what the file has, and nothing else is different.
LEMMA ITruncInv ==
  ASSUME Inv, NEW f \in File, ITrunc(f)
  PROVE  /\ Inv' /\ torn' = torn /\ out' = << >>
         /\ ~ torn =>
              /\ View' = [View EXCEPT ![f] = [u \in 0 .. HUGE * PerBlock - 1 |-> 0]]
              /\ size' = [size EXCEPT ![f] = 0]
<1>1. /\ pc = "idle" /\ Called
      /\ Blocks(f) # << >> => ~ stuck
      /\ free' = free \o Blocks(f)
      /\ addr' = Without(addr, f)
      /\ size' = [size EXCEPT ![f] = 0]
      /\ out' = << >>
      /\ UNCHANGED <<store, stuck, torn, call>>
  BY DEF ITrunc, Without
<1>2. Base /\ InHand /\ TornMeansStuck
  BY DEF Inv
<1>3. Shown = Flat(store)
  BY <1>1, <1>2, ShownFlat
<1>4. ASSUME torn PROVE free' = << >>
  <2>1. free = << >> /\ Blocks(f) = << >>
    BY <1>1, <1>2, <1>4 DEF TornMeansStuck
  <2>2. << >> \o << >> = << >>
    OBVIOUS
  <2> QED
    BY <1>1, <2>1, <2>2
<1>5. ASSUME ~ torn
      PROVE  /\ Sound(Tree(addr', Flat(store)), free')
             /\ Content(addr', Flat(store))
                  = [Content(addr, Flat(store)) EXCEPT ![f] = [u \in 0 .. HUGE * PerBlock - 1 |-> 0]]
  <2>1. Settled
    BY <1>2, <1>3, <1>5 DEF Inv, Whole, Settled, Now
  <2>2. Lists(Blocks(f), BlocksOf(Now, f))
    BY <2>1, FileBlocks
  <2>3. PICK t, s, fr : t = Now /\ s = Blocks(f) /\ fr = free
    OBVIOUS
  <2>4. Sound([q \in Place |-> IF q[1] = f THEN 0 ELSE t[q]], fr \o s)
    <3>1. Sound(t, fr) /\ Lists(s, BlocksOf(t, f))
      BY <2>1, <2>2, <2>3 DEF Settled
    <3> QED
      BY ONLY <3>1, f \in File, TakenBack
  <2>5. PICK a, b, v : a = addr /\ b = addr' /\ v = Flat(store)
    OBVIOUS
  <2>6. a \in Addrs /\ v \in Shows /\ b = Without(a, f)
    BY <1>1, <1>2, <2>5, FlatIs DEF Base
  <2>7. Tree(b, v) = [q \in Place |-> IF q[1] = f THEN 0 ELSE Tree(a, v)[q]]
    BY ONLY <2>6, f \in File, Emptied
  <2>8. Content(b, v) = [Content(a, v) EXCEPT ![f] = [u \in 0 .. HUGE * PerBlock - 1 |-> 0]]
    BY ONLY <2>6, f \in File, EmptiedContent
  <2>9. t = Tree(a, v) /\ free' = fr \o s
    BY <1>1, <2>3, <2>5 DEF Now
  <2>10. Sound(Tree(b, v), free')
    BY <2>4, <2>7, <2>9
  <2> QED
    BY <2>5, <2>8, <2>10
<1>6. Base'
  <2>1. addr' \in Addrs
    <3>1. PICK a, b : a = addr /\ b = addr'
      OBVIOUS
    <3>2. a \in Addrs /\ b = Without(a, f)
      BY <1>1, <1>2, <3>1 DEF Base
    <3>3. b \in Addrs
      BY ONLY <3>2, f \in File DEF Without, Addrs
    <3> QED
      BY <3>1, <3>3
  <2>2. size' \in [File -> 0 .. HUGE * PerBlock]
    <3>1. 0 \in 0 .. HUGE * PerBlock
      BY Sizes
    <3> QED
      BY <1>1, <1>2, <3>1 DEF Base
  <2>3. free' \in Seq(Block)
    <3>1. CASE torn
      BY <1>4, <3>1
    <3>2. CASE ~ torn
      BY <1>5, <3>2, SoundFree
    <3> QED
      BY <3>1, <3>2
  <2>4. calls' \in 0 .. MaxCalls
    BY <1>1, <1>2, FileAssumption DEF Called, Base
  <2> QED
    BY <1>1, <1>2, <2>1, <2>2, <2>3, <2>4 DEF Base, call
<1>7. InHand' /\ TornMeansStuck' /\ (LookedUp(Tree(addr, Shown)))'
  BY <1>1, <1>2, <1>4 DEF InHand, TornMeansStuck, LookedUp, call
<1>8. Shown' = Flat(store)
  BY <1>1, <1>6, ShownFlatNext DEF call
<1>9. ~ torn => Whole' /\ View' = [View EXCEPT ![f] = [u \in 0 .. HUGE * PerBlock - 1 |-> 0]]
  BY <1>3, <1>5, <1>7, <1>8 DEF Whole, View
<1> QED
  BY <1>1, <1>6, <1>7, <1>9 DEF Inv

-----------------------------------------------------------------------------
(***************************************************************************)
(* Theorems.                                                               *)
(***************************************************************************)
Empties(f) ==
  /\ View' = [View EXCEPT ![f] = [u \in 0 .. HUGE * PerBlock - 1 |-> 0]]
  /\ size' = [size EXCEPT ![f] = 0]
  /\ out' = << >>

Writes(f) ==
  \E o \in 0 .. HUGE * PerBlock - 1, n \in 1 .. PerBlock, d \in Datum :
    /\ o + n <= HUGE * PerBlock
    /\ View' = WrittenUnits(View, f, o, n, d)
    /\ size' = [size EXCEPT ![f] = IF size[f] < o + n THEN o + n ELSE size[f]]
    /\ out' = << >>

Reads(f) ==
  \E o \in 0 .. HUGE * PerBlock - 1, n \in 1 .. PerBlock :
    /\ o + n <= size[f]
    /\ out' = [i \in 1 .. n |-> View[f][o + i - 1]]
    /\ View' = View /\ size' = size

NothingSeen == View' = View /\ size' = size /\ out' = << >>

\* What a step does to the files, while every index block is written.
Does == NothingSeen \/ \E f \in File : Writes(f) \/ Reads(f) \/ Empties(f)

LEMMA NextDoes ==
  ASSUME Inv, Next
  PROVE  Inv' /\ (torn => torn') /\ (~ torn' => Does)
<1>1. CASE Rdwr
  <2>1. Inv' /\ torn' = torn /\ (~ torn' => View' = View)
    BY <1>1, RdwrInv
  <2>2. out' = << >> /\ size' = size
    BY <1>1 DEF Rdwr, disk
  <2> QED
    BY <2>1, <2>2 DEF Does, NothingSeen
<1>2. ASSUME NEW f \in File, ITrunc(f) PROVE Inv' /\ (torn => torn') /\ (~ torn' => Does)
  BY <1>2, ITruncInv DEF Does, Empties
<1>3. CASE Step /\ UNCHANGED calls
  <2>1. calls' \in 0 .. MaxCalls
    BY <1>3 DEF Inv, Base
  <2>2. CASE TurnEnds \/ MapTooBig
    <3>1. Inv' /\ torn' = torn /\ (~ torn' => View' = View)
      BY <2>1, <2>2, TurnEndsInv
    <3>2. out' = << >> /\ size' = size
      BY <2>2 DEF TurnEnds, MapTooBig, disk
    <3> QED
      BY <3>1, <3>2 DEF Does, NothingSeen
  <2>3. CASE MapDirect
    <3>1. Inv' /\ torn' = torn /\ (~ torn' => View' = View)
      BY <2>1, <2>3, MapDirectInv
    <3>2. out' = << >> /\ size' = size
      BY <2>3 DEF MapDirect, disk
    <3> QED
      BY <3>1, <3>2 DEF Does, NothingSeen
  <2>4. CASE MapFirst
    <3>1. Inv' /\ torn' = torn /\ (~ torn' => View' = View)
      BY <2>1, <2>4, MapFirstInv
    <3>2. out' = << >> /\ size' = size
      BY <2>4 DEF MapFirst, disk
    <3> QED
      BY <3>1, <3>2 DEF Does, NothingSeen
  <2>5. CASE MapSecond
    <3>1. Inv' /\ (torn => torn') /\ (~ torn' => View' = View)
      BY <2>1, <2>5, MapSecondInv
    <3>2. out' = << >> /\ size' = size
      BY <2>5 DEF MapSecond
    <3> QED
      BY <3>1, <3>2 DEF Does, NothingSeen
  <2>6. CASE MapLast
    <3>1. Inv' /\ (torn => torn') /\ (~ torn' => View' = View)
      BY <2>1, <2>6, MapLastInv
    <3>2. out' = << >> /\ size' = size
      BY <2>6 DEF MapLast
    <3> QED
      BY <3>1, <3>2 DEF Does, NothingSeen
  <2>7. file \in File /\ datum \in Datum
    BY DEF Inv, Base
  <2>8. CASE ReadTurn
    <3>1. /\ Inv' /\ torn' = torn
          /\ ~ torn =>
               /\ View' = View /\ size' = size
               /\ \E n \in 1 .. PerBlock :
                    /\ off \in 0 .. HUGE * PerBlock - 1 /\ off + n <= size[file]
                    /\ out' = [i \in 1 .. n |-> View[file][off + i - 1]]
      BY <2>1, <2>8, ReadTurnInv
    <3>2. ~ torn => Reads(file)
      BY <3>1 DEF Reads
    <3> QED
      BY <2>7, <3>1, <3>2 DEF Does
  <2>9. CASE WriteTurn
    <3>1. /\ Inv' /\ torn' = torn /\ out' = << >>
          /\ ~ torn =>
               \E n \in 1 .. PerBlock :
                 /\ off \in 0 .. HUGE * PerBlock - 1 /\ off + n <= HUGE * PerBlock
                 /\ View' = WrittenUnits(View, file, off, n, datum)
                 /\ size' = [size EXCEPT ![file] =
                               IF size[file] < off + n THEN off + n ELSE size[file]]
      BY <2>1, <2>9, WriteTurnInv
    <3>2. ~ torn => Writes(file)
      BY <2>7, <3>1 DEF Writes
    <3> QED
      BY <2>7, <3>1, <3>2 DEF Does
  <2> QED
    BY <1>3, <2>2, <2>3, <2>4, <2>5, <2>6, <2>8, <2>9 DEF Step
<1> QED
  BY <1>1, <1>2, <1>3 DEF Next

LEMMA StuttersInv ==
  ASSUME UNCHANGED vars
  PROVE  Inv' = Inv
BY DEF vars, disk, call, Inv, Base, InHand, TornMeansStuck, Whole, LookedUp, Here, Lbn, Shown

\* The inductive invariant holds of every state that is reached.
THEOREM InvHolds == Spec => []Inv
<1>1. Init => Inv
  BY Init_Inv
<1>2. Inv /\ [Next]_vars => Inv'
  BY NextDoes, StuttersInv
<1> QED
  BY <1>1, <1>2, PTL DEF Spec

\* An index block is left unwritten only by a disk that has become full, and then no
\* block is ever given out or taken back again.
THEOREM TornMeansStuckHolds == Spec => []TornMeansStuck
<1>1. Inv => TornMeansStuck
  BY DEF Inv
<1> QED
  BY <1>1, InvHolds, PTL

LEMMA ListLength ==
  ASSUME NEW S, NEW s, Lists(s, S)
  PROVE  IsFiniteSet(S) /\ Cardinality(S) = Len(s)
<1>1. PICK n \in Nat : n = Len(s)
  BY ListIs
<1>2. s \in [1 .. n -> S]
  BY <1>1, ListIs
<1>3. s \in Bijection(1 .. n, S)
  BY <1>1, <1>2, ListIs DEF Bijection, Injection, Surjection, IsInjective
<1>4. ExistsBijection(1 .. n, S)
  BY <1>3 DEF ExistsBijection
<1>5. IsFiniteSet(1 .. n)
  BY FS_Interval
<1> QED
  BY <1>1, <1>4, <1>5, FS_Bijection, FS_CountingElements

\* What the files have, one file after the other.
LEMMA AllBlocksLists ==
  ASSUME Settled
  PROVE  Lists(AllBlocks, UNION {BlocksOf(Now, f) : f \in File})
<1>1. PICK s, n : s = SetToSeq(File) /\ n = Cardinality(File)
  OBVIOUS
<1>2. Lists(s, File) /\ Len(s) = n
  BY <1>1, SetListed, Consts
<1>3. /\ n \in Nat /\ \A i \in 1 .. n : s[i] \in File
      /\ \A i, j \in 1 .. n : s[i] = s[j] => i = j
      /\ \A f \in File : \E i \in 1 .. n : s[i] = f
  BY <1>2, ListIs
<1> DEFINE t == [i \in 1 .. n |-> Blocks(s[i])]
           P == [i \in 1 .. n |-> BlocksOf(Now, s[i])]
<1>4. t = [i \in 1 .. n |-> t[i]] /\ \A i \in 1 .. n : Lists(t[i], P[i])
  <2>1. \A i \in 1 .. n : Lists(Blocks(s[i]), BlocksOf(Now, s[i]))
    BY <1>3, FileBlocks
  <2> QED
    BY <2>1
<1>5. \A i \in 1 .. n : P[i] = BlocksOf(Now, s[i])
  OBVIOUS
<1>6. AllBlocks = FlattenSeq(t)
  BY <1>1 DEF AllBlocks
<1> HIDE DEF t, P
<1>7. ASSUME NEW i \in 1 .. n, NEW j \in 1 .. n, i # j, NEW x \in P[i], x \in P[j]
      PROVE  FALSE
  <2>1. PICK p \in Place : p[1] = s[i] /\ x = Now[p] /\ x # 0
    BY <1>5, <1>7 DEF BlocksOf
  <2>2. PICK q \in Place : q[1] = s[j] /\ x = Now[q]
    BY <1>5, <1>7 DEF BlocksOf
  <2>3. p = q
    BY <2>1, <2>2, OnePlace
  <2> QED
    BY <1>3, <1>7, <2>1, <2>2, <2>3
<1>8. \A i, j \in 1 .. n : i # j => P[i] \cap P[j] = {}
  BY <1>7
<1>9. Lists(FlattenSeq(t), UNION {P[i] : i \in 1 .. n})
  BY <1>3, <1>4, <1>8, FlattenLists
<1>10. UNION {P[i] : i \in 1 .. n} = UNION {BlocksOf(Now, f) : f \in File}
  <2>1. ASSUME NEW x, x \in UNION {P[i] : i \in 1 .. n}
        PROVE  x \in UNION {BlocksOf(Now, f) : f \in File}
    <3>1. PICK i \in 1 .. n : x \in BlocksOf(Now, s[i])
      BY <1>5, <2>1
    <3> QED
      BY <1>3, <3>1
  <2>2. ASSUME NEW x, x \in UNION {BlocksOf(Now, f) : f \in File}
        PROVE  x \in UNION {P[i] : i \in 1 .. n}
    <3>1. PICK f \in File : x \in BlocksOf(Now, f)
      BY <2>2
    <3>2. PICK i \in 1 .. n : s[i] = f
      BY <1>3
    <3> QED
      BY <1>5, <3>1, <3>2
  <2> QED
    BY <2>1, <2>2
<1> QED
  BY <1>6, <1>9, <1>10

\* A block is free or at one place of one file, never at two, and never lost, until a
\* full disk makes Bmap give up with an index block it has not written; sizes,
\* offsets and index entries are within their bounds.
THEOREM BlocksInvHolds == Spec => []BlocksInv
<1>1. ASSUME Inv PROVE TypeOK
  <2>1. Base
    BY <1>1 DEF Inv
  <2>2. Len(free) <= Cardinality(Block)
    <3>1. CASE torn
      <4>1. Len(free) = 0
        BY <1>1, <3>1 DEF Inv, TornMeansStuck
      <4>2. Cardinality(Block) \in Nat
        BY Consts, FS_CardinalityType
      <4> QED
        BY <4>1, <4>2
    <3>2. CASE ~ torn
      <4>1. PICK S : S = Unplaced(Tree(addr, Shown))
        OBVIOUS
      <4>2. Lists(free, S) /\ S \in SUBSET Block
        BY <1>1, <3>2, <4>1 DEF Inv, Whole, Sound, Unplaced
      <4>3. Cardinality(S) = Len(free)
        BY <4>2, ListLength
      <4>4. Cardinality(S) <= Cardinality(Block)
        BY <4>2, Consts, FS_Subset
      <4> QED
        BY <4>3, <4>4
    <3> QED
      BY <3>1, <3>2
  <2> QED
    BY <2>1, <2>2 DEF Base, TypeOK, Addrs
<1>2. ASSUME Inv, pc \in {"idle", "turn"}, ~ torn
      PROVE  IsInjective(free \o AllBlocks) /\ ToSet(free \o AllBlocks) = Block
  <2>1. Settled
    BY <1>2, ShownFlat DEF Settled, Now, Inv, Whole
  <2> DEFINE U == Unplaced(Now)
             H == UNION {BlocksOf(Now, f) : f \in File}
  <2>2. Lists(free, U) /\ Lists(AllBlocks, H)
    BY <2>1, AllBlocksLists DEF Settled, Sound
  <2>3. ASSUME NEW x \in H PROVE \E p \in Place : x = Now[p] /\ x # 0
    BY DEF BlocksOf
  <2>4. \A p \in Place : Now[p] \in {0} \cup Block
    BY <2>1 DEF Settled, Sound, Trees
  <2>5. ASSUME NEW p \in Place, Now[p] # 0 PROVE Now[p] \in H
    <3>1. p[1] \in File /\ Now[p] \in BlocksOf(Now, p[1])
      BY <2>5, PlaceIs DEF BlocksOf
    <3> QED
      BY <3>1
  <2>6. \A b \in Block : b \in U <=> \A p \in Place : Now[p] # b
    BY DEF Unplaced
  <2>7. U \subseteq Block /\ 0 \notin Block
    BY Consts DEF Unplaced
  <2> HIDE DEF U, H
  <2>8. U \cap H = {} /\ U \cup H = Block
    <3>1. U \cap H = {}
      BY <2>3, <2>6, <2>7
    <3>2. H \subseteq Block
      BY <2>3, <2>4
    <3>3. \A b \in Block : b \notin U => b \in H
      BY <2>5, <2>6, <2>7
    <3> QED
      BY <2>7, <3>1, <3>2, <3>3
  <2>9. Lists(free \o AllBlocks, U \cup H)
    <3>1. PICK s, t : s = free /\ t = AllBlocks
      OBVIOUS
    <3> QED
      BY <2>2, <2>8, <3>1, JoinLists
  <2> QED
    BY <2>8, <2>9 DEF Lists
<1>3. Inv => BlocksInv
  BY <1>1, <1>2 DEF BlocksInv, BlocksOnce
<1> QED
  BY <1>3, InvHolds, PTL

LEMMA PhysIs ==
  ASSUME Base, NEW f \in File, NEW l \in Nat, l < HUGE
  PROVE  /\ Phys(f, l) = At(addr, Shown, DataPlace(f, l)) /\ Phys(f, l) \in {0} \cup Block
         /\ \A b \in {0} \cup Block, i \in Index : Through(b, i) = Shown[b][i]
<1>1. PICK p : p = DataPlace(f, l)
  OBVIOUS
<1>2. p \in Place /\ (l < SMALL <=> p[3] = None) /\ (l < LARGE <=> p[4] = None)
  BY <1>1, DataPlaceIs
<1>3. p[1] \in File /\ p[2] \in AddrIndex /\ p[3] \in Way /\ p[4] \in Way
  BY <1>2, PlaceIs
<1>4. \A b \in {0} \cup Block, i \in Index : Through(b, i) = Shown[b][i]
  BY DEF Through, Shown, Cleared
<1>5. /\ \A g \in File, i \in AddrIndex : addr[g][i] \in {0} \cup Block
      /\ \A b \in {0} \cup Block, i \in Index : Shown[b][i] \in {0} \cup Block
  BY ShownIs DEF Base, Addrs, Shows, Contents
<1>6. SMALL <= LARGE /\ SMALL \in Nat /\ LARGE \in Nat
  BY Sizes
<1>7. CASE l < SMALL
  <2>1. p = <<f, l, None, None>> /\ Phys(f, l) = addr[f][l]
    BY <1>1, <1>7 DEF DataPlace, Phys
  <2> QED
    BY <1>1, <1>3, <1>4, <1>5, <2>1 DEF At
<1>8. CASE l >= SMALL /\ l < LARGE
  <2>1. ~ (l < SMALL)
    BY <1>6, <1>8
  <2>2. PICK i, j : i = (l - SMALL) \div PerBlock + SMALL /\ j = (l - SMALL) % PerBlock
    OBVIOUS
  <2>3. p = <<f, i, j, None>> /\ Phys(f, l) = Through(addr[f][i], j)
    BY <1>1, <1>8, <2>1, <2>2 DEF DataPlace, Phys
  <2>4. i \in AddrIndex /\ j \in Index /\ j # None
    BY <1>2, <1>3, <2>1, <2>3 DEF Way
  <2>5. PICK c : c = addr[f][i]
    OBVIOUS
  <2>6. c \in {0} \cup Block /\ Phys(f, l) = Shown[c][j] /\ Shown[c][j] \in {0} \cup Block
    BY <1>4, <1>5, <2>3, <2>4, <2>5
  <2>7. At(addr, Shown, p) = Shown[c][j]
    BY <2>3, <2>4, <2>5 DEF At
  <2> QED
    BY <1>1, <1>4, <2>6, <2>7
<1>9. CASE l >= LARGE
  <2>1. ~ (l < SMALL) /\ ~ (l < LARGE)
    BY <1>6, <1>9
  <2>2. PICK i, j, k : /\ i = (l - LARGE) \div (PerBlock * PerBlock) + SMALL + 2
                       /\ j = ((l - LARGE) \div PerBlock) % PerBlock
                       /\ k = (l - LARGE) % PerBlock
    OBVIOUS
  <2>3. p = <<f, i, j, k>> /\ Phys(f, l) = Through(Through(addr[f][i], j), k)
    BY <1>1, <2>1, <2>2 DEF DataPlace, Phys
  <2>4. i \in AddrIndex /\ j \in Index /\ k \in Index /\ j # None /\ k # None
    BY <1>2, <1>3, <2>1, <2>3 DEF Way
  <2>5. PICK c, d : c = addr[f][i] /\ d = Shown[c][j]
    OBVIOUS
  <2>6. c \in {0} \cup Block /\ d \in {0} \cup Block /\ Through(c, j) = d
    BY <1>4, <1>5, <2>4, <2>5
  <2>7. Phys(f, l) = Shown[d][k] /\ Shown[d][k] \in {0} \cup Block
    BY <1>4, <1>5, <2>3, <2>4, <2>5, <2>6
  <2>8. At(addr, Shown, p) = Shown[d][k]
    BY <2>3, <2>4, <2>5 DEF At
  <2> QED
    BY <1>1, <1>4, <2>7, <2>8
<1> QED
  BY <1>4, <1>6, <1>7, <1>8, <1>9

\* The units of the files, as the array has them.
LEMMA UnitsAre == Base => [f \in File |-> Units(f)] = View
<1> SUFFICES ASSUME Base PROVE [f \in File |-> Units(f)] = View
  OBVIOUS
<1>1. ASSUME NEW f \in File, NEW u \in 0 .. HUGE * PerBlock - 1
      PROVE  Through(Phys(f, u \div PerBlock), u % PerBlock)
               = Shown[At(addr, Shown, DataPlace(f, u \div PerBlock))][u % PerBlock]
  <2>1. PICK l, i : l = u \div PerBlock /\ i = u % PerBlock
    OBVIOUS
  <2>2. l \in Nat /\ l < HUGE /\ i \in Index
    BY <2>1, UnitIs
  <2> QED
    BY <2>1, <2>2, PhysIs
<1> QED
  BY <1>1 DEF Units, View, Content

LEMMA UnitsAreNext == (Base => [f \in File |-> Units(f)] = View)'
BY UnitsAre, PTL

LEMMA InitArray ==
  ASSUME Init
  PROVE  Array!Init
<1>1. Base
  BY Init_Inv DEF Inv
<1>2. PICK a, v : a = addr /\ v = Shown
  OBVIOUS
<1>3. /\ v[0] = Cleared /\ (\A i \in Index : Cleared[i] = 0)
      /\ \A f \in File, i \in AddrIndex : a[f][i] = 0
  BY <1>1, <1>2, ShownIs DEF Shows, Cleared, Init
<1>4. \A p \in Place : At(a, v, p) = 0
  <2> TAKE p \in Place
  <2>1. /\ p[1] \in File /\ p[2] \in AddrIndex /\ p[3] \in Way /\ p[4] \in Way
        /\ p[4] # None => p[3] # None
    BY PlaceIs
  <2> QED
    BY <1>3, <2>1 DEF At, Way
<1>5. ASSUME NEW f \in File, NEW u \in 0 .. HUGE * PerBlock - 1
      PROVE  v[At(a, v, DataPlace(f, u \div PerBlock))][u % PerBlock] = 0
  <2>1. DataPlace(f, u \div PerBlock) \in Place /\ u % PerBlock \in Index
    BY DataPlaceIs, UnitIs
  <2> QED
    BY <1>3, <1>4, <2>1
<1>6. View = [f \in File |-> [u \in 0 .. HUGE * PerBlock - 1 |-> 0]]
  BY <1>2, <1>5 DEF View, Content
<1>7. [f \in File |-> Units(f)] = [f \in File |-> [u \in 0 .. HUGE * PerBlock - 1 |-> 0]]
  BY <1>1, <1>6, UnitsAre
<1>8. size = [f \in File |-> 0] /\ out = << >>
  BY DEF Init
<1> QED
  BY <1>7, <1>8 DEF Array!Init, Array!Unit

\* Bmap, ReadI, WriteI and ITrunc implement FileArray: a read returns what was last
\* written to those units of that file, or 0, however its blocks were built, freed and
\* used by other files before, until an index block is left unwritten.
THEOREM ImplementsArrayHolds == Spec => ImplementsArray
<1>1. Init => Inv /\ Array!Init
  BY Init_Inv, InitArray
<1>2. Inv /\ [Next]_vars => Inv'
  BY NextDoes, StuttersInv
<1>3. Inv /\ [Next]_vars => [torn' \/ Array!Next]_(Array!arrayVars)
  <2>1. SUFFICES ASSUME Inv, [Next]_vars, ~ torn'
                 PROVE  Array!Next \/ UNCHANGED Array!arrayVars
    OBVIOUS
  <2>2. [f \in File |-> Units(f)] = View
    BY <2>1, UnitsAre DEF Inv
  <2>3. ([f \in File |-> Units(f)])' = View'
    BY <1>2, <2>1, UnitsAreNext DEF Inv
  <2>4. CASE UNCHANGED vars
    <3>1. View' = View /\ size' = size /\ out' = out
      BY <2>4 DEF vars, disk, call, View, Shown
    <3> QED
      BY <2>2, <2>3, <3>1 DEF Array!arrayVars
  <2>5. CASE Next
    <3>1. Does
      BY <2>1, <2>5, NextDoes
    <3>2. CASE NothingSeen
      BY <2>2, <2>3, <3>2 DEF NothingSeen, Array!Next, Array!Quiet
    <3>3. ASSUME NEW f \in File, Reads(f) PROVE Array!Read(f)
      BY <2>2, <2>3, <3>3 DEF Reads, Array!Read, Array!Unit
    <3>4. ASSUME NEW f \in File, Writes(f) PROVE Array!Write(f)
      <4>1. PICK o \in 0 .. HUGE * PerBlock - 1, n \in 1 .. PerBlock, d \in Datum :
              /\ o + n <= HUGE * PerBlock
              /\ View' = WrittenUnits(View, f, o, n, d)
              /\ size' = [size EXCEPT ![f] = IF size[f] < o + n THEN o + n ELSE size[f]]
              /\ out' = << >>
        BY <3>4 DEF Writes
      <4>2. ([g \in File |-> Units(g)])'
              = [[g \in File |-> Units(g)] EXCEPT ![f] = [u \in 0 .. HUGE * PerBlock - 1 |->
                   IF u \in o .. o + n - 1 THEN d ELSE @[u]]]
        BY <2>2, <2>3, <3>4, <4>1 DEF WrittenUnits
      <4> QED
        BY <4>1, <4>2 DEF Array!Write, Array!Unit
    <3>5. ASSUME NEW f \in File, Empties(f) PROVE Array!Truncate(f)
      BY <2>2, <2>3, <3>5 DEF Empties, Array!Truncate, Array!Unit
    <3> QED
      BY <3>1, <3>2, <3>3, <3>4, <3>5 DEF Does, Array!Next
  <2> QED
    BY <2>1, <2>4, <2>5
<1> QED
  BY <1>1, <1>2, <1>3, PTL DEF Spec, ImplementsArray

=============================================================================
