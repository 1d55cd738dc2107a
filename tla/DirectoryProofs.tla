---------------------------- MODULE DirectoryProofs ----------------------------
(***************************************************************************)
(* Proofs about Directory, for any number of sessions, any names and       *)
(* inodes, any paths and any tree in the image.                            *)
(***************************************************************************)
EXTENDS Directory, FiniteSetTheorems, WellFoundedInduction, TLAPS

Dirent == [name : Name, ino : Ino \ {Root}] \cup {FreeEntry}

CallSet == [pc : {"out", "idle", "walk", "make", "unlink"},
            cmd : {"mkdir", "touch", "rm", "cd", "login", "home"},
            at : Ino, age : Nat, rest : Seq(Name),
            path : [abs : BOOLEAN, names : Seq(Name)],
            slot : Nat, ino : Ino]

LEMMA InoAre == Ino \subseteq Nat /\ Root \in Ino /\ Root = 0
BY DirectoryAssumption DEF Root

LEMMA LeastIs ==
  ASSUME NEW S \in SUBSET Nat, S # {}
  PROVE  \E m \in S : \A k \in S : m <= k
<1>1. PICK m \in S : \A k \in S : ~ (<<k, m>> \in OpToRel(<, Nat))
  BY NatLessThanWellFounded, WFMin, Zenon
<1>2. ASSUME NEW k \in S, k < m PROVE FALSE
  <2>1. <<k, m>> \in {p \in Nat \X Nat : p[1] < p[2]}
    BY <1>2
  <2>2. <<k, m>> \in OpToRel(<, Nat)
    BY <2>1, Zenon DEF OpToRel
  <2> QED
    BY <1>1, <2>2
<1>3. \A k \in S : m <= k
  BY <1>2
<1> QED
  BY <1>3

\* The search from the start of a table finds the first of what it looks for.
LEMMA LowestIs ==
  ASSUME NEW S \in SUBSET Nat, S # {}
  PROVE  Lowest(S) \in S
BY LeastIs DEF Lowest

LEMMA EntriesAre ==
  ASSUME entry \in Entries, NEW d \in Ino
  PROVE  /\ entry[d] \in Seq(Dirent) /\ Len(entry[d]) \in Nat
         /\ DOMAIN entry[d] = 1 .. Len(entry[d]) /\ DOMAIN entry[d] \subseteq Nat
         /\ \A k \in DOMAIN entry[d] :
              /\ entry[d][k] \in Dirent /\ entry[d][k].ino \in Ino
              /\ entry[d][k].ino # Root => entry[d][k] \in [name : Name, ino : Ino \ {Root}]
<1>1. entry[d] \in Seq(Dirent)
  BY DEF Entries, Dirent
<1>2. \A e \in Dirent : e.ino \in Ino /\ (e.ino # Root => e \in [name : Name, ino : Ino \ {Root}])
  <2> SUFFICES ASSUME NEW e \in Dirent
               PROVE  e.ino \in Ino /\ (e.ino # Root => e \in [name : Name, ino : Ino \ {Root}])
    OBVIOUS
  <2>1. CASE e = FreeEntry
    BY <2>1, InoAre DEF FreeEntry
  <2>2. CASE e \in [name : Name, ino : Ino \ {Root}]
    BY <2>2
  <2> QED
    BY <2>1, <2>2 DEF Dirent
<1> HIDE DEF Dirent
<1> QED
  BY <1>1, <1>2

\* The directory f becomes w: the entry e has come in, where there was none.
Puts(f, w, e) ==
  /\ w \in Seq(Dirent)
  /\ \E k \in DOMAIN w :
       /\ w[k] = e /\ (k \in DOMAIN f => f[k].ino = Root)
       /\ \A l \in DOMAIN w : l # k => l \in DOMAIN f /\ w[l] = f[l]
       /\ \A l \in DOMAIN f : l \in DOMAIN w

\* WriteDir does that, if the place is free that NameI has found.
LEMMA WrittenIs ==
  ASSUME entry \in Entries, NEW d \in Ino, NEW e \in Dirent, NEW k \in Nat, NEW w, w = Written(d, k, e)
  PROVE  /\ w \in Seq(Dirent)
         /\ k # 0 /\ (k \in DOMAIN entry[d] => entry[d][k].ino = Root) => Puts(entry[d], w, e)
<1> DEFINE f == entry[d]
<1>1. f \in Seq(Dirent) /\ Len(f) \in Nat /\ DOMAIN f = 1 .. Len(f) /\ DOMAIN f \subseteq Nat
  BY EntriesAre
<1>2. CASE k > Len(f)
  <2>1. w = Append(f, e)
    BY <1>2 DEF Written
  <2> HIDE DEF f, Dirent
  <2>2. /\ w \in Seq(Dirent) /\ DOMAIN w = 1 .. Len(f) + 1 /\ w[Len(f) + 1] = e
        /\ \A l \in 1 .. Len(f) : w[l] = f[l]
    BY <1>1, <2>1
  <2>3. /\ Len(f) + 1 \in DOMAIN w /\ Len(f) + 1 \notin DOMAIN f
        /\ \A l \in DOMAIN w : l # Len(f) + 1 => l \in DOMAIN f /\ w[l] = f[l]
        /\ \A l \in DOMAIN f : l \in DOMAIN w
    BY <1>1, <2>2
  <2> QED
    BY <2>2, <2>3 DEF f, Puts
<1>3. CASE ~ (k > Len(f))
  <2>1. w = [f EXCEPT ![k] = e]
    BY <1>3 DEF Written
  <2> HIDE DEF f, Dirent
  <2>2. DOMAIN w = DOMAIN f /\ \A l \in DOMAIN f : w[l] = IF l = k THEN e ELSE f[l]
    BY <2>1
  <2>4. w = [l \in 1 .. Len(f) |-> w[l]]
    BY <1>1, <2>1
  <2>5. \A l \in 1 .. Len(f) : w[l] \in Dirent
    BY <1>1, <2>2
  <2>6. w \in Seq(Dirent)
    BY <1>1, <2>4, <2>5
  <2>3. k # 0 => k \in DOMAIN f /\ w[k] = e
    BY <1>1, <1>3, <2>1
  <2> QED
    BY <2>2, <2>3, <2>6 DEF f, Puts
<1> QED
  BY <1>2, <1>3

\* Where NameI finds place for a new entry.
LEMMA SlotIs ==
  ASSUME entry \in Entries, NEW d \in Ino
  PROVE  Slot(d) \in Nat /\ Slot(d) # 0 /\ (Slot(d) \in DOMAIN entry[d] => entry[d][Slot(d)].ino = Root)
<1> DEFINE free == {k \in DOMAIN entry[d] : entry[d][k].ino = Root}
<1>1. Len(entry[d]) \in Nat /\ DOMAIN entry[d] = 1 .. Len(entry[d]) /\ free \in SUBSET Nat
  BY EntriesAre
<1>2. CASE free = {}
  BY <1>1, <1>2 DEF Slot
<1>3. CASE free # {}
  <2>1. Lowest(free) \in free
    BY <1>1, <1>3, LowestIs
  <2>2. Slot(d) = Lowest(free)
    BY <1>3 DEF Slot
  <2> QED
    BY <1>1, <2>1, <2>2
<1> QED
  BY <1>2, <1>3

\* No call.
LEMMA NoCallIs == NoCall \in CallSet /\ NoCall.pc = "idle"
<1>1. <<>> \in Seq(Name)
  OBVIOUS
<1> QED
  BY <1>1, InoAre DEF NoCall, CallSet

LEMMA FinishIs ==
  ASSUME call \in [Session -> CallSet], NEW s \in Session, NEW c, Finish(s, c)
  PROVE  /\ call' \in [Session -> CallSet] /\ call'[s].pc \in {"idle", "walk"}
         /\ \A r \in Session : r # s => call'[r] = call[r]
<1> DEFINE home == [NoCall EXCEPT !.pc = "walk", !.cmd = "home", !.rest = <<Home[s]>>,
                                  !.path = [abs |-> FALSE, names |-> <<Home[s]>>]]
<1>1. <<Home[s]>> \in Seq(Name) /\ <<>> \in Seq(Name)
  BY DirectoryAssumption
<1>2. home \in CallSet /\ home.pc = "walk"
  BY <1>1, InoAre DEF NoCall, CallSet
<1>3. call' = [call EXCEPT ![s] = IF c.cmd = "login" THEN home ELSE NoCall]
  BY DEF Finish
<1> HIDE DEF home
<1> QED
  BY <1>2, <1>3, NoCallIs

\* Who holds a reference, counts.
LEMMA RefsAre ==
  ASSUME held \in [Ino -> Nat], pinned \in [Ino -> Nat], call \in [Session -> CallSet], NEW i \in Ino
  PROVE  /\ Refs(i) \in Nat /\ Refs(i) >= held[i]
         /\ \A s \in Session :
              /\ call[s].pc \in {"make", "unlink"} /\ call[s].at = i => Refs(i) >= held[i] + 1
              /\ call[s].pc # "out" /\ cdir[s] = i /\ Refs(i) <= 1 =>
                   held[i] = 0 /\ \A r \in Session : ~ (call[r].pc \in {"make", "unlink"} /\ call[r].at = i)
              /\ call[s].pc \in {"make", "unlink"} /\ call[s].at = i /\ Refs(i) <= 1 =>
                   \A r \in Session : call[r].pc \in {"make", "unlink"} /\ call[r].at = i => r = s
<1> DEFINE A == {s \in Session : call[s].pc # "out" /\ cdir[s] = i}
           B == {s \in Session : call[s].pc \in {"make", "unlink"} /\ call[s].at = i}
           a == Cardinality(A)
           b == Cardinality(B)
<1>1. IsFiniteSet(A) /\ IsFiniteSet(B)
  <2>1. A \in SUBSET Session /\ B \in SUBSET Session
    OBVIOUS
  <2> HIDE DEF A, B
  <2> QED
    BY <2>1, DirectoryAssumption, FS_Subset
<1>2. a \in Nat /\ b \in Nat
  <2> HIDE DEF A, B
  <2> QED
    BY <1>1, FS_CardinalityType
<1>3. ASSUME NEW s \in A PROVE a >= 1
  <2> HIDE DEF A, B
  <2>1. a # 0
    BY <1>1, <1>3, FS_EmptySet
  <2> QED
    BY <1>2, <2>1
<1>4. ASSUME NEW s \in B PROVE b >= 1
  <2> HIDE DEF A, B
  <2>1. b # 0
    BY <1>1, <1>4, FS_EmptySet
  <2> QED
    BY <1>2, <2>1
<1>5. ASSUME NEW s \in B, NEW r \in B, b <= 1 PROVE r = s
  <2> HIDE DEF A, B
  <2>1. b = 1
    BY <1>2, <1>4, <1>5
  <2>2. PICK x : B = {x}
    BY <1>1, <2>1, FS_Singleton
  <2> QED
    BY <2>2
<1>6. Refs(i) = held[i] + pinned[i] + a + b /\ held[i] \in Nat /\ pinned[i] \in Nat
  BY DEF Refs
<1> HIDE DEF a, b
<1>7. ASSUME NEW s \in Session
      PROVE  /\ call[s].pc \in {"make", "unlink"} /\ call[s].at = i => b >= 1
             /\ call[s].pc # "out" /\ cdir[s] = i => a >= 1
             /\ call[s].pc \in {"make", "unlink"} /\ call[s].at = i /\ b <= 1 =>
                  \A r \in Session : call[r].pc \in {"make", "unlink"} /\ call[r].at = i => r = s
  BY <1>3, <1>4, <1>5
<1> QED
  BY <1>2, <1>6, <1>7

-----------------------------------------------------------------------------
\* The inductive invariant.

\* No directory has a name twice.
NamesOnce ==
  \A d \in Ino : \A k, l \in DOMAIN entry[d] :
    /\ entry[d][k].ino # Root /\ entry[d][l].ino # Root
    /\ entry[d][k].name = entry[d][l].name
    => k = l

\* No inode has two names.
Unique ==
  \A d, e \in Ino : \A k \in DOMAIN entry[d], l \in DOMAIN entry[e] :
    entry[d][k].ino # Root /\ entry[d][k].ino = entry[e][l].ino => d = e /\ k = l

\* A name is the link that its inode counts.
Backed ==
  \A d \in Ino : \A k \in DOMAIN entry[d] :
    entry[d][k].ino # Root =>
      kind[entry[d][k].ino] # "free" /\ nlink[entry[d][k].ino] = 1

\* What is no directory has no entries, should its inode become one again.
Bare == kind[Root] = "dir" /\ \A d \in Ino : kind[d] # "dir" => entry[d] = <<>>

\* The entry that a removal has found is there still, for that removal alone.
Pending(s) ==
  /\ call[s].slot \in DOMAIN entry[call[s].at] /\ call[s].ino # Root
  /\ entry[call[s].at][call[s].slot] = [name |-> Head(call[s].rest), ino |-> call[s].ino]

\* The name that a creation is to write is new, and the place for it is free.
Ready(s) ==
  /\ Find(call[s].at, Head(call[s].rest)) = {}
  /\ call[s].slot \in DOMAIN entry[call[s].at] => entry[call[s].at][call[s].slot].ino = Root

Removals == {s \in Session : call[s].pc = "unlink"}

Creations == {s \in Session : call[s].pc = "make"}

Writers == {s \in Session : call[s].pc \in {"make", "unlink"}}

Apart ==
  /\ \A r, s \in Removals : call[r].at = call[s].at /\ call[r].slot = call[s].slot => r = s
  /\ \A r, s \in Creations : call[r].at = call[s].at => r = s

Linked ==
  /\ NamesOnce /\ Unique /\ Backed /\ Apart
  /\ \A s \in Removals : Pending(s)
  /\ \A s \in Creations : Ready(s)

\* The directory that a creation has in u_pdir is not freed.
Opened ==
  \A s \in Creations :
    kind[call[s].at] = "dir" /\ call[s].rest # <<>> /\ call[s].slot # 0

Shape ==
  /\ kind \in Kinds /\ nlink \in [Ino -> Int] /\ entry \in Entries
  /\ held \in [Ino -> Nat] /\ pinned \in [Ino -> Nat]
  /\ cdir \in [Session -> Ino] /\ curdir \in [Session -> Seq(Name)]
  /\ call \in [Session -> CallSet]
  /\ age \in [Ino -> Nat]
  /\ astray \in BOOLEAN /\ raced \in BOOLEAN

Tidy == Bare /\ Opened /\ (~ raced => Linked)

\* Nobody begins to create or remove, and who does so goes on.
SameWriters == \A r \in Writers' : r \in Writers /\ call'[r] = call[r]

LEMMA ShapeIsType == Shape /\ calls \in 0 .. MaxCalls <=> TypeOK
BY DEF Shape, TypeOK, CallSet

LEMMA EntriesSeq == Entries = [Ino -> Seq(Dirent)] /\ <<>> \in Seq(Dirent) /\ FreeEntry \in Dirent
<1>1. \A S : <<>> \in Seq(S)
  OBVIOUS
<1> QED
  BY <1>1 DEF Entries, Dirent

\* No entry is new.
Shrunk ==
  \A d \in Ino : \A k \in DOMAIN entry'[d] :
    entry'[d][k].ino # Root => k \in DOMAIN entry[d] /\ entry'[d][k] = entry[d][k]

LEMMA ShrunkKeeps ==
  ASSUME Shrunk
  PROVE  (NamesOnce => NamesOnce') /\ (Unique => Unique')
<1>1. ASSUME NamesOnce, NEW d \in Ino, NEW k \in DOMAIN entry'[d], NEW l \in DOMAIN entry'[d],
             entry'[d][k].ino # Root, entry'[d][l].ino # Root,
             entry'[d][k].name = entry'[d][l].name
      PROVE  k = l
  <2>1. /\ k \in DOMAIN entry[d] /\ entry'[d][k] = entry[d][k]
        /\ l \in DOMAIN entry[d] /\ entry'[d][l] = entry[d][l]
    BY <1>1 DEF Shrunk
  <2> QED
    BY <1>1, <2>1 DEF NamesOnce
<1>2. ASSUME Unique, NEW d \in Ino, NEW e \in Ino,
             NEW k \in DOMAIN entry'[d], NEW l \in DOMAIN entry'[e],
             entry'[d][k].ino # Root, entry'[d][k].ino = entry'[e][l].ino
      PROVE  d = e /\ k = l
  <2>1. /\ k \in DOMAIN entry[d] /\ entry'[d][k] = entry[d][k]
        /\ l \in DOMAIN entry[e] /\ entry'[e][l] = entry[e][l]
    BY <1>2 DEF Shrunk
  <2> QED
    BY <1>2, <2>1 DEF Unique
<1> QED
  BY <1>1, <1>2 DEF NamesOnce, Unique

LEMMA TreeIs ==
  ASSUME Shape, NEW K \in Kinds, NEW e \in Entries, NEW links \in [Ino -> Int], NEW S, Tree(S, K, e, links)
  PROVE  /\ kind' \in Kinds /\ nlink' \in [Ino -> Int] /\ entry' \in Entries /\ age' \in [Ino -> Nat]
         /\ \A i \in S \cap Ino : kind'[i] = "free" /\ entry'[i] = <<>>
         /\ \A i \in Ino \ S : kind'[i] = K[i] /\ entry'[i] = e[i] /\ nlink'[i] = links[i]
<1>1. kind' \in Kinds
  BY DEF Tree, Shape, Kinds
<1>2. entry' \in Entries
  BY EntriesSeq DEF Tree
<1>3. nlink' \in [Ino -> Int] /\ age' \in [Ino -> Nat]
  BY DEF Tree, Shape
<1> QED
  BY <1>1, <1>2, <1>3 DEF Tree

LEMMA WritersKeep ==
  ASSUME SameWriters
  PROVE  /\ \A r \in Removals' : r \in Removals /\ call'[r] = call[r]
         /\ \A r \in Creations' : r \in Creations /\ call'[r] = call[r]
         /\ Apart => Apart'
<1>1. \A r \in Removals' : r \in Removals /\ call'[r] = call[r]
  BY DEF SameWriters, Writers, Removals
<1>2. \A r \in Creations' : r \in Creations /\ call'[r] = call[r]
  BY DEF SameWriters, Writers, Creations
<1>3. Apart => Apart'
  BY <1>1, <1>2 DEF Apart
<1> QED
  BY <1>1, <1>2, <1>3

\* Entries that go do not get into a creation's way.
LEMMA ReadyStays ==
  ASSUME Shrunk, NEW s \in Session, call'[s] = call[s], call[s].at \in Ino, Ready(s)
  PROVE  Ready(s)'
<1>1. PICK d \in Ino : d = call[s].at
  OBVIOUS
<1>2. PICK n : n = Head(call[s].rest)
  OBVIOUS
<1>3. PICK k : k = call[s].slot
  OBVIOUS
<1>4. \A l \in DOMAIN entry[d] : ~ (entry[d][l].ino # Root /\ entry[d][l].name = n)
  BY <1>1, <1>2 DEF Ready, Find
<1>5. \A l \in DOMAIN entry'[d] : ~ (entry'[d][l].ino # Root /\ entry'[d][l].name = n)
  BY <1>4 DEF Shrunk
<1>6. k \in DOMAIN entry'[d] => entry'[d][k].ino = Root
  BY <1>1, <1>3 DEF Shrunk, Ready
<1>7. Find(d, n)' = {}
  BY <1>5 DEF Find
<1> QED
  BY <1>1, <1>2, <1>3, <1>6, <1>7 DEF Ready, Find

\* Where nothing happens to the tree and nobody begins to write.
LEMMA StillTidy ==
  ASSUME Tidy, UNCHANGED <<kind, nlink, entry, raced>>, SameWriters
  PROVE  Tidy'
<1>1. Bare' /\ (NamesOnce => NamesOnce') /\ (Unique => Unique') /\ (Backed => Backed')
  BY DEF Tidy, NamesOnce, Bare, Unique, Backed
<1>2. /\ \A r \in Removals' : r \in Removals /\ call'[r] = call[r]
      /\ \A r \in Creations' : r \in Creations /\ call'[r] = call[r]
      /\ Apart => Apart'
  BY WritersKeep
<1>3. (\A s \in Removals : Pending(s)) => \A s \in Removals' : Pending(s)'
  BY <1>2 DEF Pending
<1>4. (\A s \in Creations : Ready(s)) => \A s \in Creations' : Ready(s)'
  BY <1>2 DEF Ready, Find
<1>5. Opened'
  BY <1>2 DEF Tidy, Opened
<1> QED
  BY <1>1, <1>2, <1>3, <1>4, <1>5 DEF Tidy, Linked

\* Freed inodes have no name and nobody who writes in them.
LEMMA FreedTidy ==
  ASSUME Shape, Tidy, NEW S \in SUBSET Ino, Root \notin S, Tree(S, kind, entry, nlink), UNCHANGED raced,
         SameWriters, \A i \in S : nlink[i] <= 0 /\ \A r \in Writers : call[r].at # i
  PROVE  Tidy'
<1>0. kind \in Kinds /\ entry \in Entries /\ nlink \in [Ino -> Int]
  BY DEF Shape
<1>1. /\ \A i \in S : kind'[i] = "free" /\ entry'[i] = <<>>
      /\ \A i \in Ino \ S : kind'[i] = kind[i] /\ entry'[i] = entry[i] /\ nlink'[i] = nlink[i]
  BY <1>0, TreeIs
<1>2. DOMAIN <<>> = {}
  OBVIOUS
<1>3. \A d \in Ino : \A k \in DOMAIN entry'[d] : d \notin S /\ entry'[d] = entry[d]
  BY <1>1, <1>2
<1>4. Shrunk
  BY <1>3 DEF Shrunk
<1>5. (NamesOnce => NamesOnce') /\ (Unique => Unique')
  BY <1>4, ShrunkKeeps
<1>6. Bare'
  BY <1>1, InoAre DEF Tidy, Bare
<1>7. ASSUME Backed PROVE Backed'
  <2> SUFFICES ASSUME NEW d \in Ino, NEW k \in DOMAIN entry'[d], entry'[d][k].ino # Root
               PROVE  kind'[entry'[d][k].ino] # "free" /\ nlink'[entry'[d][k].ino] = 1
    BY DEF Backed
  <2>1. entry'[d][k] = entry[d][k] /\ k \in DOMAIN entry[d]
    BY <1>3
  <2>2. PICK i \in Ino : i = entry[d][k].ino
    BY <2>1, <1>0, EntriesAre
  <2>3. kind[i] # "free" /\ nlink[i] = 1
    BY <1>7, <2>1, <2>2 DEF Backed
  <2>4. i \notin S
    BY <2>3
  <2> QED
    BY <1>1, <2>1, <2>2, <2>3, <2>4
<1>8. /\ \A r \in Removals' : r \in Removals /\ call'[r] = call[r]
      /\ \A r \in Creations' : r \in Creations /\ call'[r] = call[r]
      /\ Apart => Apart'
  BY WritersKeep
<1>9. \A r \in Removals \cup Creations : r \in Session /\ call[r].at \in Ino /\ call[r].at \notin S
  BY DEF Shape, CallSet, Removals, Creations, Writers
<1>10. ASSUME \A s \in Removals : Pending(s), NEW s \in Removals' PROVE Pending(s)'
  <2>1. entry'[call[s].at] = entry[call[s].at]
    BY <1>1, <1>8, <1>9
  <2> QED
    BY <1>8, <1>10, <2>1 DEF Pending
<1>11. ASSUME \A s \in Creations : Ready(s), NEW s \in Creations' PROVE Ready(s)'
  BY <1>4, <1>8, <1>9, <1>11, ReadyStays
<1>12. Opened'
  BY <1>1, <1>8, <1>9 DEF Tidy, Opened
<1> QED
  BY <1>5, <1>6, <1>7, <1>8, <1>10, <1>11, <1>12 DEF Tidy, Linked

-----------------------------------------------------------------------------
\* The steps of a path walk.

LEMMA CallParts ==
  ASSUME NEW c \in CallSet
  PROVE  /\ c.at \in Ino /\ c.rest \in Seq(Name) /\ c.ino \in Ino /\ c.slot \in Nat
         /\ c.path.names \in Seq(Name)
         /\ c.rest # <<>> => Head(c.rest) \in Name /\ Tail(c.rest) \in Seq(Name)
BY DEF CallSet

\* Nothing but the session's own call changes, and it does not begin to write.
LEMMA OnlyCall ==
  ASSUME Shape, NEW s \in Session, call' \in [Session -> CallSet], call'[s].pc \notin {"make", "unlink"},
         \A r \in Session : r # s => call'[r] = call[r]
  PROVE  SameWriters /\ s \notin Writers'
BY DEF Writers, SameWriters

LEMMA DescendIs ==
  ASSUME Shape, NEW s \in Session, NEW c \in CallSet, Descend(s, c)
  PROVE  /\ call' \in [Session -> CallSet] /\ call'[s].pc = "walk"
         /\ \A r \in Session : r # s => call'[r] = call[r]
<1> DEFINE F == Find(c.at, Head(c.rest))
<1>1. c.at \in Ino /\ Tail(c.rest) \in Seq(Name) /\ F # {}
  BY CallParts DEF Descend
<1>2. F \subseteq DOMAIN entry[c.at] /\ DOMAIN entry[c.at] \subseteq Nat
  BY <1>1, EntriesAre DEF Find, Shape
<1>3. Lowest(F) \in F
  BY <1>1, <1>2, LowestIs
<1>4. PICK i \in Ino : i = entry[c.at][Lowest(F)].ino
  BY <1>1, <1>2, <1>3, EntriesAre DEF Shape
<1> DEFINE n == [c EXCEPT !.pc = "walk", !.at = i, !.age = age[i], !.rest = Tail(c.rest)]
<1>5. n \in CallSet /\ n.pc = "walk"
  BY <1>1 DEF CallSet, Shape
<1>6. call' = [call EXCEPT ![s] = n]
  BY <1>4 DEF Descend
<1> HIDE DEF n
<1> QED
  BY <1>5, <1>6 DEF Shape

\* Where the walk only goes on or ends.
LEMMA PassShape ==
  ASSUME Shape, Tidy, NEW s \in Session, NEW c \in CallSet,
         Missing(s, c) \/ Descend(s, c) \/ Refused(s, c), astray' \in BOOLEAN
  PROVE  Shape' /\ Tidy'
<1>1. /\ call' \in [Session -> CallSet] /\ call'[s].pc \notin {"make", "unlink"}
      /\ \A r \in Session : r # s => call'[r] = call[r]
  BY DescendIs, FinishIs DEF Missing, Refused, Shape
<1>2. UNCHANGED <<kind, nlink, entry, held, pinned, cdir, curdir, age, raced>>
  BY DEF Missing, Descend, Refused, treeVars
<1>3. Tidy'
  BY <1>1, <1>2, OnlyCall, StillTidy
<1> QED
  BY <1>1, <1>2, <1>3 DEF Shape

\* The name is new: the place for it is free, and another creation has been noticed.
LEMMA NewNameCall ==
  ASSUME Shape, NEW s \in Session, NEW c \in CallSet, NewName(s, c)
  PROVE  /\ call' \in [Session -> CallSet] /\ call'[s].pc = "make"
         /\ call'[s].at = c.at /\ call'[s].rest = c.rest /\ call'[s].slot = Slot(c.at) /\ call'[s].cmd = c.cmd
         /\ \A r \in Session : r # s => call'[r] = call[r]
<1>1. Slot(c.at) \in Nat
  BY CallParts, SlotIs DEF Shape
<1>2. PICK k \in Nat : k = Slot(c.at)
  BY <1>1
<1> DEFINE m == [c EXCEPT !.pc = "make", !.slot = k]
<1>3. m \in CallSet /\ m.pc = "make" /\ m.at = c.at /\ m.rest = c.rest /\ m.slot = k /\ m.cmd = c.cmd
  BY DEF CallSet
<1>4. call' = [call EXCEPT ![s] = m]
  BY <1>2 DEF NewName
<1> HIDE DEF m
<1> QED
  BY <1>2, <1>3, <1>4 DEF Shape

LEMMA NewNameTidy ==
  ASSUME Shape, Tidy, NEW s \in Session, NEW c \in CallSet, call[s].pc \in {"idle", "walk"},
         NewName(s, c), astray' \in BOOLEAN
  PROVE  Shape' /\ Tidy'
<1>1. /\ call' \in [Session -> CallSet] /\ call'[s].pc = "make"
      /\ call'[s].at = c.at /\ call'[s].rest = c.rest /\ call'[s].slot = Slot(c.at)
      /\ \A r \in Session : r # s => call'[r] = call[r]
  BY NewNameCall
<1>2. /\ UNCHANGED <<kind, nlink, entry, held, pinned, cdir, curdir, age>>
      /\ c.rest # <<>> /\ kind[c.at] = "dir" /\ Find(c.at, Head(c.rest)) = {} /\ c.at \in Ino
      /\ raced' = (raced \/ \E r \in Session : call[r].pc = "make" /\ call[r].at = c.at)
  BY CallParts DEF NewName, treeVars
<1>3. /\ Slot(c.at) # 0
      /\ Slot(c.at) \in DOMAIN entry[c.at] => entry[c.at][Slot(c.at)].ino = Root
  BY <1>2, SlotIs DEF Shape
<1>4. Shape'
  BY <1>1, <1>2 DEF Shape
<1>5. Bare' /\ (NamesOnce => NamesOnce') /\ (Unique => Unique') /\ (Backed => Backed')
  BY <1>2 DEF Tidy, NamesOnce, Bare, Unique, Backed
<1>6. /\ \A r \in Removals' : r \in Removals /\ call'[r] = call[r]
      /\ \A r \in Creations' : r # s => r \in Creations /\ call'[r] = call[r]
  BY <1>1 DEF Removals, Creations
<1>7. Opened'
  BY <1>1, <1>2, <1>3, <1>6 DEF Tidy, Opened
<1>8. ASSUME ~ raced' PROVE Linked'
  <2>1. ~ raced /\ Linked /\ \A r \in Session : ~ (call[r].pc = "make" /\ call[r].at = c.at)
    BY <1>2, <1>8 DEF Tidy
  <2>2. Apart'
    <3>1. \A r \in Creations' : r # s => call'[r].at # c.at
      BY <1>6, <2>1 DEF Creations
    <3> QED
      BY <1>1, <1>6, <2>1, <3>1 DEF Linked, Apart
  <2>3. \A r \in Removals' : Pending(r)'
    BY <1>2, <1>6, <2>1 DEF Linked, Pending
  <2>4. Ready(s)'
    BY <1>1, <1>2, <1>3 DEF Ready, Find
  <2>5. \A r \in Creations' : r # s => Ready(r)'
    BY <1>2, <1>6, <2>1 DEF Linked, Ready, Find
  <2> QED
    BY <1>5, <2>1, <2>2, <2>3, <2>4, <2>5 DEF Linked
<1> QED
  BY <1>4, <1>5, <1>7, <1>8 DEF Tidy

\* UnLink has found an entry: it is there, and another removal of it has been noticed.
LEMMA VictimTidy ==
  ASSUME Shape, Tidy, NEW s \in Session, NEW c \in CallSet, Victim(s, c), astray' \in BOOLEAN
  PROVE  Shape' /\ Tidy'
<1> DEFINE d == c.at
           n == Head(c.rest)
           F == Find(d, n)
<1>1. d \in Ino /\ n \in Name /\ c.rest \in Seq(Name) /\ F # {} /\ entry \in Entries
      /\ UNCHANGED <<kind, nlink, entry, held, pinned, cdir, curdir, age>>
  <2>1. c.rest # <<>>
    BY DEF Victim
  <2> QED
    BY <2>1, CallParts DEF Victim, Shape, treeVars
<1>2. F \subseteq DOMAIN entry[d] /\ DOMAIN entry[d] \subseteq Nat
  BY <1>1, EntriesAre DEF Find
<1>3. PICK k \in F : k = Lowest(F)
  BY <1>1, <1>2, LowestIs
<1>4. /\ k \in DOMAIN entry[d] /\ k \in Nat /\ entry[d][k].ino # Root /\ entry[d][k].name = n
      /\ entry[d][k] \in [name : Name, ino : Ino \ {Root}]
  BY <1>1, <1>2, EntriesAre DEF Find
<1> DEFINE new == [NoCall EXCEPT !.pc = "unlink", !.cmd = "rm", !.at = d, !.slot = k,
                                 !.rest = c.rest, !.ino = entry[d][k].ino]
<1>5. /\ new \in CallSet /\ new.pc = "unlink" /\ new.at = d /\ new.slot = k /\ new.rest = c.rest
      /\ new.ino = entry[d][k].ino
  BY <1>1, <1>4, NoCallIs DEF NoCall, CallSet
<1>6. call' = [call EXCEPT ![s] = new]
      /\ raced' = (raced \/ \E r \in Session : call[r].pc = "unlink" /\ call[r].at = d /\ call[r].slot = k)
  BY <1>3 DEF Victim
<1> HIDE DEF new
<1>7. call' \in [Session -> CallSet] /\ call'[s] = new /\ \A r \in Session : r # s => call'[r] = call[r]
  BY <1>5, <1>6 DEF Shape
<1>8. Shape'
  BY <1>1, <1>6, <1>7 DEF Shape
<1>9. Bare' /\ (NamesOnce => NamesOnce') /\ (Unique => Unique') /\ (Backed => Backed')
  BY <1>1 DEF Tidy, NamesOnce, Bare, Unique, Backed
<1>11. \A r \in Creations' : r \in Creations /\ call'[r] = call[r]
  BY <1>5, <1>7 DEF Creations
<1>10. ASSUME ~ raced' PROVE Linked'
  <2>1. /\ ~ raced /\ Linked
        /\ \A r \in Session : ~ (call[r].pc = "unlink" /\ call[r].at = d /\ call[r].slot = k)
    BY <1>6, <1>10 DEF Tidy
  <2>2. Apart'
    BY <1>5, <1>7, <2>1 DEF Linked, Apart, Removals, Creations
  <2>3. Pending(s)'
    BY <1>1, <1>4, <1>5, <1>7 DEF Pending
  <2>4. \A r \in Removals' : r # s => Pending(r)'
    BY <1>1, <1>7, <2>1 DEF Linked, Pending, Removals
  <2>5. \A r \in Creations' : Ready(r)'
    BY <1>1, <1>11, <2>1 DEF Linked, Ready, Find
  <2> QED
    BY <1>9, <2>1, <2>2, <2>3, <2>4, <2>5 DEF Linked
<1>12. Opened'
  BY <1>1, <1>11 DEF Tidy, Opened
<1> QED
  BY <1>8, <1>9, <1>10, <1>12 DEF Tidy

\* A directory that nobody has a name for goes with its last reference.
LEMMA EnterTidy ==
  ASSUME Shape, Tidy, NEW s \in Session, NEW c \in CallSet, call[s].pc \in {"idle", "walk"},
         Enter(s, c), astray' \in BOOLEAN
  PROVE  Shape' /\ Tidy'
<1> DEFINE S == IF c.at # cdir[s] /\ Goes(cdir[s], 1, nlink) THEN {cdir[s]} ELSE {}
<1>1. /\ call' \in [Session -> CallSet] /\ call'[s].pc \notin {"make", "unlink"}
      /\ \A r \in Session : r # s => call'[r] = call[r]
  BY FinishIs DEF Enter, Shape
<1>2. Tree(S, kind, entry, nlink) /\ UNCHANGED <<held, pinned, raced>> /\ entry \in Entries
      /\ nlink \in [Ino -> Int]
  BY DEF Enter, Shape
<1>3. cdir' = [cdir EXCEPT ![s] = c.at] /\ SetCurDir(s, c.path) /\ c.at \in Ino /\ c.path.names \in Seq(Name)
  BY CallParts DEF Enter
<1>4. curdir' \in [Session -> Seq(Name)]
  <2>1. curdir[s] \in Seq(Name)
    BY DEF Shape
  <2>2. curdir[s] \o c.path.names \in Seq(Name)
    BY <1>3, <2>1
  <2> QED
    BY <1>3, <2>2 DEF SetCurDir, Shape
<1>5. cdir' \in [Session -> Ino]
  BY <1>3 DEF Shape
<1>6. Shape'
  <2>1. kind' \in Kinds /\ nlink' \in [Ino -> Int] /\ entry' \in Entries /\ age' \in [Ino -> Nat]
    <3> HIDE DEF S
    <3> QED
      BY <1>2, TreeIs DEF Shape
  <2> QED
    BY <1>1, <1>2, <1>4, <1>5, <2>1 DEF Shape
<1>7. \A i \in S : /\ i \in Ino /\ i # Root /\ nlink[i] <= 0
                   /\ \A r \in Writers : call[r].at # i
  <2> SUFFICES ASSUME Goes(cdir[s], 1, nlink), NEW r \in Writers, call[r].at = cdir[s]
               PROVE  FALSE
    BY DEF Goes, Shape
  <2>1. PICK i \in Ino : i = cdir[s]
    BY DEF Shape
  <2>2. Refs(i) <= 1
    BY <2>1 DEF Goes
  <2> QED
    BY <2>1, <2>2, RefsAre DEF Shape, Writers
<1> HIDE DEF S
<1>8. PICK T : T = S
  OBVIOUS
<1>9. T \in SUBSET Ino /\ Root \notin T /\ Tree(T, kind, entry, nlink)
      /\ \A i \in T : nlink[i] <= 0 /\ \A r \in Writers : call[r].at # i
  BY <1>2, <1>7, <1>8
<1>10. SameWriters
  BY <1>1, OnlyCall
<1>11. UNCHANGED raced
  BY <1>2
<1>12. Tidy'
  BY <1>9, <1>10, <1>11, FreedTidy
<1> QED
  BY <1>6, <1>12

LEMMA TouchThereTidy ==
  ASSUME Shape, Tidy, NEW s \in Session, NEW c \in CallSet, TouchThere(s, c), astray' \in BOOLEAN
  PROVE  Shape' /\ Tidy'
<1>1. /\ call' \in [Session -> CallSet] /\ call'[s].pc \notin {"make", "unlink"}
      /\ \A r \in Session : r # s => call'[r] = call[r]
  BY FinishIs DEF TouchThere, Shape
<1>2. /\ c.at \in Ino /\ kind[c.at] # "dir" /\ kind' = [kind EXCEPT ![c.at] = "file"]
      /\ nlink' = [nlink EXCEPT ![c.at] = 1] /\ held' = [held EXCEPT ![c.at] = @ + 1]
      /\ UNCHANGED <<entry, pinned, cdir, curdir, age, raced>>
  BY CallParts DEF TouchThere
<1>3. Shape'
  BY <1>1, <1>2 DEF Shape, Kinds
<1>4. /\ kind'[c.at] = "file" /\ nlink'[c.at] = 1
      /\ \A i \in Ino : i # c.at => kind'[i] = kind[i] /\ nlink'[i] = nlink[i]
  BY <1>2 DEF Shape, Kinds
<1>5. (NamesOnce => NamesOnce') /\ (Unique => Unique')
  BY <1>2 DEF NamesOnce, Unique
<1>6. Bare'
  BY <1>2, <1>4, InoAre DEF Tidy, Bare
<1>7. Backed => Backed'
  <2>1. \A d \in Ino : \A k \in DOMAIN entry[d] : entry[d][k].ino \in Ino
    BY EntriesAre DEF Shape
  <2> QED
    BY <1>2, <1>4, <2>1 DEF Backed
<1>8. /\ \A r \in Removals' : r \in Removals /\ call'[r] = call[r]
      /\ \A r \in Creations' : r \in Creations /\ call'[r] = call[r]
      /\ Apart => Apart'
  <2>1. SameWriters
    BY <1>1, OnlyCall
  <2> QED
    BY <2>1, WritersKeep
<1>9. (\A r \in Removals : Pending(r)) => \A r \in Removals' : Pending(r)'
  BY <1>2, <1>8 DEF Pending
<1>10. (\A r \in Creations : Ready(r)) => \A r \in Creations' : Ready(r)'
  BY <1>2, <1>8 DEF Ready, Find
<1>11. Opened'
  <2> SUFFICES ASSUME NEW r \in Creations'
               PROVE  kind'[call'[r].at] = "dir" /\ call'[r].rest # <<>> /\ call'[r].slot # 0
    BY DEF Opened
  <2>1. r \in Creations /\ call'[r] = call[r] /\ call[r].at \in Ino
    BY <1>8 DEF Creations, Shape, CallSet
  <2>2. kind[call[r].at] = "dir" /\ call[r].rest # <<>> /\ call[r].slot # 0
    BY <2>1 DEF Tidy, Opened
  <2> QED
    BY <1>2, <1>4, <2>1, <2>2
<1> QED
  BY <1>2, <1>3, <1>5, <1>6, <1>7, <1>8, <1>9, <1>10, <1>11 DEF Tidy, Linked

LEMMA FurtherTidy ==
  ASSUME Shape, Tidy, NEW s \in Session, NEW c \in CallSet, call[s].pc \in {"idle", "walk"},
         Further(s, c)
  PROVE  Shape' /\ Tidy'
<1>1. astray' \in BOOLEAN
  BY DEF Further, Shape
<1>2. CASE Missing(s, c) \/ Descend(s, c) \/ Refused(s, c)
  BY <1>1, <1>2, PassShape
<1>3. CASE NewName(s, c)
  BY <1>1, <1>3, NewNameTidy
<1>4. CASE Victim(s, c)
  BY <1>1, <1>4, VictimTidy
<1>5. CASE Enter(s, c)
  BY <1>1, <1>5, EnterTidy
<1>6. CASE TouchThere(s, c)
  BY <1>1, <1>6, TouchThereTidy
<1> QED
  BY <1>2, <1>3, <1>4, <1>5, <1>6 DEF Further

-----------------------------------------------------------------------------
\* The rest of a creation: the inode i gets the name, e is what WriteDir leaves of
\* the entries, and the directories in S go with the last reference.
Makes(s, d, i, S, e) ==
  /\ call[s].pc = "make" /\ d = call[s].at /\ kind[d] = "dir"
  /\ kind[i] = "free" /\ Refs(i) = 0 /\ i # Root /\ i # d
  /\ S = IF Goes(d, 1, nlink) THEN {d} ELSE {}
  /\ Head(call[s].rest) \in Name
  /\ \/ e = entry /\ call[s].slot > Len(entry[d])
     \/ e = [entry EXCEPT ![d] = Written(d, call[s].slot, [name |-> Head(call[s].rest), ino |-> i])]
  /\ kind' \in Kinds /\ nlink' \in [Ino -> Int] /\ entry' \in Entries /\ age' \in [Ino -> Nat]
  /\ held' \in [Ino -> Nat] /\ \A x \in Ino \ {i} : held'[x] = held[x]
  /\ kind'[i] # "free" /\ nlink'[i] = 1
  /\ \A x \in Ino \ (S \cup {i}) : kind'[x] = kind[x] /\ nlink'[x] = nlink[x]
  /\ \A x \in S : x = d /\ kind'[x] = "free" /\ entry'[x] = <<>>
  /\ \A x \in Ino \ S : entry'[x] = e[x]
  /\ \A x \in Ino : age'[x] = IF x \in S THEN age[x] + 1 ELSE age[x]
  /\ Finish(s, call[s]) /\ UNCHANGED <<pinned, cdir, curdir, astray, raced>>

LEMMA MakeIs ==
  ASSUME Shape, Tidy, NEW s \in Session, Make(s)
  PROVE  \E d \in Ino : \E i \in Ino : \E S \in SUBSET Ino : \E e \in Entries : Makes(s, d, i, S, e)
<1>1. PICK d \in Ino : d = call[s].at
  BY DEF Shape, CallSet
<1>2. call[s].pc = "make" /\ kind[d] = "dir" /\ call[s].rest # <<>> /\ call[s].slot \in Nat
      /\ call[s].rest \in Seq(Name)
  BY <1>1 DEF Make, Tidy, Opened, Creations, Shape, CallSet
<1>3. Head(call[s].rest) \in Name
  BY <1>2
<1>4. PICK i \in Ino, full \in BOOLEAN :
        /\ kind[i] = "free" /\ Refs(i) = 0
        /\ full => call[s].slot > Len(entry[d])
        /\ Tree(IF Goes(d, 1, nlink) THEN {d} ELSE {},
                [kind EXCEPT ![i] = IF call[s].cmd = "touch" THEN "file" ELSE "dir"],
                IF full THEN entry
                ELSE [entry EXCEPT ![d] = Written(d, call[s].slot, [name |-> Head(call[s].rest), ino |-> i])],
                [nlink EXCEPT ![i] = 1])
        /\ held' = [held EXCEPT ![i] = IF call[s].cmd = "touch" /\ ~ full THEN 1 ELSE 0]
  BY <1>1 DEF Make
<1>5. i # Root /\ i # d
  BY <1>2, <1>4 DEF Tidy, Bare
<1>6. PICK S \in SUBSET Ino : S = IF Goes(d, 1, nlink) THEN {d} ELSE {}
  OBVIOUS
<1>7. PICK E : E = [name |-> Head(call[s].rest), ino |-> i]
  OBVIOUS
<1>8. E \in Dirent
  BY <1>3, <1>5, <1>7 DEF Dirent
<1>9. PICK w : w = Written(d, call[s].slot, E)
  OBVIOUS
<1>10. w \in Seq(Dirent)
  BY <1>2, <1>8, <1>9, WrittenIs DEF Shape
<1>11. PICK e \in Entries : e = IF full THEN entry ELSE [entry EXCEPT ![d] = w]
  BY <1>10, EntriesSeq DEF Shape
<1>12. PICK K \in Kinds : K = [kind EXCEPT ![i] = IF call[s].cmd = "touch" THEN "file" ELSE "dir"]
  <2>1. CASE call[s].cmd = "touch"
    <3>1. [kind EXCEPT ![i] = "file"] \in Kinds
      BY DEF Shape, Kinds
    <3> QED
      BY <2>1, <3>1
  <2>2. CASE call[s].cmd # "touch"
    <3>1. [kind EXCEPT ![i] = "dir"] \in Kinds
      BY DEF Shape, Kinds
    <3> QED
      BY <2>2, <3>1
  <2> QED
    BY <2>1, <2>2
<1>13. PICK links \in [Ino -> Int] : links = [nlink EXCEPT ![i] = 1]
  <2>1. nlink \in [Ino -> Int] /\ 1 \in Int
    BY DEF Shape
  <2> QED
    BY <2>1
<1>14. Tree(S, K, e, links)
  BY <1>4, <1>6, <1>7, <1>9, <1>11, <1>12, <1>13
<1>15. /\ kind' \in Kinds /\ nlink' \in [Ino -> Int] /\ entry' \in Entries /\ age' \in [Ino -> Nat]
       /\ \A x \in S \cap Ino : kind'[x] = "free" /\ entry'[x] = <<>>
       /\ \A x \in Ino \ S : kind'[x] = K[x] /\ entry'[x] = e[x] /\ nlink'[x] = links[x]
  BY <1>14, TreeIs
<1>16. K[i] # "free" /\ links[i] = 1 /\ \A x \in Ino \ {i} : K[x] = kind[x] /\ links[x] = nlink[x]
  BY <1>12, <1>13 DEF Shape, Kinds
<1>17. i \notin S /\ \A x \in S : x = d
  BY <1>5, <1>6
<1>18. /\ kind'[i] # "free" /\ nlink'[i] = 1
       /\ \A x \in Ino \ (S \cup {i}) : kind'[x] = kind[x] /\ nlink'[x] = nlink[x]
       /\ \A x \in S : x = d /\ kind'[x] = "free" /\ entry'[x] = <<>>
       /\ \A x \in Ino \ S : entry'[x] = e[x]
  BY <1>15, <1>16, <1>17
<1>19. \A x \in Ino : age'[x] = IF x \in S THEN age[x] + 1 ELSE age[x]
  BY <1>14 DEF Tree
<1>20. held' \in [Ino -> Nat] /\ \A x \in Ino \ {i} : held'[x] = held[x]
  BY <1>4 DEF Shape
<1>21. \/ e = entry /\ call[s].slot > Len(entry[d])
       \/ e = [entry EXCEPT ![d] = Written(d, call[s].slot, [name |-> Head(call[s].rest), ino |-> i])]
  BY <1>4, <1>7, <1>9, <1>11
<1>22. Finish(s, call[s]) /\ UNCHANGED <<pinned, cdir, curdir, astray, raced>>
  BY DEF Make
<1>23. Makes(s, d, i, S, e)
  BY <1>1, <1>2, <1>3, <1>4, <1>5, <1>6, <1>15, <1>18, <1>19, <1>20, <1>21, <1>22 DEF Makes
<1> QED
  BY <1>23

\* The entries: those of other directories are as they were, and in d there is the new
\* one at a place that was free, or nothing new.
LEMMA MakesPuts ==
  ASSUME Shape, NEW s \in Session, NEW d \in Ino, NEW i \in Ino, NEW S, NEW e \in Entries, Makes(s, d, i, S, e)
  PROVE  /\ \A x \in Ino : x # d => e[x] = entry[x]
         /\ call[s].slot # 0 /\ Ready(s) =>
              \/ e[d] = entry[d] /\ call[s].slot > Len(entry[d])
              \/ Puts(entry[d], e[d], [name |-> Head(call[s].rest), ino |-> i])
<1>1. \A x \in Ino : x # d => e[x] = entry[x]
  BY DEF Makes, Shape, Entries
<1>2. PICK E : E = [name |-> Head(call[s].rest), ino |-> i]
  OBVIOUS
<1>3. E \in Dirent
  BY <1>2 DEF Makes, Dirent
<1>4. PICK k \in Nat : k = call[s].slot
  BY DEF Shape, CallSet
<1>5. PICK w : w = Written(d, k, E)
  OBVIOUS
<1>6. ASSUME k # 0, Ready(s), e # entry
      PROVE  Puts(entry[d], e[d], E)
  <2>1. e = [entry EXCEPT ![d] = w]
    BY <1>2, <1>4, <1>5, <1>6 DEF Makes
  <2>2. e[d] = w
    BY <2>1 DEF Shape, Entries
  <2>3. k \in DOMAIN entry[d] => entry[d][k].ino = Root
    BY <1>4, <1>6 DEF Makes, Ready
  <2>4. Puts(entry[d], w, E)
    BY <1>3, <1>5, <1>6, <2>3, WrittenIs DEF Shape
  <2> QED
    BY <2>2, <2>4
<1>7. ASSUME k # 0, Ready(s), e = entry
      PROVE  \/ e[d] = entry[d] /\ k > Len(entry[d])
             \/ Puts(entry[d], e[d], E)
  <2>1. CASE k > Len(entry[d])
    BY <1>7, <2>1
  <2>2. CASE ~ (k > Len(entry[d]))
    <3>1. e = [entry EXCEPT ![d] = w]
      BY <1>2, <1>4, <1>5, <2>2 DEF Makes
    <3>2. e[d] = w
      BY <3>1 DEF Shape, Entries
    <3>3. k \in DOMAIN entry[d] => entry[d][k].ino = Root
      BY <1>4, <1>7 DEF Makes, Ready
    <3>4. Puts(entry[d], w, E)
      BY <1>3, <1>5, <1>7, <3>3, WrittenIs DEF Shape
    <3> QED
      BY <3>2, <3>4
  <2> QED
    BY <2>1, <2>2
<1> QED
  BY <1>1, <1>2, <1>4, <1>6, <1>7

\* MakNode gives a name that the directory has not got to an inode that has none.
LEMMA MakeTidy ==
  ASSUME Shape, Tidy, NEW s \in Session, Make(s)
  PROVE  Shape' /\ Tidy'
<1>1. PICK d \in Ino, i \in Ino, S \in SUBSET Ino, e \in Entries : Makes(s, d, i, S, e)
  BY MakeIs
<1>2. PICK n \in Name : n = Head(call[s].rest)
  BY <1>1 DEF Makes
<1>3. PICK E : E = [name |-> n, ino |-> i]
  OBVIOUS
<1>4. /\ call[s].pc = "make" /\ d = call[s].at /\ kind[d] = "dir"
      /\ kind[i] = "free" /\ i # Root /\ i # d /\ E.ino = i /\ E.name = n
      /\ S = (IF Goes(d, 1, nlink) THEN {d} ELSE {})
      /\ kind' \in Kinds /\ nlink' \in [Ino -> Int] /\ entry' \in Entries
      /\ kind'[i] # "free" /\ nlink'[i] = 1
      /\ \A x \in Ino \ (S \cup {i}) : kind'[x] = kind[x] /\ nlink'[x] = nlink[x]
      /\ \A x \in S : x = d /\ kind'[x] = "free" /\ entry'[x] = <<>>
      /\ \A x \in Ino \ S : entry'[x] = e[x]
      /\ UNCHANGED raced
  BY <1>1, <1>3 DEF Makes
<1>5. /\ call' \in [Session -> CallSet] /\ call'[s].pc \notin {"make", "unlink"}
      /\ \A r \in Session : r # s => call'[r] = call[r]
  BY <1>1, FinishIs DEF Makes, Shape
<1>6. Shape'
  BY <1>1, <1>5 DEF Makes, Shape
<1>7. /\ \A x \in Ino : x # d => e[x] = entry[x]
      /\ call[s].slot # 0 /\ Ready(s) =>
           e[d] = entry[d] \/ Puts(entry[d], e[d], E)
  BY <1>1, <1>2, <1>3, MakesPuts
<1>8. s \in Creations /\ call[s].slot # 0
  BY <1>4 DEF Creations, Tidy, Opened
<1>9. /\ \A r \in Removals' : r \in Removals /\ call'[r] = call[r] /\ r # s
      /\ \A r \in Creations' : r \in Creations /\ call'[r] = call[r] /\ r # s
      /\ Apart => Apart'
  <2>1. SameWriters /\ s \notin Writers'
    BY <1>5, OnlyCall
  <2> QED
    BY <2>1, WritersKeep DEF Writers, Removals, Creations
\* The last reference to d is this call's.
<1>10. ASSUME NEW r \in Writers, r # s PROVE call[r].at \in Ino /\ call[r].at \notin S
  <2>1. call[r].pc \in {"make", "unlink"} /\ r \in Session /\ call[r].at \in Ino
    BY <1>10 DEF Writers, Shape, CallSet
  <2>2. ASSUME Refs(d) <= 1 PROVE call[r].at # d
    BY <1>4, <1>10, <2>1, <2>2, RefsAre DEF Shape
  <2>3. d \in S => Refs(d) = 1
    BY <1>4 DEF Goes
  <2> QED
    BY <1>4, <2>1, <2>2, <2>3
<1>11. entry[i] = <<>> /\ e[i] = <<>> /\ i \notin S /\ Root \notin S
  <2>1. Root \notin S
    BY <1>4 DEF Goes
  <2> QED
    BY <1>4, <1>7, <2>1 DEF Tidy, Bare
<1>12. Bare'
  <2>1. ASSUME NEW x \in Ino, kind'[x] # "dir" PROVE entry'[x] = <<>>
    <3>1. CASE x \in S
      BY <1>4, <3>1
    <3>2. CASE x = i
      BY <1>4, <1>11, <3>2
    <3>3. CASE x \notin S /\ x # i
      <4>1. kind[x] # "dir" /\ x # d
        BY <1>4, <2>1, <3>3
      <4>2. entry[x] = <<>>
        BY <4>1 DEF Tidy, Bare
      <4> QED
        BY <1>4, <1>7, <3>3, <4>1, <4>2
    <3> QED
      BY <3>1, <3>2, <3>3
  <2>2. kind'[Root] = "dir"
    BY <1>4, <1>11, InoAre DEF Tidy, Bare
  <2> QED
    BY <2>1, <2>2 DEF Bare
<1>13. Opened'
  <2> SUFFICES ASSUME NEW r \in Creations'
               PROVE  kind'[call'[r].at] = "dir" /\ call'[r].rest # <<>> /\ call'[r].slot # 0
    BY DEF Opened
  <2>1. r \in Creations /\ call'[r] = call[r] /\ call[r].at \in Ino /\ call[r].at \notin S
    BY <1>9, <1>10 DEF Creations, Writers
  <2>2. kind[call[r].at] = "dir" /\ call[r].rest # <<>> /\ call[r].slot # 0
    BY <2>1 DEF Tidy, Opened
  <2> QED
    BY <1>4, <2>1, <2>2
<1>14. ASSUME Linked PROVE Linked'
  <2>1. Ready(s) /\ NamesOnce /\ Unique /\ Backed /\ Apart
    BY <1>8, <1>14 DEF Linked
  <2>2. e[d] = entry[d] \/ Puts(entry[d], e[d], E)
    BY <1>7, <1>8, <2>1
  <2>3. PICK k : /\ \A l \in DOMAIN e[d] : (l = k /\ e[d][l] = E) \/ (l # k /\ l \in DOMAIN entry[d] /\ e[d][l] = entry[d][l])
                 /\ \A l \in DOMAIN entry[d] : l = k => entry[d][l].ino = Root
                 /\ \A l \in DOMAIN entry[d] : l \in DOMAIN e[d]
    <3>1. CASE e[d] = entry[d]
      <4>1. PICK k : k \notin DOMAIN entry[d]
        <5>1. DOMAIN entry[d] \subseteq Nat
          BY EntriesAre DEF Shape
        <5>2. -1 \notin DOMAIN entry[d]
          BY <5>1
        <5> QED
          BY <5>2
      <4> QED
        BY <3>1, <4>1
    <3>2. CASE Puts(entry[d], e[d], E)
      BY <3>2 DEF Puts
    <3> QED
      BY <2>2, <3>1, <3>2
\* Any entry is E, or was there.
  <2>4. ASSUME NEW x \in Ino, NEW l \in DOMAIN entry'[x]
        PROVE  \/ x = d /\ l = k /\ entry'[x][l] = E
               \/ (x # d \/ l # k) /\ l \in DOMAIN entry[x] /\ entry'[x][l] = entry[x][l]
    <3>1. x \notin S
      <4>1. DOMAIN <<>> = {}
        OBVIOUS
      <4> QED
        BY <1>4, <4>1
    <3>2. entry'[x] = e[x]
      BY <1>4, <3>1
    <3> QED
      BY <1>7, <2>3, <3>2
  <2>5. \A x \in Ino : \A l \in DOMAIN entry[x] : entry[x][l].ino # i
    BY <1>4, <2>1 DEF Backed
  <2>6. NamesOnce'
    <3> SUFFICES ASSUME NEW x \in Ino, NEW l \in DOMAIN entry'[x], NEW m \in DOMAIN entry'[x],
                        entry'[x][l].ino # Root, entry'[x][m].ino # Root,
                        entry'[x][l].name = entry'[x][m].name, l # m
                 PROVE  FALSE
      BY DEF NamesOnce
    <3>1. \A j \in DOMAIN entry[d] : entry[d][j].ino # Root => entry[d][j].name # n
      BY <1>2, <1>4, <2>1 DEF Ready, Find
    <3> QED
      BY <1>4, <2>1, <2>4, <3>1 DEF NamesOnce
  <2>7. Unique'
    BY <1>4, <2>1, <2>4, <2>5 DEF Unique
  <2>8. Backed'
    <3> SUFFICES ASSUME NEW x \in Ino, NEW l \in DOMAIN entry'[x], entry'[x][l].ino # Root
                 PROVE  kind'[entry'[x][l].ino] # "free" /\ nlink'[entry'[x][l].ino] = 1
      BY DEF Backed
    <3>1. CASE entry'[x][l] = E
      BY <1>4, <3>1
    <3>2. CASE l \in DOMAIN entry[x] /\ entry'[x][l] = entry[x][l]
      <4>1. PICK y \in Ino : y = entry[x][l].ino
        BY <3>2, EntriesAre DEF Shape
      <4>2. kind[y] # "free" /\ nlink[y] = 1 /\ y # i
        BY <2>1, <2>5, <3>2, <4>1 DEF Backed
      <4>3. y \notin S
        BY <1>4, <4>2 DEF Goes
      <4> QED
        BY <1>4, <3>2, <4>1, <4>2, <4>3
    <3> QED
      BY <2>4, <3>1, <3>2
  <2>9. ASSUME NEW r \in Removals' PROVE Pending(r)'
    <3>1. r \in Removals /\ call'[r] = call[r] /\ r # s /\ Pending(r)
      BY <1>9, <1>14 DEF Linked
    <3>2. PICK x \in Ino : x = call[r].at /\ x \notin S
      BY <1>10, <3>1 DEF Removals, Writers
    <3>3. PICK l \in DOMAIN entry[x] : l = call[r].slot
      BY <3>1, <3>2 DEF Pending
    <3>4. entry[x][l].ino # Root
      BY <3>1, <3>2, <3>3 DEF Pending
    <3>5. l \in DOMAIN e[x] /\ e[x][l] = entry[x][l]
      BY <1>7, <2>3, <3>4
    <3>6. entry'[x] = e[x]
      BY <1>4, <3>2
    <3> QED
      BY <3>1, <3>2, <3>3, <3>5, <3>6 DEF Pending
  <2>10. ASSUME NEW r \in Creations' PROVE Ready(r)'
    <3>1. r \in Creations /\ call'[r] = call[r] /\ r # s /\ Ready(r)
      BY <1>9, <1>14 DEF Linked
    <3>2. PICK x \in Ino : x = call[r].at /\ x \notin S
      BY <1>10, <3>1 DEF Creations, Writers
    <3>3. x # d
      BY <1>4, <1>8, <2>1, <3>1, <3>2 DEF Apart
    <3>4. entry'[x] = entry[x]
      BY <1>4, <1>7, <3>2, <3>3
    <3> QED
      BY <3>1, <3>2, <3>4 DEF Ready, Find
  <2> QED
    BY <1>9, <2>1, <2>6, <2>7, <2>8, <2>9, <2>10 DEF Linked
<1> QED
  BY <1>4, <1>6, <1>12, <1>13, <1>14 DEF Tidy

LEMMA NoInodeTidy ==
  ASSUME Shape, Tidy, NEW s \in Session, NoInode(s)
  PROVE  Shape' /\ Tidy'
<1>1. /\ call' \in [Session -> CallSet] /\ call'[s].pc \notin {"make", "unlink"}
      /\ \A r \in Session : r # s => call'[r] = call[r]
  BY FinishIs DEF NoInode, Shape
<1>2. UNCHANGED <<kind, nlink, entry, held, cdir, curdir, age, astray, raced>>
  BY DEF NoInode, treeVars
<1>3. pinned' \in [Ino -> Nat]
  <2>1. call[s].at \in Ino
    BY DEF Shape, CallSet
  <2> QED
    BY <2>1 DEF NoInode, Shape
<1>4. Tidy'
  BY <1>1, <1>2, OnlyCall, StillTidy
<1> QED
  BY <1>1, <1>2, <1>3, <1>4 DEF Shape

LEMMA UnLinkTidy ==
  ASSUME Shape, Tidy, NEW s \in Session, UnLink(s)
  PROVE  Shape' /\ Tidy'
<1>1. PICK d \in Ino, v \in Ino, k \in Nat : d = call[s].at /\ v = call[s].ino /\ k = call[s].slot
  BY DEF Shape, CallSet
<1>2. PICK links : links = [nlink EXCEPT ![v] = @ - 1]
  OBVIOUS
<1>0. links \in [Ino -> Int]
  BY <1>2 DEF Shape
<1>3. /\ entry[d] \in Seq(Dirent) /\ Len(entry[d]) \in Nat /\ DOMAIN entry[d] = 1 .. Len(entry[d])
      /\ entry \in Entries
  BY EntriesAre DEF Shape
<1>4. PICK f : f = [entry[d] EXCEPT ![k] = FreeEntry]
  OBVIOUS
<1>5. /\ f \in Seq(Dirent) /\ DOMAIN f = DOMAIN entry[d] /\ Len(f) = Len(entry[d])
      /\ \A l \in DOMAIN f : (l # k => f[l] = entry[d][l]) /\ (l = k => f[l] = FreeEntry)
  <2>1. FreeEntry \in Dirent
    BY EntriesSeq
  <2>2. PICK g : g = entry[d]
    OBVIOUS
  <2>3. /\ g \in Seq(Dirent) /\ Len(g) \in Nat /\ DOMAIN g = 1 .. Len(g)
        /\ f = [g EXCEPT ![k] = FreeEntry]
    BY <1>3, <1>4, <2>2
  <2>4. /\ DOMAIN f = DOMAIN g
        /\ \A l \in DOMAIN f : (l # k => f[l] = g[l]) /\ (l = k => f[l] = FreeEntry)
    BY <2>3
  <2>5. f \in Seq(Dirent)
    <3>1. \A l \in 1 .. Len(g) : g[l] \in Dirent
      BY <2>3
    <3>2. \A l \in 1 .. Len(g) : f[l] \in Dirent
      BY <2>1, <2>3, <2>4, <3>1
    <3>3. f = [l \in 1 .. Len(g) |-> f[l]]
      BY <2>3
    <3> QED
      <4>1. PICK n \in Nat : n = Len(g)
        BY <2>3
      <4>2. f = [l \in 1 .. n |-> f[l]] /\ \A l \in 1 .. n : f[l] \in Dirent
        BY <3>2, <3>3, <4>1
      <4> HIDE DEF Dirent
      <4> QED
        BY <4>2
  <2>6. Len(f) = Len(g)
    BY <2>3, <2>4, <2>5
  <2> QED
    BY <2>2, <2>4, <2>5, <2>6
<1>6. PICK e : e = [entry EXCEPT ![d] = f]
  OBVIOUS
<1>7. e \in Entries /\ e[d] = f /\ \A x \in Ino : x # d => e[x] = entry[x]
  BY <1>3, <1>5, <1>6, EntriesSeq
<1>8. PICK S : S = {i \in {d, v} : Goes(i, IF i = d THEN 1 ELSE 0, links)}
  OBVIOUS
<1>9. /\ call[s].pc = "unlink" /\ Tree(S, kind, e, links) /\ UNCHANGED <<held, pinned, cdir, curdir, astray, raced>>
  BY <1>1, <1>2, <1>4, <1>6, <1>8 DEF UnLink
<1>10. /\ call' \in [Session -> CallSet] /\ call'[s].pc \notin {"make", "unlink"}
       /\ \A r \in Session : r # s => call'[r] = call[r]
  BY FinishIs DEF UnLink, Shape
<1>11. /\ kind' \in Kinds /\ nlink' \in [Ino -> Int] /\ entry' \in Entries /\ age' \in [Ino -> Nat]
       /\ \A i \in S \cap Ino : kind'[i] = "free" /\ entry'[i] = <<>>
       /\ \A i \in Ino \ S : kind'[i] = kind[i] /\ entry'[i] = e[i] /\ nlink'[i] = links[i]
  <2>1. kind \in Kinds
    BY DEF Shape
  <2>2. e \in Entries /\ Tree(S, kind, e, links)
    BY <1>7, <1>9
  <2> QED
    BY <1>0, <2>1, <2>2, TreeIs
<1>12. Shape'
  BY <1>9, <1>10, <1>11 DEF Shape
<1>13. ASSUME NEW x \in Ino, NEW l \in DOMAIN entry'[x], entry'[x][l].ino # Root
       PROVE  /\ x \notin S /\ l \in DOMAIN entry[x] /\ entry'[x][l] = entry[x][l]
              /\ x # d \/ l # k
  <2>1. x \notin S
    <3>1. DOMAIN <<>> = {}
      OBVIOUS
    <3> QED
      BY <1>11, <1>13, <3>1
  <2>2. entry'[x] = e[x]
    BY <1>11, <2>1
  <2>3. CASE x = d
    <3>1. l \in DOMAIN f /\ entry'[x][l] = f[l]
      BY <1>7, <2>2, <2>3
    <3>2. l # k
      <4>1. FreeEntry.ino = Root
        BY DEF FreeEntry
      <4> QED
        BY <1>5, <1>13, <2>3, <3>1, <4>1
    <3> QED
      BY <1>5, <2>1, <2>3, <3>1, <3>2
  <2>4. CASE x # d
    BY <1>7, <1>13, <2>1, <2>2, <2>4
  <2> QED
    BY <2>3, <2>4
<1>14. Shrunk
  BY <1>13 DEF Shrunk
<1>15. (NamesOnce => NamesOnce') /\ (Unique => Unique')
  BY <1>14, ShrunkKeeps
<1>16. Bare'
  <2>1. Root \notin S
    BY <1>8 DEF Goes
  <2>2. kind'[Root] = "dir"
    BY <1>11, <2>1, InoAre DEF Tidy, Bare
  <2>3. ASSUME NEW x \in Ino, kind'[x] # "dir" PROVE entry'[x] = <<>>
    <3>1. CASE x \in S
      BY <1>11, <3>1
    <3>2. CASE x \notin S
      <4>1. entry[x] = <<>> /\ entry'[x] = e[x]
        BY <1>11, <2>3, <3>2 DEF Tidy, Bare
      <4>2. CASE x = d
        <5>1. Len(f) = 0
          BY <1>5, <4>1, <4>2
        <5>2. f = <<>>
          BY <1>5, <5>1
        <5> QED
          BY <1>7, <4>1, <4>2, <5>2
      <4>3. CASE x # d
        BY <1>7, <4>1, <4>3
      <4> QED
        BY <4>2, <4>3
    <3> QED
      BY <3>1, <3>2
  <2> QED
    BY <2>2, <2>3 DEF Bare
<1>18. /\ \A r \in Removals' : r \in Removals /\ call'[r] = call[r] /\ r # s
       /\ \A r \in Creations' : r \in Creations /\ call'[r] = call[r] /\ r # s
       /\ Apart => Apart'
  <2>1. SameWriters /\ s \notin Writers'
    BY <1>10, OnlyCall
  <2> QED
    BY <2>1, WritersKeep DEF Writers, Removals, Creations
\* Who writes in a directory, keeps it.
<1>19. ASSUME NEW r \in Writers, r # s PROVE call[r].at \in Ino /\ call[r].at \notin S
  <2>1. call[r].pc \in {"make", "unlink"} /\ r \in Session
    BY <1>19 DEF Writers
  <2>2. PICK x \in Ino : x = call[r].at
    BY <2>1 DEF Shape, CallSet
  <2>3. ~ (Refs(x) <= 1 /\ x = d)
    BY <1>1, <1>9, <1>19, <2>1, <2>2, RefsAre DEF Shape
  <2>4. Refs(x) \in Nat /\ Refs(x) >= held[x] + 1 /\ held[x] \in Nat
    BY <2>1, <2>2, RefsAre DEF Shape
  <2>5. x = d => ~ Goes(x, 1, links)
    BY <2>3, <2>4 DEF Goes
  <2>6. ~ Goes(x, 0, links)
    BY <2>4 DEF Goes
  <2> QED
    BY <1>8, <2>2, <2>5, <2>6
<1>20. Opened'
  <2> SUFFICES ASSUME NEW r \in Creations'
               PROVE  kind'[call'[r].at] = "dir" /\ call'[r].rest # <<>> /\ call'[r].slot # 0
    BY DEF Opened
  <2>1. r \in Creations /\ call'[r] = call[r] /\ call[r].at \in Ino /\ call[r].at \notin S
    BY <1>18, <1>19 DEF Creations, Writers
  <2>2. kind[call[r].at] = "dir" /\ call[r].rest # <<>> /\ call[r].slot # 0
    BY <2>1 DEF Tidy, Opened
  <2> QED
    BY <1>11, <2>1, <2>2
<1>17. ASSUME Linked PROVE Linked'
  <2>1. Pending(s) /\ s \in Removals
    BY <1>9, <1>17 DEF Linked, Removals
  <2>2. k \in DOMAIN entry[d] /\ entry[d][k].ino = v /\ v # Root
    BY <1>1, <2>1 DEF Pending
  <2>3. Backed'
    <3> SUFFICES ASSUME NEW x \in Ino, NEW l \in DOMAIN entry'[x], entry'[x][l].ino # Root
                 PROVE  kind'[entry'[x][l].ino] # "free" /\ nlink'[entry'[x][l].ino] = 1
      BY DEF Backed
    <3>1. l \in DOMAIN entry[x] /\ entry'[x][l] = entry[x][l] /\ (x # d \/ l # k)
      BY <1>13
    <3>2. PICK i \in Ino : i = entry[x][l].ino
      BY <1>3, <3>1, EntriesAre
    <3>3. i # v
      BY <1>17, <2>2, <3>1, <3>2 DEF Linked, Unique
    <3>4. kind[i] # "free" /\ nlink[i] = 1
      BY <1>17, <3>1, <3>2 DEF Linked, Backed
    <3>5. links[i] = 1
      BY <1>2, <3>3, <3>4
    <3>6. i \notin S
      BY <1>8, <3>5 DEF Goes
    <3> QED
      BY <1>11, <3>1, <3>2, <3>4, <3>5, <3>6
  <2>6. ASSUME NEW r \in Removals' PROVE Pending(r)'
    <3>1. r \in Removals /\ call'[r] = call[r] /\ r # s /\ Pending(r) /\ r \in Session
      BY <1>17, <1>18 DEF Linked, Removals
    <3>2. PICK x \in Ino : x = call[r].at
      BY <3>1 DEF Shape, CallSet
    <3>3. x \notin S
      BY <1>19, <3>1, <3>2 DEF Removals, Writers
    <3>4. entry'[x] = e[x]
      BY <1>11, <3>3
    <3>5. PICK l \in DOMAIN entry[x] : l = call[r].slot
      BY <3>1, <3>2 DEF Pending
    <3>6. x # d \/ l # k
      BY <1>1, <1>17, <2>1, <3>1, <3>2, <3>5 DEF Linked, Apart
    <3>7. l \in DOMAIN e[x] /\ e[x][l] = entry[x][l]
      BY <1>5, <1>7, <3>5, <3>6
    <3> QED
      BY <3>1, <3>2, <3>4, <3>5, <3>7 DEF Pending
  <2>7. ASSUME NEW r \in Creations' PROVE Ready(r)'
    <3>1. r \in Creations /\ call'[r] = call[r] /\ Ready(r) /\ r \in Session /\ call[r].at \in Ino
      BY <1>17, <1>18 DEF Linked, Creations, Shape, CallSet
    <3> QED
      BY <1>14, <3>1, ReadyStays
  <2> QED
    BY <1>15, <1>17, <1>18, <2>3, <2>6, <2>7 DEF Linked
<1> QED
  BY <1>9, <1>12, <1>15, <1>16, <1>17, <1>20 DEF Tidy

LEMMA CloseTidy ==
  ASSUME Shape, Tidy, NEW i \in Ino, Close(i)
  PROVE  Shape' /\ Tidy'
<1>1. PICK S : S = IF Goes(i, 1, nlink) THEN {i} ELSE {}
  OBVIOUS
<1>2. /\ held[i] > 0 /\ held' = [held EXCEPT ![i] = @ - 1] /\ Tree(S, kind, entry, nlink)
      /\ UNCHANGED <<pinned, cdir, curdir, call, astray, raced>>
      /\ entry \in Entries /\ nlink \in [Ino -> Int]
  BY <1>1 DEF Close, Shape
<1>3. /\ kind' \in Kinds /\ nlink' \in [Ino -> Int] /\ entry' \in Entries /\ age' \in [Ino -> Nat]
  BY <1>2, TreeIs DEF Shape
<1>4. held' \in [Ino -> Nat]
  BY <1>2 DEF Shape
<1>5. Shape'
  BY <1>2, <1>3, <1>4 DEF Shape
<1>6. SameWriters
  BY <1>2 DEF SameWriters, Writers
<1>7. S \in SUBSET Ino /\ Root \notin S
  BY <1>1 DEF Goes
<1>8. \A x \in S : nlink[x] <= 0 /\ \A r \in Writers : call[r].at # x
  <2> SUFFICES ASSUME Goes(i, 1, nlink), NEW r \in Writers, call[r].at = i PROVE FALSE
    BY <1>1 DEF Goes
  <2>1. Refs(i) = 1 /\ Refs(i) >= held[i] + 1 /\ held[i] \in Nat
    BY RefsAre DEF Goes, Writers, Shape
  <2> QED
    BY <1>2, <2>1
<1>9. UNCHANGED raced
  BY <1>2
<1>10. Tidy'
  BY <1>2, <1>6, <1>7, <1>8, <1>9, FreedTidy
<1> QED
  BY <1>5, <1>10

\* A session comes or goes.
LEMMA LoginTidy ==
  ASSUME Shape, Tidy, NEW s \in Session, Login(s) \/ Exit(s)
  PROVE  Shape' /\ Tidy'
<1> DEFINE c == [NoCall EXCEPT !.pc = "walk", !.cmd = "login", !.rest = <<Home[s]>>]
           o == [NoCall EXCEPT !.pc = "out"]
<1>1. c \in CallSet /\ c.pc \notin {"make", "unlink"} /\ o \in CallSet /\ o.pc \notin {"make", "unlink"}
  <2>1. <<Home[s]>> \in Seq(Name) /\ <<>> \in Seq(Name)
    BY DirectoryAssumption
  <2> QED
    BY <2>1, InoAre DEF NoCall, CallSet
<1>2. call' = [call EXCEPT ![s] = c] \/ call' = [call EXCEPT ![s] = o]
  BY DEF Login, Exit
<1> HIDE DEF c, o
<1>3. /\ call' \in [Session -> CallSet] /\ call'[s].pc \notin {"make", "unlink"}
      /\ \A r \in Session : r # s => call'[r] = call[r]
  BY <1>1, <1>2 DEF Shape
<1>4. UNCHANGED <<kind, nlink, entry, held, age, astray, raced>>
  BY DEF Login, Exit, treeVars
<1>5. cdir' \in [Session -> Ino] /\ pinned' \in [Ino -> Nat]
  <2>1. CASE Login(s)
    BY <2>1, InoAre DEF Login, Shape
  <2>2. CASE Exit(s)
    <3>1. cdir[s] \in Ino /\ pinned' = [pinned EXCEPT ![cdir[s]] = @ + 1]
      BY <2>2 DEF Exit, Shape
    <3> QED
      BY <2>2, <3>1, InoAre DEF Exit, Shape
  <2> QED
    BY <2>1, <2>2
<1>6. curdir' \in [Session -> Seq(Name)]
  <2>1. <<>> \in Seq(Name)
    OBVIOUS
  <2> QED
    BY <2>1 DEF Login, Exit, Shape
<1>7. Tidy'
  BY <1>3, <1>4, OnlyCall, StillTidy
<1> QED
  BY <1>3, <1>4, <1>5, <1>6, <1>7 DEF Shape

\* A command begins or goes on with a step of NameI.
Begins(s, c) ==
  /\ c.cmd # "login" /\ c.rest = c.path.names
  /\ c.at = (IF c.path.abs THEN Root ELSE cdir[s]) /\ c.age = age[c.at]

LEMMA CommandFurther ==
  ASSUME Shape, NEW s \in Session, Command(s) \/ Walk(s)
  PROVE  \E c \in CallSet :
           /\ Further(s, c)
           /\ \/ call[s].pc = "walk" /\ c = call[s]
              \/ call[s].pc = "idle" /\ Begins(s, c)
<1>1. CASE Walk(s)
  <2>1. call[s].pc = "walk" /\ Further(s, call[s]) /\ call[s] \in CallSet
    BY <1>1 DEF Walk, Shape
  <2> QED
    BY <2>1
<1>2. CASE Command(s)
  <2>1. PICK cmd \in {"mkdir", "touch", "rm", "cd"}, p \in Path :
          Further(s, [NoCall EXCEPT !.pc = "walk", !.cmd = cmd,
                                    !.at = IF p.abs THEN Root ELSE cdir[s],
                                    !.age = age[IF p.abs THEN Root ELSE cdir[s]],
                                    !.rest = p.names, !.path = p])
    BY <1>2 DEF Command
  <2>2. PICK at \in Ino : at = IF p.abs THEN Root ELSE cdir[s]
    BY InoAre DEF Shape
  <2>3. p \in [abs : BOOLEAN, names : Seq(Name)] /\ p.names \in Seq(Name)
    BY DirectoryAssumption
  <2> DEFINE c == [NoCall EXCEPT !.pc = "walk", !.cmd = cmd, !.at = at, !.age = age[at],
                                 !.rest = p.names, !.path = p]
  <2>4. c \in CallSet
    <3>1. <<>> \in Seq(Name) /\ age[at] \in Nat
      BY DEF Shape
    <3> QED
      BY <2>3, <3>1, InoAre DEF NoCall, CallSet
  <2>5. Further(s, c)
    BY <2>1, <2>2
  <2>8. Begins(s, c)
    BY <2>2 DEF Begins, NoCall
  <2> HIDE DEF c
  <2>6. PICK b \in CallSet : b = c
    BY <2>4
  <2>7. Further(s, b) /\ call[s].pc = "idle" /\ Begins(s, b)
    BY <1>2, <2>5, <2>6, <2>8 DEF Command
  <2> QED
    BY <2>7
<1> QED
  BY <1>1, <1>2

LEMMA CommandTidy ==
  ASSUME Shape, Tidy, NEW s \in Session, Command(s) \/ Walk(s)
  PROVE  Shape' /\ Tidy'
<1>1. PICK c \in CallSet : Further(s, c) /\ call[s].pc \in {"idle", "walk"}
  BY CommandFurther
<1> QED
  BY <1>1, FurtherTidy

-----------------------------------------------------------------------------
(***************************************************************************)
(* What a step can lose.                                                   *)
(***************************************************************************)
Named(i) == \E d \in Ino : \E k \in DOMAIN entry[d] : entry[d][k].ino = i

UserOf(s, i) == call[s].pc # "out" /\ cdir[s] = i

WritesIn(s, i) == call[s].pc \in {"make", "unlink"} /\ call[s].at = i

Bound(i) ==
  held[i] > 0 \/ pinned[i] > 0 \/ \E s \in Session : UserOf(s, i) \/ WritesIn(s, i)

Lost == {i \in Ino \ {Root} : kind[i] # "free" /\ ~ Bound(i) /\ ~ Named(i)}

\* References are counted by their holders.
LEMMA RefsCount ==
  ASSUME Shape, NEW i \in Ino
  PROVE  /\ Refs(i) = 0 <=> ~ Bound(i)
         /\ \A s \in Session :
              /\ held[i] = 0 /\ pinned[i] = 0
              /\ \/ /\ \A r \in Session : UserOf(r, i) <=> r = s
                    /\ \A r \in Session : ~ WritesIn(r, i)
                 \/ /\ \A r \in Session : WritesIn(r, i) <=> r = s
                    /\ \A r \in Session : ~ UserOf(r, i)
              => Refs(i) = 1
         /\ held[i] = 1 /\ pinned[i] = 0 /\ (\A r \in Session : ~ UserOf(r, i) /\ ~ WritesIn(r, i))
              => Refs(i) = 1
<1> DEFINE A == {s \in Session : call[s].pc # "out" /\ cdir[s] = i}
           B == {s \in Session : call[s].pc \in {"make", "unlink"} /\ call[s].at = i}
           a == Cardinality(A)
           b == Cardinality(B)
<1>1. IsFiniteSet(A) /\ IsFiniteSet(B)
  <2>1. A \in SUBSET Session /\ B \in SUBSET Session
    OBVIOUS
  <2> HIDE DEF A, B
  <2> QED
    BY <2>1, DirectoryAssumption, FS_Subset
<1>2. \A s \in Session : (s \in A <=> UserOf(s, i)) /\ (s \in B <=> WritesIn(s, i))
  BY DEF UserOf, WritesIn
<1>3. A \subseteq Session /\ B \subseteq Session
  OBVIOUS
<1>4. Refs(i) = held[i] + pinned[i] + a + b /\ held[i] \in Nat /\ pinned[i] \in Nat
  BY DEF Refs, Shape
<1> HIDE DEF A, B
<1>5. a \in Nat /\ b \in Nat /\ (a = 0 <=> A = {}) /\ (b = 0 <=> B = {})
  BY <1>1, FS_CardinalityType, FS_EmptySet
<1>6. \A s : (A = {s} => a = 1) /\ (B = {s} => b = 1)
  BY FS_Singleton
<1> HIDE DEF a, b
<1>7. Refs(i) = 0 <=> ~ Bound(i)
  <2>1. Refs(i) = 0 <=> held[i] = 0 /\ pinned[i] = 0 /\ a = 0 /\ b = 0
    BY <1>4, <1>5
  <2>2. (A = {} <=> \A s \in Session : ~ UserOf(s, i)) /\ (B = {} <=> \A s \in Session : ~ WritesIn(s, i))
    BY <1>2, <1>3
  <2>3. (held[i] = 0 <=> ~ (held[i] > 0)) /\ (pinned[i] = 0 <=> ~ (pinned[i] > 0))
    BY <1>4
  <2> QED
    BY <1>5, <2>1, <2>2, <2>3 DEF Bound
<1>8. ASSUME NEW s \in Session, held[i] = 0, pinned[i] = 0,
             \A r \in Session : UserOf(r, i) <=> r = s, \A r \in Session : ~ WritesIn(r, i)
      PROVE  Refs(i) = 1
  <2>1. A = {s} /\ B = {}
    BY <1>2, <1>3, <1>8
  <2> QED
    BY <1>4, <1>5, <1>6, <1>8, <2>1
<1>9. ASSUME NEW s \in Session, held[i] = 0, pinned[i] = 0,
             \A r \in Session : WritesIn(r, i) <=> r = s, \A r \in Session : ~ UserOf(r, i)
      PROVE  Refs(i) = 1
  <2>1. B = {s} /\ A = {}
    BY <1>2, <1>3, <1>9
  <2> QED
    BY <1>4, <1>5, <1>6, <1>9, <2>1
<1>10. ASSUME held[i] = 1, pinned[i] = 0, \A r \in Session : ~ UserOf(r, i) /\ ~ WritesIn(r, i)
       PROVE  Refs(i) = 1
  <2>1. A = {} /\ B = {}
    BY <1>2, <1>3, <1>10
  <2> QED
    BY <1>4, <1>5, <1>10, <2>1
<1> QED
  BY <1>7, <1>8, <1>9, <1>10

LEMMA NameIs ==
  ASSUME NEW x \in Names
  PROVE  x[1] \in Ino /\ x[2] \in DOMAIN entry[x[1]] /\ entry[x[1]][x[2]].ino # Root /\ x = <<x[1], x[2]>>
<1>1. PICK d \in Ino : x \in {<<d, k>> : k \in {l \in DOMAIN entry[d] : entry[d][l].ino # Root}}
  BY DEF Names
<1>2. PICK k \in DOMAIN entry[d] : x = <<d, k>> /\ entry[d][k].ino # Root
  BY <1>1
<1> QED
  BY <1>2

LEMMA NameOf ==
  ASSUME NEW d \in Ino, NEW k \in DOMAIN entry[d], entry[d][k].ino # Root
  PROVE  <<d, k>> \in Names
BY DEF Names

LEMMA NamedIs ==
  ASSUME NEW i \in Ino \ {Root}
  PROVE  Named(i) <=> \E x \in Names : entry[x[1]][x[2]].ino = i
<1>1. ASSUME Named(i) PROVE \E x \in Names : entry[x[1]][x[2]].ino = i
  <2>1. PICK d \in Ino : \E k \in DOMAIN entry[d] : entry[d][k].ino = i
    BY <1>1 DEF Named
  <2>2. PICK k \in DOMAIN entry[d] : entry[d][k].ino = i
    BY <2>1
  <2> QED
    BY <2>2, NameOf
<1>2. ASSUME NEW x \in Names, entry[x[1]][x[2]].ino = i PROVE Named(i)
  BY <1>2, NameIs DEF Named
<1> QED
  BY <1>1, <1>2

LEMMA OrphansAre == Shape => Orphans = Lost
<1> SUFFICES ASSUME Shape, NEW i \in Ino \ {Root}
             PROVE  (Refs(i) = 0 /\ \A x \in Names : entry[x[1]][x[2]].ino # i) <=>
                      (~ Bound(i) /\ ~ Named(i))
  BY DEF Orphans, Lost
<1> QED
  BY RefsCount, NamedIs

\* What OrphansFromDirectories allows.
Explained(i) ==
  \/ raced' \/ astray'
  \/ \E d \in Ino : \E k \in DOMAIN entry[d] : entry[d][k].ino = i /\ age'[d] # age[d]
  \/ nlink[i] > 0 /\ ~ Named(i)
  \/ Unnamed(i)

\* Nothing is lost where names, references and inodes in use stay.
LEMMA KeptMeansFound ==
  ASSUME NEW i \in Ino, kind'[i] = kind[i], Named(i) => Named(i)', Bound(i) => Bound(i)', i \in Lost'
  PROVE  i \in Lost
BY DEF Lost

\* Where inodes are freed, what they named goes, or it was not freed itself.
LEMMA TreeLoses ==
  ASSUME Shape, NEW S \in SUBSET Ino, Tree(S, kind, entry, nlink), NEW i \in Lost', i \notin Lost,
         Bound(i) => i \in S \/ nlink[i] > 0
  PROVE  Explained(i)
<1>1. /\ \A x \in S : kind'[x] = "free" /\ age'[x] = age[x] + 1
      /\ \A x \in Ino \ S : kind'[x] = kind[x] /\ entry'[x] = entry[x]
  BY DEF Tree
<1>2. i \in Ino /\ i # Root /\ kind'[i] # "free" /\ ~ Named(i)' /\ i \notin S
  BY <1>1 DEF Lost
<1>3. CASE Named(i)
  <2>1. PICK d \in Ino : \E k \in DOMAIN entry[d] : entry[d][k].ino = i
    BY <1>3 DEF Named
  <2>2. d \in S
    <3>1. SUFFICES ASSUME d \notin S PROVE FALSE
      OBVIOUS
    <3>2. entry'[d] = entry[d]
      BY <1>1, <3>1
    <3> QED
      BY <1>2, <2>1, <3>2 DEF Named
  <2>3. age'[d] # age[d]
    BY <1>1, <2>2 DEF Shape
  <2> QED
    BY <2>1, <2>3 DEF Explained
<1>4. CASE ~ Named(i)
  <2>1. Bound(i)
    BY <1>1, <1>2, <1>4 DEF Lost
  <2> QED
    BY <1>2, <1>4, <2>1 DEF Explained
<1> QED
  BY <1>3, <1>4

\* The calls that leave the tree alone keep the references, too.
LEMMA PassLoses ==
  ASSUME Shape, NEW s \in Session, NEW c \in CallSet, call[s].pc \in {"idle", "walk"},
         Missing(s, c) \/ Descend(s, c) \/ Refused(s, c), NEW i \in Lost'
  PROVE  i \in Lost
<1>1. /\ call'[s].pc \in {"idle", "walk"} /\ \A r \in Session : r # s => call'[r] = call[r]
  BY DescendIs, FinishIs DEF Missing, Refused, Shape
<1>2. UNCHANGED <<kind, nlink, entry, held, pinned, cdir>>
  BY DEF Missing, Descend, Refused, treeVars
<1>3. Bound(i) => Bound(i)'
  BY <1>1, <1>2 DEF Bound, UserOf, WritesIn
<1> QED
  BY <1>2, <1>3, KeptMeansFound DEF Named, Lost

\* The new inode is lost where it gets no name, or with the directory of its name; other
\* inodes with the directory that names them.
LEMMA MakeLoses ==
  ASSUME Shape, Tidy, ~ raced, NEW s \in Session, Make(s), NEW i \in Lost', i \notin Lost
  PROVE  Explained(i)
<1>1. PICK d \in Ino, j \in Ino, S \in SUBSET Ino, e \in Entries : Makes(s, d, j, S, e)
  BY MakeIs
<1>2. PICK n \in Name : n = Head(call[s].rest)
  BY <1>1 DEF Makes
<1>3. PICK E : E = [name |-> n, ino |-> j]
  OBVIOUS
<1>4. /\ call[s].pc = "make" /\ d = call[s].at /\ kind[j] = "free" /\ j # d /\ E.ino = j
      /\ S = (IF Goes(d, 1, nlink) THEN {d} ELSE {})
      /\ \A x \in Ino \ {j} : held'[x] = held[x]
      /\ \A x \in Ino \ (S \cup {j}) : kind'[x] = kind[x]
      /\ \A x \in S : x = d /\ kind'[x] = "free"
      /\ \A x \in Ino \ S : entry'[x] = e[x]
      /\ \A x \in Ino : age'[x] = IF x \in S THEN age[x] + 1 ELSE age[x]
      /\ UNCHANGED <<pinned, cdir>>
  BY <1>1, <1>3 DEF Makes
<1>5. /\ call'[s].pc \in {"idle", "walk"} /\ \A r \in Session : r # s => call'[r] = call[r]
  BY <1>1, FinishIs DEF Makes, Shape
<1>6. s \in Creations /\ call[s].slot # 0 /\ Ready(s)
  BY <1>4 DEF Creations, Tidy, Opened, Linked
<1>7. /\ \A x \in Ino : x # d => e[x] = entry[x]
      /\ \/ e[d] = entry[d] /\ call[s].slot > Len(entry[d])
         \/ Puts(entry[d], e[d], E)
  BY <1>1, <1>2, <1>3, <1>6, MakesPuts
<1>8. i \in Ino /\ i # Root /\ kind'[i] # "free" /\ ~ Bound(i)' /\ ~ Named(i)' /\ i \notin S
  BY <1>4 DEF Lost
<1>9. \A x \in S : age'[x] # age[x]
  BY <1>4 DEF Shape
<1>10. CASE i = j
  <2>1. call[s].slot > Len(entry[d]) \/ d \in S
    <3>1. SUFFICES ASSUME d \notin S, Puts(entry[d], e[d], E) PROVE FALSE
      BY <1>7
    <3>2. entry'[d] = e[d]
      BY <1>4, <3>1
    <3>3. PICK k \in DOMAIN e[d] : e[d][k] = E
      BY <3>1 DEF Puts
    <3>4. entry'[d][k].ino = i /\ k \in DOMAIN entry'[d]
      BY <1>4, <1>10, <3>2, <3>3
    <3> QED
      BY <1>8, <3>4 DEF Named
  <2>2. call'[s] # call[s]
    BY <1>4, <1>5
  <2> QED
    BY <1>4, <1>9, <1>10, <2>1, <2>2 DEF Explained, Unnamed
<1>11. CASE i # j /\ Named(i)
  <2>1. PICK x \in Ino : \E l \in DOMAIN entry[x] : entry[x][l].ino = i
    BY <1>11 DEF Named
  <2>2. PICK l \in DOMAIN entry[x] : entry[x][l].ino = i
    BY <2>1
  <2>3. x \in S
    <3>1. SUFFICES ASSUME x \notin S PROVE FALSE
      OBVIOUS
    <3>2. l \in DOMAIN e[x] /\ e[x][l] = entry[x][l]
      BY <1>7, <1>8, <2>2 DEF Puts
    <3>3. entry'[x] = e[x]
      BY <1>4, <3>1
    <3> QED
      BY <1>8, <2>2, <3>2, <3>3 DEF Named
  <2> QED
    BY <1>9, <2>2, <2>3 DEF Explained
<1>12. CASE i # j /\ ~ Named(i)
  <2>1. kind'[i] = kind[i] /\ held'[i] = held[i] /\ held[i] \in Nat /\ pinned[i] \in Nat
    BY <1>4, <1>8, <1>12 DEF Shape
  <2>2. Bound(i)
    BY <1>8, <1>12, <2>1 DEF Lost
  <2>3. held[i] = 0 /\ pinned[i] = 0
    BY <1>4, <1>8, <2>1 DEF Bound
  <2>4. \A r \in Session : ~ UserOf(r, i) /\ (r # s => ~ WritesIn(r, i))
    BY <1>4, <1>5, <1>8 DEF Bound, UserOf, WritesIn
  <2>5. WritesIn(s, i) /\ i = d
    BY <1>4, <2>2, <2>3, <2>4 DEF Bound, WritesIn
  <2>6. Refs(i) = 1
    BY <1>8, <2>3, <2>4, <2>5, RefsCount
  <2>7. nlink[i] > 0
    BY <1>4, <1>8, <2>5, <2>6 DEF Goes, Shape
  <2> QED
    BY <1>12, <2>7 DEF Explained
<1> QED
  BY <1>10, <1>11, <1>12

\* Without an inode, the directory keeps the reference.
LEMMA NoInodeLoses ==
  ASSUME Shape, NEW s \in Session, NoInode(s), NEW i \in Lost'
  PROVE  i \in Lost
<1>1. i \in Ino /\ ~ Bound(i)' /\ pinned[i] \in Nat
  BY DEF Lost, Shape
<1>2. /\ UNCHANGED <<kind, nlink, entry, held, cdir>> /\ call[s].at \in Ino /\ call[s].pc = "make"
      /\ pinned' = [pinned EXCEPT ![call[s].at] = @ + 1]
  BY DEF NoInode, treeVars, Shape, CallSet
<1>3. /\ call'[s].pc \in {"idle", "walk"} /\ \A r \in Session : r # s => call'[r] = call[r]
  BY FinishIs DEF NoInode, Shape
<1>4. i # call[s].at
  <2>1. i = call[s].at => pinned'[i] > 0
    BY <1>1, <1>2 DEF Shape
  <2> QED
    BY <1>1, <2>1 DEF Bound
<1>5. pinned'[i] = pinned[i]
  BY <1>1, <1>2, <1>4 DEF Shape
<1>6. Bound(i) => Bound(i)'
  BY <1>2, <1>3, <1>4, <1>5 DEF Bound, UserOf, WritesIn
<1> QED
  BY <1>1, <1>2, <1>6, KeptMeansFound DEF Named

\* Who is to write in a directory refers to it, and touch to the file.
LEMMA TakesLoses ==
  ASSUME Shape, NEW s \in Session, NEW c \in CallSet, call[s].pc \in {"idle", "walk"},
         Victim(s, c) \/ NewName(s, c) \/ TouchThere(s, c), NEW i \in Lost'
  PROVE  i \in Lost
<1>1. i \in Ino /\ ~ Bound(i)' /\ c.at \in Ino
  BY CallParts DEF Lost
<1>2. CASE Victim(s, c)
  <2>1. UNCHANGED <<kind, nlink, entry, held, pinned, cdir>>
    BY <1>2 DEF Victim, treeVars
  <2>2. PICK new : call' = [call EXCEPT ![s] = new] /\ new.pc = "unlink"
    <3> DEFINE k == Lowest(Find(c.at, Head(c.rest)))
               m == [NoCall EXCEPT !.pc = "unlink", !.cmd = "rm", !.at = c.at, !.slot = k,
                                   !.rest = c.rest, !.ino = entry[c.at][k].ino]
    <3>1. call' = [call EXCEPT ![s] = m]
      BY <1>2 DEF Victim
    <3>2. m.pc = "unlink"
      BY DEF NoCall
    <3> HIDE DEF m
    <3> QED
      BY <3>1, <3>2
  <2>3. call'[s].pc = "unlink" /\ \A r \in Session : r # s => call'[r] = call[r]
    BY <2>2 DEF Shape
  <2>4. Bound(i) => Bound(i)'
    BY <2>1, <2>3 DEF Bound, UserOf, WritesIn
  <2> QED
    BY <1>1, <2>1, <2>4, KeptMeansFound DEF Named
<1>3. CASE TouchThere(s, c)
  <2>1. /\ call'[s].pc \in {"idle", "walk"} /\ \A r \in Session : r # s => call'[r] = call[r]
    BY <1>3, FinishIs DEF TouchThere, Shape
  <2>2. /\ kind' = [kind EXCEPT ![c.at] = "file"] /\ held' = [held EXCEPT ![c.at] = @ + 1]
        /\ UNCHANGED <<entry, pinned, cdir>>
    BY <1>3 DEF TouchThere
  <2>3. held'[c.at] > 0 /\ held[c.at] \in Nat
    BY <1>1, <2>2 DEF Shape
  <2>4. i # c.at
    BY <1>1, <2>3 DEF Bound
  <2>5. kind'[i] = kind[i] /\ held'[i] = held[i]
    BY <1>1, <2>2, <2>4 DEF Shape, Kinds
  <2>6. Bound(i) => Bound(i)'
    BY <2>1, <2>2, <2>5 DEF Bound, UserOf, WritesIn
  <2> QED
    BY <1>1, <2>2, <2>5, <2>6, KeptMeansFound DEF Named
<1>4. CASE NewName(s, c)
  <2>1. UNCHANGED <<kind, nlink, entry, held, pinned, cdir>>
    BY <1>4 DEF NewName, treeVars
  <2>2. call'[s].pc = "make" /\ \A r \in Session : r # s => call'[r] = call[r]
    BY <1>4, NewNameCall
  <2>3. Bound(i) => Bound(i)'
    BY <2>1, <2>2 DEF Bound, UserOf, WritesIn
  <2> QED
    BY <1>1, <2>1, <2>3, KeptMeansFound DEF Named
<1> QED
  BY <1>2, <1>3, <1>4

\* cd gives its old directory back, and frees it if nothing else has it.
LEMMA EnterLoses ==
  ASSUME Shape, NEW s \in Session, NEW c \in CallSet, call[s].pc \in {"idle", "walk"},
         Enter(s, c), NEW i \in Lost', i \notin Lost
  PROVE  Explained(i)
<1>1. PICK S : S = IF c.at # cdir[s] /\ Goes(cdir[s], 1, nlink) THEN {cdir[s]} ELSE {}
  OBVIOUS
<1>2. S \in SUBSET Ino /\ Tree(S, kind, entry, nlink) /\ UNCHANGED <<held, pinned>>
  BY <1>1 DEF Enter, Shape
<1>3. cdir' = [cdir EXCEPT ![s] = c.at] /\ c.at \in Ino
  BY CallParts DEF Enter
<1>4. /\ call'[s].pc \in {"idle", "walk"} /\ \A r \in Session : r # s => call'[r] = call[r]
  BY FinishIs DEF Enter, Shape
<1>5. i \in Ino /\ i # Root /\ ~ Bound(i)' /\ held[i] \in Nat /\ pinned[i] \in Nat
  BY DEF Lost, Shape
<1>6. ASSUME Bound(i) PROVE i \in S \/ nlink[i] > 0
  <2>1. held[i] = 0 /\ pinned[i] = 0
    BY <1>2, <1>5 DEF Bound
  <2>2. \A r \in Session : r # s => ~ UserOf(r, i) /\ ~ WritesIn(r, i)
    BY <1>3, <1>4, <1>5 DEF Bound, UserOf, WritesIn, Shape
  <2>3. ~ WritesIn(s, i)
    BY DEF WritesIn
  <2>4. UserOf(s, i)
    BY <1>6, <2>1, <2>2, <2>3 DEF Bound
  <2>5. cdir[s] = i /\ c.at # i
    BY <1>3, <1>4, <1>5, <2>4 DEF Bound, UserOf, Shape
  <2>6. Refs(i) = 1
    BY <1>5, <2>1, <2>2, <2>3, <2>4, RefsCount
  <2>7. nlink[i] \in Int
    BY <1>5 DEF Shape
  <2> QED
    BY <1>1, <1>5, <2>5, <2>6, <2>7 DEF Goes
<1> QED
  BY <1>2, <1>6, TreeLoses

LEMMA CloseLoses ==
  ASSUME Shape, NEW f \in Ino, Close(f), NEW i \in Lost', i \notin Lost
  PROVE  Explained(i)
<1>1. PICK S : S = IF Goes(f, 1, nlink) THEN {f} ELSE {}
  OBVIOUS
<1>2. /\ S \in SUBSET Ino /\ Tree(S, kind, entry, nlink) /\ UNCHANGED <<pinned, call, cdir>>
      /\ held[f] > 0 /\ held' = [held EXCEPT ![f] = @ - 1]
  BY <1>1 DEF Close
<1>3. i \in Ino /\ i # Root /\ ~ Bound(i)' /\ held[i] \in Nat /\ pinned[i] \in Nat
  BY DEF Lost, Shape
<1>4. ASSUME Bound(i) PROVE i \in S \/ nlink[i] > 0
  <2>1. pinned[i] = 0 /\ \A r \in Session : ~ UserOf(r, i) /\ ~ WritesIn(r, i)
    BY <1>2, <1>3 DEF Bound, UserOf, WritesIn
  <2>2. held[i] > 0
    BY <1>3, <1>4, <2>1 DEF Bound
  <2>3. i = f
    BY <1>2, <1>3, <2>2 DEF Bound, Shape
  <2>4. held[i] = 1
    BY <1>2, <1>3, <2>2, <2>3 DEF Bound, Shape
  <2>5. Refs(i) = 1
    BY <1>3, <2>1, <2>4, RefsCount
  <2>6. nlink[i] \in Int
    BY <1>3 DEF Shape
  <2> QED
    BY <1>1, <1>3, <2>3, <2>5, <2>6 DEF Goes
<1> QED
  BY <1>2, <1>4, TreeLoses

\* A session that comes refers to the root; one that goes keeps its reference.
LEMMA LoginLoses ==
  ASSUME Shape, NEW s \in Session, Login(s) \/ Exit(s), NEW i \in Lost'
  PROVE  i \in Lost
<1>1. i \in Ino /\ i # Root /\ ~ Bound(i)' /\ pinned[i] \in Nat
  BY DEF Lost, Shape
<1>2. UNCHANGED <<kind, nlink, entry, held>> /\ \A r \in Session : r # s => call'[r] = call[r] /\ cdir'[r] = cdir[r]
  BY DEF Login, Exit, treeVars, Shape
<1>3. CASE Login(s)
  <2>1. call[s].pc = "out" /\ UNCHANGED pinned
    BY <1>3 DEF Login
  <2>2. Bound(i) => Bound(i)'
    BY <1>2, <2>1 DEF Bound, UserOf, WritesIn
  <2> QED
    BY <1>1, <1>2, <2>2, KeptMeansFound DEF Named
<1>4. CASE Exit(s)
  <2>1. call[s].pc = "idle" /\ pinned' = [pinned EXCEPT ![cdir[s]] = @ + 1] /\ cdir[s] \in Ino
    BY <1>4 DEF Exit, Shape
  <2>2. cdir[s] # i /\ pinned'[i] = pinned[i]
    <3>1. CASE cdir[s] = i
      <4>1. pinned'[i] > 0
        BY <1>1, <2>1, <3>1 DEF Shape
      <4> QED
        BY <1>1, <4>1 DEF Bound
    <3>2. CASE cdir[s] # i
      BY <1>1, <2>1, <3>2 DEF Shape
    <3> QED
      BY <3>1, <3>2
  <2>3. Bound(i) => Bound(i)'
    BY <1>2, <2>1, <2>2 DEF Bound, UserOf, WritesIn
  <2> QED
    BY <1>1, <1>2, <2>3, KeptMeansFound DEF Named
<1> QED
  BY <1>3, <1>4

\* The file that UnLink takes the last link from goes with its last reference, and
\* what a directory names goes only with the directory.
LEMMA UnLinkLoses ==
  ASSUME Shape, Tidy, ~ raced, NEW s \in Session, UnLink(s), NEW i \in Lost', i \notin Lost
  PROVE  Explained(i)
<1>1. PICK d \in Ino, v \in Ino, k \in Nat : d = call[s].at /\ v = call[s].ino /\ k = call[s].slot
  BY DEF Shape, CallSet
<1>2. PICK links : links = [nlink EXCEPT ![v] = @ - 1]
  OBVIOUS
<1>3. PICK e : e = [entry EXCEPT ![d][k] = FreeEntry]
  OBVIOUS
<1>4. PICK S : S = {x \in {d, v} : Goes(x, IF x = d THEN 1 ELSE 0, links)}
  OBVIOUS
<1>5. /\ call[s].pc = "unlink" /\ Tree(S, kind, e, links) /\ UNCHANGED <<held, pinned, cdir>>
      /\ S \in SUBSET Ino
  BY <1>1, <1>2, <1>3, <1>4 DEF UnLink
<1>6. /\ call'[s].pc \in {"idle", "walk"} /\ \A r \in Session : r # s => call'[r] = call[r]
  BY FinishIs DEF UnLink, Shape
<1>7. Linked /\ Pending(s)
  BY <1>5 DEF Tidy, Linked, Removals
<1>8. k \in DOMAIN entry[d] /\ entry[d][k].ino = v /\ v # Root
  BY <1>1, <1>7 DEF Pending
<1>9. /\ \A x \in S : kind'[x] = "free" /\ age'[x] = age[x] + 1
      /\ \A x \in Ino \ S : kind'[x] = kind[x] /\ entry'[x] = e[x]
  BY <1>5 DEF Tree
<1>10. i \in Ino /\ i # Root /\ kind'[i] # "free" /\ ~ Bound(i)' /\ ~ Named(i)' /\ i \notin S
       /\ kind[i] = kind'[i] /\ held[i] \in Nat /\ pinned[i] \in Nat
  BY <1>9 DEF Lost, Shape
<1>11. held[i] = 0 /\ pinned[i] = 0
  BY <1>5, <1>10 DEF Bound
<1>12. \A r \in Session : ~ UserOf(r, i) /\ (r # s => ~ WritesIn(r, i))
  BY <1>5, <1>6, <1>10 DEF Bound, UserOf, WritesIn
<1>13. Refs(i) = IF i = d THEN 1 ELSE 0
  <2>1. CASE i = d
    BY <1>1, <1>5, <1>10, <1>11, <1>12, <2>1, RefsCount DEF WritesIn
  <2>2. CASE i # d
    <3>1. ~ Bound(i)
      BY <1>1, <1>10, <1>11, <1>12, <2>2 DEF Bound, WritesIn
    <3> QED
      BY <1>10, <2>2, <3>1, RefsCount
  <2> QED
    BY <2>1, <2>2
<1>14. i \in {d, v} => links[i] > 0
  <2>1. links[i] \in Int
    BY <1>2, <1>10 DEF Shape
  <2> QED
    BY <1>4, <1>10, <1>13, <2>1 DEF Goes
<1>15. i # v
  <2>1. nlink[v] = 1
    BY <1>7, <1>8 DEF Linked, Backed
  <2>2. links[v] = 0
    BY <1>2, <2>1 DEF Shape
  <2> QED
    BY <1>14, <2>2
<1>16. CASE Named(i)
  <2>1. PICK x \in Ino : \E l \in DOMAIN entry[x] : entry[x][l].ino = i
    BY <1>16 DEF Named
  <2>2. PICK l \in DOMAIN entry[x] : entry[x][l].ino = i
    BY <2>1
  <2>3. x \in S
    <3>1. SUFFICES ASSUME x \notin S PROVE FALSE
      OBVIOUS
    <3>2. x # d \/ l # k
      BY <1>8, <1>15, <2>2
    <3>3. l \in DOMAIN e[x] /\ e[x][l] = entry[x][l]
      <4>1. CASE x # d
        BY <1>3, <2>2, <4>1 DEF Shape, Entries
      <4>2. CASE x = d
        <5>1. PICK g : g = entry[d]
          OBVIOUS
        <5>2. g \in Seq(Dirent) /\ e[d] = [g EXCEPT ![k] = FreeEntry]
          BY <1>3, <5>1, EntriesAre DEF Shape, Entries
        <5> HIDE DEF Dirent
        <5> QED
          BY <2>2, <3>2, <4>2, <5>1, <5>2
      <4> QED
        BY <4>1, <4>2
    <3>4. entry'[x] = e[x]
      BY <1>9, <3>1
    <3> QED
      BY <1>10, <2>2, <3>3, <3>4 DEF Named
  <2>4. age'[x] # age[x]
    BY <1>9, <2>3 DEF Shape
  <2> QED
    BY <2>2, <2>4 DEF Explained
<1>17. CASE ~ Named(i)
  <2>1. Bound(i)
    BY <1>10, <1>17 DEF Lost
  <2>2. i = d
    BY <1>10, <1>13, <2>1, RefsCount
  <2>3. nlink[i] > 0
    BY <1>2, <1>14, <1>15, <2>2 DEF Shape
  <2> QED
    BY <1>17, <2>3 DEF Explained
<1> QED
  BY <1>16, <1>17

LEMMA FurtherLoses ==
  ASSUME Shape, Tidy, NEW s \in Session, NEW c \in CallSet, call[s].pc \in {"idle", "walk"},
         Further(s, c), NEW i \in Lost', i \notin Lost
  PROVE  Explained(i)
BY PassLoses, TakesLoses, EnterLoses DEF Further

LEMMA StepLoses ==
  ASSUME Shape, Tidy, [Next]_vars, NEW i \in Lost', i \notin Lost
  PROVE  Explained(i)
<1>1. CASE UNCHANGED vars
  BY <1>1 DEF vars, Lost, Bound, Named, UserOf, WritesIn
<1>2. ASSUME NEW s \in Session, Command(s) \/ Walk(s) PROVE Explained(i)
  <2>1. PICK c \in CallSet : Further(s, c) /\ call[s].pc \in {"idle", "walk"}
    BY <1>2, CommandFurther
  <2> QED
    BY <2>1, FurtherLoses
<1>3. ASSUME NEW s \in Session, Login(s) \/ Exit(s) PROVE Explained(i)
  BY <1>3, LoginLoses
<1>4. ASSUME NEW s \in Session, UnLink(s) PROVE Explained(i)
  <2>1. CASE raced
    BY <1>4, <2>1 DEF UnLink, Explained
  <2>2. CASE ~ raced
    BY <1>4, <2>2, UnLinkLoses
  <2> QED
    BY <2>1, <2>2
<1>6. ASSUME NEW s \in Session, Make(s) PROVE Explained(i)
  <2>1. CASE raced
    BY <1>6, <2>1 DEF Make, Explained
  <2>2. CASE ~ raced
    BY <1>6, <2>2, MakeLoses
  <2> QED
    BY <2>1, <2>2
<1>7. ASSUME NEW s \in Session, NoInode(s) PROVE Explained(i)
  BY <1>7, NoInodeLoses
<1>5. ASSUME NEW f \in Ino, Close(f) PROVE Explained(i)
  BY <1>5, CloseLoses
<1> QED
  BY <1>1, <1>2, <1>3, <1>4, <1>5, <1>6, <1>7 DEF Next

-----------------------------------------------------------------------------
(***************************************************************************)
(* Paths.  E is a set of <<directory, name, inode>>: the names of a tree.  *)
(***************************************************************************)
\* The names p lead from the root to i.
Comes(E, p, i) ==
  \E w \in [0 .. Len(p) -> Ino] :
    w[0] = Root /\ w[Len(p)] = i /\ \A k \in 1 .. Len(p) : <<w[k - 1], p[k], w[k]>> \in E

\* S has all that its directories name.
Closed(E, S) == \A d \in S : \A n \in Name : \A i \in Ino : <<d, n, i>> \in E => i \in S

Near(E) == {i \in Ino : \A S \in SUBSET Ino : Root \in S /\ Closed(E, S) => i \in S}

TreeLike(E) ==
  /\ \A d \in Ino : \A n \in Name : <<d, n, Root>> \notin E
  /\ \A d, e \in Ino : \A m, n \in Name : \A i \in Ino :
       <<d, m, i>> \in E /\ <<e, n, i>> \in E => d = e /\ m = n

LEMMA ComesNone ==
  ASSUME NEW E
  PROVE  Comes(E, <<>>, Root)
<1> DEFINE w == [k \in {0} |-> Root]
<1>1. 0 .. Len(<<>>) = {0} /\ Len(<<>>) = 0 /\ 1 .. 0 = {}
  OBVIOUS
<1>2. w \in [0 .. Len(<<>>) -> Ino] /\ w[0] = Root
  BY <1>1, InoAre
<1> HIDE DEF w
<1> QED
  BY <1>1, <1>2 DEF Comes

LEMMA ComesOn ==
  ASSUME NEW E, NEW p \in Seq(Name), NEW n \in Name, NEW d \in Ino, NEW i \in Ino,
         Comes(E, p, d), <<d, n, i>> \in E
  PROVE  Comes(E, Append(p, n), i)
<1>1. PICK w \in [0 .. Len(p) -> Ino] :
        w[0] = Root /\ w[Len(p)] = d /\ \A k \in 1 .. Len(p) : <<w[k - 1], p[k], w[k]>> \in E
  BY DEF Comes
<1> DEFINE q == Append(p, n)
           v == [k \in 0 .. Len(q) |-> IF k = Len(q) THEN i ELSE w[k]]
<1>2. Len(p) \in Nat /\ Len(q) = Len(p) + 1 /\ q[Len(q)] = n /\ \A k \in 1 .. Len(p) : q[k] = p[k]
  OBVIOUS
<1> HIDE DEF q
<1>3. v \in [0 .. Len(q) -> Ino] /\ v[0] = Root /\ v[Len(q)] = i
  BY <1>1, <1>2
<1>4. ASSUME NEW k \in 1 .. Len(q) PROVE <<v[k - 1], q[k], v[k]>> \in E
  <2>1. CASE k = Len(q)
    <3>1. v[k - 1] = d /\ v[k] = i /\ q[k] = n
      BY <1>1, <1>2, <2>1
    <3> QED
      BY <3>1
  <2>2. CASE k # Len(q)
    <3>1. k \in 1 .. Len(p)
      BY <1>2, <2>2
    <3>2. v[k - 1] = w[k - 1] /\ v[k] = w[k] /\ q[k] = p[k]
      BY <1>2, <2>2, <3>1
    <3> QED
      BY <1>1, <3>1, <3>2
  <2> QED
    BY <2>1, <2>2
<1> HIDE DEF v
<1>5. Comes(E, q, i)
  BY <1>3, <1>4 DEF Comes
<1> QED
  BY <1>5 DEF q

LEMMA ComesFrom ==
  ASSUME NEW E, NEW p \in Seq(Name), NEW i \in Ino, i # Root, Comes(E, p, i)
  PROVE  \E q \in Seq(Name) : \E n \in Name : \E d \in Ino :
           p = Append(q, n) /\ Comes(E, q, d) /\ <<d, n, i>> \in E
<1>1. PICK w \in [0 .. Len(p) -> Ino] :
        w[0] = Root /\ w[Len(p)] = i /\ \A k \in 1 .. Len(p) : <<w[k - 1], p[k], w[k]>> \in E
  BY DEF Comes
<1>2. Len(p) \in Nat /\ Len(p) # 0
  BY <1>1
<1>3. PICK m \in Nat : Len(p) = m + 1
  BY <1>2
<1> DEFINE q == SubSeq(p, 1, m)
           n == p[m + 1]
           d == w[m]
           v == [k \in 0 .. m |-> w[k]]
<1>4. q \in Seq(Name) /\ Len(q) = m /\ n \in Name /\ \A k \in 1 .. m : q[k] = p[k]
  BY <1>3
<1>5. p = Append(q, n)
  BY <1>3
<1>6. d \in Ino /\ <<d, n, i>> \in E
  <2>1. m + 1 \in 1 .. Len(p) /\ (m + 1) - 1 = m
    BY <1>3
  <2> QED
    BY <1>1, <1>3, <2>1
<1>7. v \in [0 .. Len(q) -> Ino] /\ v[0] = Root /\ v[Len(q)] = d
  BY <1>1, <1>3, <1>4
<1>8. ASSUME NEW k \in 1 .. Len(q) PROVE <<v[k - 1], q[k], v[k]>> \in E
  <2>1. v[k - 1] = w[k - 1] /\ v[k] = w[k] /\ q[k] = p[k] /\ k \in 1 .. Len(p)
    BY <1>3, <1>4
  <2> QED
    BY <1>1, <2>1
<1> HIDE DEF q, n, d, v
<1>9. Comes(E, q, d)
  BY <1>7, <1>8 DEF Comes
<1> QED
  BY <1>4, <1>5, <1>6, <1>9

\* Nothing but no names leads to the root.
LEMMA ComesRoot ==
  ASSUME NEW E, TreeLike(E), NEW p \in Seq(Name), Comes(E, p, Root)
  PROVE  p = <<>>
<1>1. PICK w \in [0 .. Len(p) -> Ino] :
        w[Len(p)] = Root /\ \A k \in 1 .. Len(p) : <<w[k - 1], p[k], w[k]>> \in E
  BY DEF Comes
<1> SUFFICES ASSUME Len(p) # 0 PROVE FALSE
  OBVIOUS
<1>2. PICK m \in Nat : Len(p) = m + 1
  OBVIOUS
<1>3. m + 1 \in 1 .. Len(p) /\ (m + 1) - 1 = m /\ w[m] \in Ino /\ p[m + 1] \in Name
  BY <1>2
<1>4. <<w[m], p[m + 1], Root>> \in E
  BY <1>1, <1>2, <1>3
<1> QED
  BY <1>3, <1>4 DEF TreeLike

\* Where names go, what still is near is where it was.
LEMMA NearShrinks ==
  ASSUME NEW E, TreeLike(E), NEW F, F \subseteq E, NEW i \in Near(F)
  PROVE  i \in Near(E) /\ \A p \in Seq(Name) : Comes(E, p, i) => Comes(F, p, i)
<1> DEFINE S == {x \in Ino : \A p \in Seq(Name) : Comes(E, p, x) => Comes(F, p, x)}
<1>1. Root \in S
  <2>1. ASSUME NEW p \in Seq(Name), Comes(E, p, Root) PROVE Comes(F, p, Root)
    BY <2>1, ComesRoot, ComesNone
  <2> QED
    BY <2>1, InoAre
<1>2. ASSUME NEW d \in S, NEW n \in Name, NEW x \in Ino, <<d, n, x>> \in F PROVE x \in S
  <2> SUFFICES ASSUME NEW p \in Seq(Name), Comes(E, p, x) PROVE Comes(F, p, x)
    OBVIOUS
  <2>1. <<d, n, x>> \in E /\ x # Root /\ d \in Ino
    BY <1>2 DEF TreeLike
  <2>2. PICK q \in Seq(Name) : \E m \in Name : \E e \in Ino :
          p = Append(q, m) /\ Comes(E, q, e) /\ <<e, m, x>> \in E
    BY <2>1, ComesFrom
  <2>3. PICK m \in Name : \E e \in Ino :
          p = Append(q, m) /\ Comes(E, q, e) /\ <<e, m, x>> \in E
    BY <2>2
  <2>4. PICK e \in Ino : p = Append(q, m) /\ Comes(E, q, e) /\ <<e, m, x>> \in E
    BY <2>3
  <2>5. e = d /\ m = n
    BY <2>1, <2>4 DEF TreeLike
  <2>6. Comes(F, q, d)
    BY <2>4, <2>5
  <2> QED
    BY <1>2, <2>1, <2>4, <2>5, <2>6, ComesOn
<1>3. S \in SUBSET Ino
  OBVIOUS
<1>4. \A p \in Seq(Name) : Comes(E, p, i) => Comes(F, p, i)
  <2>1. Closed(F, S)
    BY <1>2 DEF Closed
  <2> HIDE DEF S
  <2>2. i \in S
    BY <1>1, <1>3, <2>1 DEF Near
  <2> QED
    BY <2>2 DEF S
<1>5. i \in Near(E)
  <2>1. \A T : Closed(E, T) => Closed(F, T)
    BY DEF Closed
  <2> QED
    BY <2>1 DEF Near
<1> QED
  BY <1>4, <1>5

\* A new name of an inode without names of its own brings only that inode near.
LEMMA NearGrows ==
  ASSUME NEW E, NEW F, E \subseteq F, NEW d \in Ino, NEW i \in Ino, d # i,
         \A x \in Ino : \A n \in Name : \A y \in Ino :
           <<x, n, y>> \in F => <<x, n, y>> \in E \/ (x = d /\ y = i),
         \A n \in Name : \A y \in Ino : <<i, n, y>> \notin E,
         NEW x \in Near(F)
  PROVE  /\ x # i => x \in Near(E)
         /\ \A p \in Seq(Name) : Comes(E, p, x) => Comes(F, p, x)
<1> DEFINE S == Near(E) \cup {i}
<1>1. Root \in S /\ S \in SUBSET Ino
  BY InoAre DEF Near
<1>2. ASSUME NEW a \in S, NEW n \in Name, NEW y \in Ino, <<a, n, y>> \in F PROVE y \in S
  <2>1. a # i \/ y = i
    BY <1>2
  <2>2. CASE y # i
    <3>1. a \in Near(E) /\ <<a, n, y>> \in E /\ a \in Ino
      BY <1>1, <1>2, <2>1, <2>2
    <3>2. y \in Near(E)
      BY <3>1 DEF Near, Closed
    <3> QED
      BY <3>2
  <2> QED
    BY <2>2
<1>3. x \in S
  <2>1. Closed(F, S)
    BY <1>2 DEF Closed
  <2> HIDE DEF S
  <2> QED
    BY <1>1, <2>1 DEF Near
<1>4. ASSUME NEW p \in Seq(Name), Comes(E, p, x) PROVE Comes(F, p, x)
  BY <1>4 DEF Comes
<1> QED
  BY <1>3, <1>4

\* The names that the directories have.
Edges ==
  {x \in Ino \X Name \X (Ino \ {Root}) :
     \E k \in DOMAIN entry[x[1]] : entry[x[1]][k].name = x[2] /\ entry[x[1]][k].ino = x[3]}

LEMMA EdgeIs ==
  ASSUME NEW d \in Ino, NEW n \in Name, NEW i \in Ino
  PROVE  <<d, n, i>> \in Edges <=>
           i # Root /\ \E k \in DOMAIN entry[d] : entry[d][k].name = n /\ entry[d][k].ino = i
BY DEF Edges

LEMMA EdgeOf ==
  ASSUME NEW x \in Edges
  PROVE  \E d \in Ino : \E n \in Name : \E i \in Ino : x = <<d, n, i>>
BY DEF Edges

\* What Find comes to is what the names say.
LEMMA EdgeFinds ==
  ASSUME entry \in Entries, NamesOnce, NEW d \in Ino, NEW n \in Name, NEW i \in Ino, <<d, n, i>> \in Edges
  PROVE  Find(d, n) # {} /\ entry[d][Lowest(Find(d, n))].ino = i
<1>1. PICK k \in DOMAIN entry[d] : entry[d][k].name = n /\ entry[d][k].ino = i /\ i # Root
  BY EdgeIs
<1>2. k \in Find(d, n) /\ Find(d, n) \subseteq DOMAIN entry[d] /\ DOMAIN entry[d] \subseteq Nat
  BY <1>1, EntriesAre DEF Find
<1>3. Lowest(Find(d, n)) \in Find(d, n)
  BY <1>2, LowestIs
<1>4. Lowest(Find(d, n)) = k
  <2>1. ASSUME NEW l \in Find(d, n) PROVE l = k
    BY <1>1, <2>1 DEF Find, NamesOnce
  <2> QED
    BY <1>3, <2>1
<1> QED
  BY <1>1, <1>2, <1>4

LEMMA FindsEdge ==
  ASSUME entry \in Entries, NEW d \in Ino, NEW n \in Name, Find(d, n) # {}
  PROVE  \E i \in Ino : i = entry[d][Lowest(Find(d, n))].ino /\ i # Root /\ <<d, n, i>> \in Edges
<1>1. Find(d, n) \subseteq DOMAIN entry[d] /\ DOMAIN entry[d] \subseteq Nat
  BY EntriesAre DEF Find
<1>2. Lowest(Find(d, n)) \in Find(d, n)
  BY <1>1, LowestIs
<1>3. PICK k \in Find(d, n) : k = Lowest(Find(d, n))
  BY <1>2
<1>4. k \in DOMAIN entry[d] /\ entry[d][k].ino # Root /\ entry[d][k].name = n
  BY DEF Find
<1>5. entry[d][k].ino \in Ino
  BY <1>4, EntriesAre
<1> QED
  BY <1>3, <1>4, <1>5, EdgeIs

LEMMA EdgesTree == Unique => TreeLike(Edges)
<1> SUFFICES ASSUME Unique PROVE TreeLike(Edges)
  OBVIOUS
<1>1. ASSUME NEW d \in Ino, NEW n \in Name PROVE <<d, n, Root>> \notin Edges
  BY InoAre, EdgeIs
<1>2. ASSUME NEW d \in Ino, NEW e \in Ino, NEW m \in Name, NEW n \in Name, NEW i \in Ino,
             <<d, m, i>> \in Edges, <<e, n, i>> \in Edges
      PROVE  d = e /\ m = n
  <2>1. PICK k \in DOMAIN entry[d] : entry[d][k].name = m /\ entry[d][k].ino = i /\ i # Root
    BY <1>2, EdgeIs
  <2>2. PICK l \in DOMAIN entry[e] : entry[e][l].name = n /\ entry[e][l].ino = i
    BY <1>2, EdgeIs
  <2> QED
    BY <2>1, <2>2 DEF Unique
<1> QED
  BY <1>1, <1>2 DEF TreeLike

LEMMA ReachableIs == entry \in Entries => Reachable = Near(Edges)
<1> SUFFICES ASSUME entry \in Entries, NEW S \in SUBSET Ino
             PROVE  (\A x \in Names : x[1] \in S => entry[x[1]][x[2]].ino \in S) <=> Closed(Edges, S)
  BY DEF Reachable, Near
<1>1. ASSUME \A x \in Names : x[1] \in S => entry[x[1]][x[2]].ino \in S,
             NEW d \in S, NEW n \in Name, NEW i \in Ino, <<d, n, i>> \in Edges
      PROVE  i \in S
  <2>1. PICK k \in DOMAIN entry[d] : entry[d][k].name = n /\ entry[d][k].ino = i /\ i # Root
    BY <1>1, EdgeIs
  <2>2. <<d, k>> \in Names
    BY <2>1, NameOf
  <2> QED
    BY <1>1, <2>1, <2>2
<1>2. ASSUME Closed(Edges, S), NEW x \in Names, x[1] \in S
      PROVE  entry[x[1]][x[2]].ino \in S
  <2>1. PICK d \in Ino, k \in DOMAIN entry[x[1]] : x[1] = d /\ x[2] = k /\ entry[d][k].ino # Root
    BY NameIs
  <2>2. entry[d][k] \in [name : Name, ino : Ino \ {Root}]
    BY <2>1, EntriesAre
  <2>3. PICK n \in Name, i \in Ino : n = entry[d][k].name /\ i = entry[d][k].ino
    BY <2>2
  <2>4. <<d, n, i>> \in Edges
    BY <2>1, <2>3, EdgeIs
  <2> QED
    BY <1>2, <2>1, <2>3, <2>4 DEF Closed
<1> QED
  BY <1>1, <1>2 DEF Closed

\* NameI follows the names.
LEMMA LeadsThere ==
  ASSUME entry \in Entries, NamesOnce, NEW p \in Seq(Name), NEW i \in Ino, Comes(Edges, p, i)
  PROVE  Leads(p) = i
<1>1. PICK w \in [0 .. Len(p) -> Ino] :
        w[0] = Root /\ w[Len(p)] = i /\ \A k \in 1 .. Len(p) : <<w[k - 1], p[k], w[k]>> \in Edges
  BY DEF Comes
<1> DEFINE After(f, n) ==
             IF n = 0 THEN Root
             ELSE IF f[n - 1] = -1 \/ Find(f[n - 1], p[n]) = {} THEN -1
                  ELSE entry[f[n - 1]][Lowest(Find(f[n - 1], p[n]))].ino
           f == CHOOSE f : f = [n \in 0 .. Len(p) |-> After(f, n)]
<1>2. Leads(p) = f[Len(p)]
  BY DEF Leads
<1>3. Len(p) \in Nat
  OBVIOUS
<1>4. ASSUME NEW g, NEW n \in 1 .. Len(p), g[n - 1] = w[n - 1] PROVE After(g, n) = w[n]
  <2>1. n - 1 \in 0 .. Len(p) /\ n # 0 /\ n \in 0 .. Len(p)
    OBVIOUS
  <2>2. PICK d \in Ino : d = w[n - 1] /\ d # -1
    BY <2>1, InoAre
  <2>3. p[n] \in Name /\ w[n] \in Ino
    BY <2>1
  <2>4. Find(d, p[n]) # {} /\ entry[d][Lowest(Find(d, p[n]))].ino = w[n]
    <3>1. <<d, p[n], w[n]>> \in Edges
      BY <1>1, <2>2
    <3>2. PICK a \in Name, x \in Ino : a = p[n] /\ x = w[n]
      BY <2>3
    <3>3. <<d, a, x>> \in Edges
      BY <3>1, <3>2
    <3>4. Find(d, a) # {} /\ entry[d][Lowest(Find(d, a))].ino = x
      BY <3>3, EdgeFinds
    <3> QED
      BY <3>2, <3>4
  <2> QED
    BY <1>4, <2>1, <2>2, <2>4
<1>5. w = [n \in 0 .. Len(p) |-> After(w, n)]
  <2>1. ASSUME NEW n \in 0 .. Len(p) PROVE w[n] = After(w, n)
    <3>1. CASE n = 0
      BY <1>1, <3>1
    <3>2. CASE n # 0
      <4>1. n \in 1 .. Len(p)
        BY <3>2
      <4> HIDE DEF After
      <4> QED
        BY <1>4, <4>1
    <3> QED
      BY <3>1, <3>2
  <2> HIDE DEF After
  <2> QED
    BY <2>1
<1>6. f = [n \in 0 .. Len(p) |-> After(f, n)]
  <2> HIDE DEF After
  <2> QED
    BY <1>5
<1> DEFINE Off == {n \in 0 .. Len(p) : f[n] # w[n]}
<1> HIDE DEF f
<1>7. Off = {}
  <2> SUFFICES ASSUME Off # {} PROVE FALSE
    OBVIOUS
  <2>1. PICK m \in Off : \A n \in Off : m <= n
    <3>1. Off \in SUBSET Nat
      OBVIOUS
    <3> HIDE DEF Off
    <3> QED
      BY <3>1, LeastIs
  <2>2. f[m] = After(f, m)
    BY <1>6
  <2>3. m # 0
    BY <1>1, <2>2
  <2>4. m \in 1 .. Len(p) /\ m - 1 \in 0 .. Len(p)
    BY <2>3
  <2>5. f[m - 1] = w[m - 1]
    <3>1. m - 1 \notin Off
      <4>1. ~ (m <= m - 1)
        BY <2>4
      <4> QED
        BY <2>1, <4>1
    <3> QED
      BY <2>4, <3>1
  <2>6. After(f, m) = w[m]
    <3> HIDE DEF After
    <3> QED
      BY <1>4, <2>4, <2>5
  <2> QED
    BY <2>2, <2>6
<1>8. f[Len(p)] = w[Len(p)]
  BY <1>3, <1>7
<1> QED
  BY <1>1, <1>2, <1>8

\* What a tree names is near only through what names it.
LEMMA NearFrom ==
  ASSUME NEW E, TreeLike(E), NEW d \in Ino, NEW n \in Name, NEW i \in Near(E), <<d, n, i>> \in E
  PROVE  d \in Near(E)
<1> DEFINE S == {x \in Near(E) : x = Root \/ \E y \in Near(E) : \E m \in Name : <<y, m, x>> \in E}
<1>1. Root \in S /\ S \in SUBSET Ino
  BY InoAre DEF Near
<1>2. ASSUME NEW a \in S, NEW m \in Name, NEW y \in Ino, <<a, m, y>> \in E PROVE y \in S
  <2>1. a \in Near(E) /\ a \in Ino
    BY <1>1
  <2>2. y \in Near(E)
    BY <1>2, <2>1 DEF Near, Closed
  <2> QED
    BY <1>2, <2>1, <2>2
<1>3. i \in S
  <2>1. Closed(E, S)
    BY <1>2 DEF Closed
  <2> HIDE DEF S
  <2> QED
    BY <1>1, <2>1 DEF Near
<1>4. i \in Ino
  BY DEF Near
<1>5. i # Root
  BY <1>4 DEF TreeLike
<1>6. PICK y \in Near(E) : \E m \in Name : <<y, m, i>> \in E
  BY <1>3, <1>5
<1>7. y \in Ino
  BY DEF Near
<1> QED
  BY <1>4, <1>6, <1>7 DEF TreeLike

-----------------------------------------------------------------------------
(***************************************************************************)
(* Where the sessions are.                                                 *)
(***************************************************************************)
\* The names p are those of x, unless x has been cut off from the root.
Where(p, x) == x \in Near(Edges) => Comes(Edges, p, x)

\* u_curdir is the path of u_cdir.
Sits(s) == call[s].pc # "out" => Where(curdir[s], cdir[s])

\* A walk has come where the names lead that it has used, the path it began at included,
\* as long as the inode that it goes on with has not been freed.
Base(s, c) == IF c.path.abs THEN <<>> ELSE curdir[s]

Along(s, c) ==
  c.cmd \in {"cd", "home"} =>
    \E done \in Seq(Name) :
      c.path.names = done \o c.rest /\ (age[c.at] = c.age => Where(Base(s, c) \o done, c.at))

\* The inode that a walk goes on with was in use when its number was read.
Fresh(c) == c.age <= age[c.at] /\ (c.age = age[c.at] => kind[c.at] # "free")

OnWay(s) ==
  /\ call[s].pc = "walk" =>
       /\ Along(s, call[s]) /\ Fresh(call[s])
       /\ call[s].cmd = "login" => curdir[s] = <<>>
  /\ call[s].pc = "unlink" => call[s].cmd = "rm"
  /\ call[s].pc = "make" /\ call[s].cmd = "login" => curdir[s] = <<>>

Agree == age[Root] = 0 /\ \A s \in Session : Sits(s) /\ OnWay(s)

\* What the names say of x, they say after the step.
Keeps(x) == \A p \in Seq(Name) : Where(p, x) => (x \in Near(Edges') => Comes(Edges', p, x))

\* An inode that is free now was so before, or has been freed once more.
Ages ==
  \A x \in Ino : age'[x] >= age[x] /\ (kind'[x] = "free" /\ age'[x] = age[x] => kind[x] = "free")

LEMMA WherePrime ==
  ASSUME NEW p, NEW x
  PROVE  Where(p, x)' <=> (x \in Near(Edges') => Comes(Edges', p, x))
BY DEF Where

LEMMA KeepsWhere ==
  ASSUME NEW p \in Seq(Name), NEW x, Keeps(x), Where(p, x)
  PROVE  Where(p, x)'
BY WherePrime DEF Keeps

LEMMA ShrunkKeepsAll ==
  ASSUME Unique, Edges' \subseteq Edges
  PROVE  \A x \in Ino : Keeps(x)
<1> SUFFICES ASSUME NEW x \in Ino, NEW p \in Seq(Name), Where(p, x), x \in Near(Edges')
             PROVE  Comes(Edges', p, x)
  BY DEF Keeps
<1>1. TreeLike(Edges)
  BY EdgesTree
<1>2. PICK E : E = Edges
  OBVIOUS
<1>3. PICK F : F = Edges'
  OBVIOUS
<1>4. x \in Near(E) /\ (Comes(E, p, x) => Comes(F, p, x))
  BY <1>1, <1>2, <1>3, NearShrinks
<1> QED
  BY <1>2, <1>3, <1>4 DEF Where

\* Steps that leave the names alone and free no inode.
LEMMA SameKeepsAll ==
  ASSUME UNCHANGED <<entry, age>>, Shape, \A x \in Ino : kind'[x] = "free" => kind[x] = "free"
  PROVE  Ages /\ \A x \in Ino : Keeps(x)
<1>1. Edges' = Edges
  BY DEF Edges
<1>2. Ages
  BY DEF Ages, Shape
<1> QED
  BY <1>1, <1>2 DEF Keeps, Where

LEMMA TreeKeepsAll ==
  ASSUME Shape, Unique, NEW S \in SUBSET Ino, Root \notin S, NEW e, NEW links, Tree(S, kind, e, links),
         \A d \in Ino : \A k \in DOMAIN e[d] :
           e[d][k].ino # Root => k \in DOMAIN entry[d] /\ e[d][k] = entry[d][k]
  PROVE  Ages /\ age'[Root] = age[Root] /\ \A x \in Ino : Keeps(x)
<1>1. \A i \in Ino : /\ kind'[i] = IF i \in S THEN "free" ELSE kind[i]
                     /\ entry'[i] = IF i \in S THEN <<>> ELSE e[i]
                     /\ age'[i] = IF i \in S THEN age[i] + 1 ELSE age[i]
  BY DEF Tree
<1>2. Ages /\ age'[Root] = age[Root]
  <2>1. \A i \in Ino : age[i] \in Nat
    BY DEF Shape
  <2> QED
    BY <1>1, <2>1, InoAre DEF Ages
<1>3. Edges' \subseteq Edges
  <2> SUFFICES ASSUME NEW x \in Edges' PROVE x \in Edges
    OBVIOUS
  <2>1. x \in Ino \X Name \X (Ino \ {Root})
    BY DEF Edges
  <2>2. PICK k \in DOMAIN entry'[x[1]] : entry'[x[1]][k].name = x[2] /\ entry'[x[1]][k].ino = x[3]
    BY DEF Edges
  <2>3. PICK d \in Ino : d = x[1]
    BY <2>1
  <2>4. d \notin S
    <3>1. DOMAIN <<>> = {}
      OBVIOUS
    <3> QED
      BY <1>1, <2>2, <2>3, <3>1
  <2>5. k \in DOMAIN entry[d] /\ entry'[d][k] = entry[d][k]
    BY <1>1, <2>1, <2>2, <2>3, <2>4
  <2> QED
    BY <2>1, <2>2, <2>3, <2>5 DEF Edges
<1> QED
  BY <1>2, <1>3, ShrunkKeepsAll

\* MakNode: the new inode has no names, and nothing refers to it.
LEMMA MakeKeeps ==
  ASSUME Shape, Tidy, Linked, NEW s \in Session, Make(s)
  PROVE  /\ Ages /\ age'[Root] = age[Root]
         /\ \E i \in Ino : kind[i] = "free" /\ Refs(i) = 0 /\ \A x \in Ino \ {i} : Keeps(x)
<1>1. PICK d \in Ino, i \in Ino, S \in SUBSET Ino, e \in Entries : Makes(s, d, i, S, e)
  BY MakeIs
<1>2. PICK n \in Name : n = Head(call[s].rest)
  BY <1>1 DEF Makes
<1>3. PICK E : E = [name |-> n, ino |-> i]
  OBVIOUS
<1>4. /\ call[s].pc = "make" /\ kind[d] = "dir" /\ kind[i] = "free" /\ Refs(i) = 0 /\ i # d /\ E.ino = i
      /\ S = (IF Goes(d, 1, nlink) THEN {d} ELSE {})
      /\ kind'[i] # "free"
      /\ \A x \in Ino \ (S \cup {i}) : kind'[x] = kind[x]
      /\ \A x \in S : x = d /\ kind'[x] = "free" /\ entry'[x] = <<>>
      /\ \A x \in Ino \ S : entry'[x] = e[x]
      /\ \A x \in Ino : age'[x] = IF x \in S THEN age[x] + 1 ELSE age[x]
  BY <1>1, <1>3 DEF Makes
<1>5. s \in Creations /\ call[s].slot # 0 /\ Ready(s)
  BY <1>4 DEF Creations, Tidy, Opened, Linked
<1>6. /\ \A x \in Ino : x # d => e[x] = entry[x]
      /\ e[d] = entry[d] \/ Puts(entry[d], e[d], E)
  BY <1>1, <1>2, <1>3, <1>5, MakesPuts
<1>7. Root \notin S
  BY <1>4 DEF Goes
<1>8. Ages /\ age'[Root] = age[Root]
  <2>1. \A x \in Ino : age[x] \in Nat
    BY DEF Shape
  <2>2. \A x \in Ino : age'[x] >= age[x] /\ (age'[x] = age[x] => x \notin S)
    BY <1>4, <2>1
  <2>3. \A x \in Ino \ S : kind'[x] = "free" => kind[x] = "free"
    BY <1>4
  <2> QED
    BY <1>4, <1>7, <2>2, <2>3, InoAre DEF Ages
<1>9. CASE e[d] = entry[d] \/ d \in S
  <2>1. Edges' \subseteq Edges
    <3> SUFFICES ASSUME NEW x \in Edges' PROVE x \in Edges
      OBVIOUS
    <3>1. x \in Ino \X Name \X (Ino \ {Root})
      BY DEF Edges
    <3>2. PICK k \in DOMAIN entry'[x[1]] : entry'[x[1]][k].name = x[2] /\ entry'[x[1]][k].ino = x[3]
      BY DEF Edges
    <3>3. PICK y \in Ino : y = x[1]
      BY <3>1
    <3>4. y \notin S
      <4>1. DOMAIN <<>> = {}
        OBVIOUS
      <4> QED
        BY <1>4, <3>2, <3>3, <4>1
    <3>5. entry'[y] = entry[y]
      BY <1>4, <1>6, <1>9, <3>4
    <3> QED
      BY <3>1, <3>2, <3>3, <3>5 DEF Edges
  <2>2. \A x \in Ino : Keeps(x)
    BY <2>1, ShrunkKeepsAll DEF Linked
  <2> QED
    BY <1>4, <1>8, <2>2
<1>10. CASE Puts(entry[d], e[d], E) /\ d \notin S
  <2>1. entry'[d] = e[d] /\ \A x \in Ino : x # d => entry'[x] = entry[x]
    BY <1>4, <1>6, <1>10
  <2>2. PICK k \in DOMAIN entry'[d] :
          /\ entry'[d][k] = E /\ (k \in DOMAIN entry[d] => entry[d][k].ino = Root)
          /\ \A l \in DOMAIN entry'[d] : l # k => l \in DOMAIN entry[d] /\ entry'[d][l] = entry[d][l]
          /\ \A l \in DOMAIN entry[d] : l \in DOMAIN entry'[d]
    BY <1>10, <2>1 DEF Puts
  <2>3. ASSUME NEW x \in Ino, NEW m \in Name, NEW y \in Ino
        PROVE  /\ <<x, m, y>> \in Edges => <<x, m, y>> \in Edges'
               /\ <<x, m, y>> \in Edges' => <<x, m, y>> \in Edges \/ (x = d /\ y = i)
    <3>1. <<x, m, y>> \in Edges' <=>
            y # Root /\ \E l \in DOMAIN entry'[x] : entry'[x][l].name = m /\ entry'[x][l].ino = y
      BY DEF Edges
    <3>2. CASE x # d
      BY <2>1, <3>1, <3>2, EdgeIs
    <3>3. CASE x = d
      BY <1>4, <2>2, <3>1, <3>3, EdgeIs
    <3> QED
      BY <3>2, <3>3
  <2>4. Edges \subseteq Edges'
    BY <2>3, EdgeOf
  <2>5. \A m \in Name : \A y \in Ino : <<i, m, y>> \notin Edges
    <3>1. entry[i] = <<>> /\ DOMAIN <<>> = {}
      BY <1>4 DEF Tidy, Bare
    <3> QED
      BY <3>1, EdgeIs
  <2>6. ASSUME NEW x \in Ino, x # i PROVE Keeps(x)
    <3> SUFFICES ASSUME NEW p \in Seq(Name), Where(p, x), x \in Near(Edges')
                 PROVE  Comes(Edges', p, x)
      BY DEF Keeps
    <3>1. PICK F : F = Edges
      OBVIOUS
    <3>2. PICK G : G = Edges'
      OBVIOUS
    <3>3. /\ F \subseteq G /\ \A m \in Name : \A y \in Ino : <<i, m, y>> \notin F
          /\ \A z \in Ino : \A m \in Name : \A y \in Ino :
               <<z, m, y>> \in G => <<z, m, y>> \in F \/ (z = d /\ y = i)
      BY <2>3, <2>4, <2>5, <3>1, <3>2
    <3>4. x \in Near(G)
      BY <3>2
    <3>5. d # i
      BY <1>4
    <3>6. (x # i => x \in Near(F)) /\ \A q \in Seq(Name) : Comes(F, q, x) => Comes(G, q, x)
      BY <3>3, <3>4, <3>5, NearGrows
    <3> QED
      BY <2>6, <3>1, <3>2, <3>6 DEF Where
  <2> QED
    BY <1>4, <1>8, <2>6
<1> QED
  BY <1>6, <1>9, <1>10

\* A session that a step of another one passes by.
LEMMA OtherStays ==
  ASSUME Shape, Shape', Ages, NEW r \in Session, Sits(r), OnWay(r),
         call'[r] = call[r], cdir'[r] = cdir[r], curdir'[r] = curdir[r],
         call[r].pc # "out" => Keeps(cdir[r]),
         call[r].pc = "walk" /\ kind[call[r].at] # "free" => Keeps(call[r].at)
  PROVE  Sits(r)' /\ OnWay(r)'
<1>1. curdir[r] \in Seq(Name) /\ call[r] \in CallSet
  BY DEF Shape
<1>2. Sits(r)'
  <2> SUFFICES ASSUME call[r].pc # "out" PROVE Where(curdir[r], cdir[r])'
    BY WherePrime DEF Sits, Where
  <2> QED
    BY <1>1, KeepsWhere DEF Sits
<1>3. ASSUME call[r].pc = "walk" PROVE OnWay(r)'
  <2>1. PICK c \in CallSet : c = call[r]
    BY <1>1
  <2>2. Along(r, c) /\ Fresh(c) /\ (c.cmd = "login" => curdir[r] = <<>>)
    BY <1>3, <2>1 DEF OnWay
  <2>3. c.at \in Ino /\ c.age \in Nat /\ age[c.at] \in Nat /\ age'[c.at] >= age[c.at] /\ c.age <= age[c.at]
        /\ (kind'[c.at] = "free" /\ age'[c.at] = age[c.at] => kind[c.at] = "free")
        /\ (c.age = age[c.at] => kind[c.at] # "free")
    <3>1. c.at \in Ino /\ c.age \in Nat
      BY DEF CallSet
    <3> QED
      BY <2>2, <3>1 DEF Ages, Fresh, Shape
  <2>4. Fresh(c)'
    <3>1. age'[c.at] \in Nat
      BY <2>3 DEF Shape
    <3> QED
      BY <2>3, <3>1 DEF Fresh
  <2>5. Along(r, c)'
    <3> SUFFICES ASSUME c.cmd \in {"cd", "home"} PROVE Along(r, c)'
      BY DEF Along
    <3>1. PICK done \in Seq(Name) :
            c.path.names = done \o c.rest /\ (age[c.at] = c.age => Where(Base(r, c) \o done, c.at))
      BY <2>2 DEF Along
    <3>2. ASSUME age'[c.at] = c.age PROVE Where(Base(r, c) \o done, c.at)'
      <4>1. age[c.at] = c.age /\ kind[c.at] # "free"
        <5>1. age'[c.at] \in Nat
          BY <2>3 DEF Shape
        <5> QED
          BY <2>3, <3>2, <5>1
      <4>2. Keeps(c.at)
        BY <1>3, <2>1, <4>1
      <4>3. PICK p \in Seq(Name) : p = Base(r, c) \o done
        <5>1. <<>> \in Seq(Name)
          OBVIOUS
        <5>2. Base(r, c) \in Seq(Name)
          BY <1>1, <5>1 DEF Base
        <5>3. PICK b \in Seq(Name) : b = Base(r, c)
          BY <5>2
        <5>4. b \o done \in Seq(Name)
          OBVIOUS
        <5> QED
          BY <5>3, <5>4
      <4>4. Where(p, c.at)'
        BY <3>1, <4>1, <4>2, <4>3, KeepsWhere
      <4>5. (Base(r, c) \o done)' = p
        BY <4>3 DEF Base
      <4> QED
        BY <4>4, <4>5 DEF Where
    <3> QED
      BY <3>1, <3>2 DEF Along
  <2> QED
    BY <2>1, <2>2, <2>4, <2>5 DEF OnWay
<1> QED
  BY <1>2, <1>3 DEF OnWay

\* The directory of a session that stays in it.
LEMMA SitsStill ==
  ASSUME Shape, NEW s \in Session, Sits(s), call[s].pc # "out", UNCHANGED <<cdir, curdir>>, Keeps(cdir[s])
  PROVE  Sits(s)'
<1>1. curdir[s] \in Seq(Name) /\ Where(curdir[s], cdir[s])
  BY DEF Shape, Sits
<1>2. Where(curdir[s], cdir[s])'
  BY <1>1, KeepsWhere DEF Where
<1> QED
  BY <1>2 DEF Sits

\* Where a call ends, or the mkdir of a login, whose cd begins at the root.
LEMMA FinishOnWay ==
  ASSUME Shape, Shape', Bare', age'[Root] = 0, NEW s \in Session, NEW c, Finish(s, c),
         c.cmd = "login" => curdir'[s] = <<>>
  PROVE  OnWay(s)'
<1> DEFINE home == [NoCall EXCEPT !.pc = "walk", !.cmd = "home", !.rest = <<Home[s]>>,
                                  !.path = [abs |-> FALSE, names |-> <<Home[s]>>]]
<1>1. call' = [call EXCEPT ![s] = IF c.cmd = "login" THEN home ELSE NoCall]
  BY DEF Finish
<1>2. /\ home.pc = "walk" /\ home.cmd = "home" /\ home.at = Root /\ home.age = 0 /\ ~ home.path.abs
      /\ home.path.names = <<Home[s]>> /\ home.rest = <<Home[s]>>
  BY DEF NoCall
<1>3. NoCall.pc = "idle"
  BY DEF NoCall
<1> HIDE DEF home
<1>4. CASE c.cmd # "login"
  <2>1. call'[s].pc = "idle"
    BY <1>1, <1>3, <1>4 DEF Shape
  <2> QED
    BY <2>1 DEF OnWay
<1>5. CASE c.cmd = "login"
  <2>1. call'[s] = home /\ home.pc = "walk"
    BY <1>1, <1>2, <1>5 DEF Shape
  <2>2. Fresh(home)'
    BY <1>2, InoAre DEF Fresh, Bare
  <2>3. Along(s, home)'
    <3>1. <<>> \in Seq(Name) /\ <<Home[s]>> = <<>> \o <<Home[s]>> /\ <<>> \o <<>> = <<>>
      <4>1. <<Home[s]>> \in Seq(Name)
        BY DirectoryAssumption
      <4>2. PICK h \in Seq(Name) : h = <<Home[s]>>
        BY <4>1
      <4>3. h = <<>> \o h
        OBVIOUS
      <4> QED
        BY <4>2, <4>3
    <3>2. Base(s, home)' = <<>>
      BY <1>2, <1>5 DEF Base
    <3>3. Where(<<>>, Root)'
      BY ComesNone, WherePrime
    <3>4. (Where(Base(s, home) \o <<>>, home.at))'
      BY <1>2, <3>1, <3>2, <3>3 DEF Where
    <3> QED
      BY <1>2, <3>1, <3>4 DEF Along
  <2> QED
    BY <1>2, <2>1, <2>2, <2>3 DEF OnWay
<1> QED
  BY <1>4, <1>5

\* What a step of NameI knows of its call.
Knows(s, c) == Along(s, c) /\ (c.cmd = "login" => curdir[s] = <<>>)

\* One directory further, along the name that it has there.
LEMMA DescendOnWay ==
  ASSUME Shape, Shape', Tidy, Linked, NEW s \in Session, NEW c \in CallSet, age[c.at] = c.age,
         Knows(s, c), Descend(s, c)
  PROVE  OnWay(s)'
<1> DEFINE d == c.at
           n == Head(c.rest)
<1>1. /\ d \in Ino /\ n \in Name /\ Tail(c.rest) \in Seq(Name) /\ c.rest = <<n>> \o Tail(c.rest)
      /\ entry \in Entries /\ Find(d, n) # {}
  <2>1. c.rest # <<>>
    BY DEF Descend
  <2>2. c.rest \in Seq(Name)
    BY CallParts
  <2>3. c.rest = <<Head(c.rest)>> \o Tail(c.rest)
    BY <2>1, <2>2
  <2> QED
    BY <2>1, <2>3, CallParts DEF Descend, Shape
<1>2. PICK i \in Ino : i = entry[d][Lowest(Find(d, n))].ino /\ i # Root /\ <<d, n, i>> \in Edges
  BY <1>1, FindsEdge
<1>0. PICK b : b = [c EXCEPT !.pc = "walk", !.at = i, !.age = age[i], !.rest = Tail(c.rest)]
  OBVIOUS
<1>3. call' = [call EXCEPT ![s] = b] /\ UNCHANGED <<kind, entry, curdir, age>>
  BY <1>0, <1>2 DEF Descend, treeVars
<1>4. b.at = i /\ b.age = age[i] /\ b.rest = Tail(c.rest) /\ b.cmd = c.cmd /\ b.path = c.path /\ b.pc = "walk"
  BY <1>0 DEF CallSet
<1>5. call'[s] = b
  BY <1>3 DEF Shape
<1>6. Fresh(b)'
  <2>1. kind[i] # "free"
    <3>1. PICK k \in DOMAIN entry[d] : entry[d][k].ino = i
      BY <1>1, <1>2, EdgeIs
    <3> QED
      BY <1>1, <1>2, <3>1 DEF Linked, Backed
  <2>2. age[i] \in Nat
    BY DEF Shape
  <2> QED
    BY <1>3, <1>4, <2>1, <2>2 DEF Fresh
<1>7. Along(s, b)'
  <2> SUFFICES ASSUME c.cmd \in {"cd", "home"}
               PROVE  Along(s, b)'
    BY <1>4 DEF Along
  <2>1. PICK done \in Seq(Name) : c.path.names = done \o c.rest /\ Where(Base(s, c) \o done, d)
    BY DEF Knows, Along
  <2>2. PICK base \in Seq(Name) : base = Base(s, c)
    <3>1. <<>> \in Seq(Name)
      OBVIOUS
    <3> QED
      BY <3>1 DEF Base, Shape
  <2> DEFINE more == Append(done, n)
  <2>3. /\ more \in Seq(Name) /\ base \o done \in Seq(Name)
        /\ base \o more = Append(base \o done, n)
        /\ c.path.names = more \o b.rest
    <3>1. PICK t \in Seq(Name) : t = Tail(c.rest)
      BY <1>1
    <3>2. PICK m \in Name : m = n
      BY <1>1
    <3>3. done \o (<<m>> \o t) = Append(done, m) \o t
      <4>0. <<m>> \in Seq(Name)
        OBVIOUS
      <4>1. PICK u \in Seq(Name) : u = <<m>>
        BY <4>0
      <4>2. done \o (u \o t) = (done \o u) \o t
        OBVIOUS
      <4>3. done \o u = Append(done, m)
        BY <4>1
      <4> QED
        BY <4>1, <4>2, <4>3
    <3>4. /\ Append(done, m) \in Seq(Name) /\ base \o done \in Seq(Name)
          /\ base \o Append(done, m) = Append(base \o done, m)
      OBVIOUS
    <3> QED
      BY <1>1, <1>4, <2>1, <3>1, <3>2, <3>3, <3>4
  <2>4. ASSUME i \in Near(Edges) PROVE Comes(Edges, base \o more, i)
    <3>1. d \in Near(Edges)
      <4>1. TreeLike(Edges)
        BY EdgesTree DEF Linked
      <4> QED
        BY <1>1, <1>2, <2>4, <4>1, NearFrom
    <3>2. Comes(Edges, base \o done, d)
      BY <2>1, <2>2, <3>1 DEF Where
    <3> QED
      BY <1>1, <1>2, <2>3, <3>2, ComesOn
  <2>5. Where(base \o more, i)'
    <3>1. Edges' = Edges
      BY <1>3 DEF Edges
    <3> QED
      BY <2>4, <3>1, WherePrime
  <2>6. Base(s, b)' = base
    BY <1>3, <1>4, <2>2 DEF Base
  <2> HIDE DEF more
  <2>7. Where(Base(s, b) \o more, b.at)'
    BY <1>4, <2>5, <2>6 DEF Where
  <2> QED
    BY <1>4, <2>3, <2>7 DEF Along
<1> QED
  BY <1>3, <1>4, <1>5, <1>6, <1>7 DEF OnWay, Knows

\* The sessions in A act, the others stay.
LEMMA AllAgree ==
  ASSUME Shape, Shape', Agree, Ages, age'[Root] = 0, NEW A \in SUBSET Session,
         \A r \in Session \ A : call'[r] = call[r] /\ cdir'[r] = cdir[r] /\ curdir'[r] = curdir[r],
         \A r \in Session : call[r].pc # "out" => Keeps(cdir[r]),
         \A x \in Ino : kind[x] # "free" => Keeps(x),
         \A s \in A : Sits(s)' /\ OnWay(s)'
  PROVE  Agree'
<1>1. ASSUME NEW r \in Session \ A PROVE Sits(r)' /\ OnWay(r)'
  <2>1. Sits(r) /\ OnWay(r) /\ call[r].at \in Ino
    BY DEF Agree, Shape, CallSet
  <2> QED
    BY <2>1, OtherStays
<1>2. \A r \in Session : Sits(r)' /\ OnWay(r)'
  BY <1>1
<1> QED
  BY <1>2 DEF Agree

LEMMA OneAgrees ==
  ASSUME Shape, Shape', Agree, Ages, age'[Root] = 0, NEW s \in Session,
         \A r \in Session \ {s} : call'[r] = call[r] /\ cdir'[r] = cdir[r] /\ curdir'[r] = curdir[r],
         \A r \in Session : call[r].pc # "out" => Keeps(cdir[r]),
         \A x \in Ino : kind[x] # "free" => Keeps(x),
         Sits(s)', OnWay(s)'
  PROVE  Agree'
<1>1. PICK A \in SUBSET Session : A = {s}
  OBVIOUS
<1>2. \A r \in A : Sits(r)' /\ OnWay(r)'
  BY <1>1
<1>3. \A r \in Session \ A : call'[r] = call[r] /\ cdir'[r] = cdir[r] /\ curdir'[r] = curdir[r]
  BY <1>1
<1> QED
  BY <1>2, <1>3, AllAgree

LEMMA PassAgrees ==
  ASSUME Shape, Shape', Tidy, Tidy', Linked, Agree, NEW s \in Session, NEW c \in CallSet,
         call[s].pc \in {"idle", "walk"}, Knows(s, c), age[c.at] = c.age,
         Missing(s, c) \/ Refused(s, c) \/ Descend(s, c) \/ Victim(s, c) \/ NewName(s, c)
  PROVE  Agree'
<1>1. UNCHANGED <<kind, entry, cdir, curdir, age>>
  BY DEF Missing, Refused, Descend, Victim, NewName, treeVars
<1>2. Ages /\ \A x \in Ino : Keeps(x)
  BY <1>1, SameKeepsAll
<1>3. cdir[s] \in Ino /\ \A r \in Session : cdir[r] \in Ino
  BY DEF Shape
<1>4. Sits(s)'
  BY <1>1, <1>2, <1>3, SitsStill DEF Agree
<1>5. CASE Missing(s, c) \/ Refused(s, c)
  <2>1. Finish(s, c)
    BY <1>5 DEF Missing, Refused
  <2>2. Bare' /\ age'[Root] = 0 /\ (c.cmd = "login" => curdir'[s] = <<>>)
    BY <1>1 DEF Tidy, Agree, Knows
  <2>3. OnWay(s)'
    BY <2>1, <2>2, FinishOnWay
  <2>4. \A r \in Session \ {s} : call'[r] = call[r]
    BY <2>1, FinishIs DEF Shape
  <2> QED
    BY <1>1, <1>2, <1>3, <1>4, <2>2, <2>3, <2>4, OneAgrees
<1>6. CASE Descend(s, c)
  <2>1. OnWay(s)'
    BY <1>6, DescendOnWay
  <2>2. \A r \in Session \ {s} : call'[r] = call[r]
    BY <1>6, DescendIs
  <2> QED
    BY <1>1, <1>2, <1>3, <1>4, <2>1, <2>2, OneAgrees DEF Agree
<1>7. CASE Victim(s, c)
  <2>1. PICK new : call' = [call EXCEPT ![s] = new] /\ new.pc = "unlink" /\ new.cmd = "rm"
    <3> DEFINE k == Lowest(Find(c.at, Head(c.rest)))
               m == [NoCall EXCEPT !.pc = "unlink", !.cmd = "rm", !.at = c.at, !.slot = k,
                                   !.rest = c.rest, !.ino = entry[c.at][k].ino]
    <3>1. call' = [call EXCEPT ![s] = m]
      BY <1>7 DEF Victim
    <3>2. m.pc = "unlink" /\ m.cmd = "rm"
      BY DEF NoCall
    <3> HIDE DEF m
    <3> QED
      BY <3>1, <3>2
  <2>2. call'[s].pc = "unlink" /\ call'[s].cmd = "rm" /\ \A r \in Session \ {s} : call'[r] = call[r]
    BY <2>1 DEF Shape
  <2>3. OnWay(s)'
    BY <2>2 DEF OnWay
  <2> QED
    BY <1>1, <1>2, <1>3, <1>4, <2>2, <2>3, OneAgrees DEF Agree
<1>8. CASE NewName(s, c)
  <2>1. call'[s].pc = "make" /\ call'[s].cmd = c.cmd /\ \A r \in Session \ {s} : call'[r] = call[r]
    BY <1>8, NewNameCall
  <2>2. OnWay(s)'
    BY <1>1, <2>1 DEF OnWay, Knows
  <2> QED
    BY <1>1, <1>2, <1>3, <1>4, <2>1, <2>2, OneAgrees DEF Agree
<1> QED
  BY <1>5, <1>6, <1>7, <1>8

\* The end of a creation, with or without an inode.
LEMMA MakesAgrees ==
  ASSUME Shape, Shape', Tidy, Tidy', Linked, Agree, NEW s \in Session, Make(s) \/ NoInode(s)
  PROVE  Agree'
<1>1. UNCHANGED <<cdir, curdir>> /\ Finish(s, call[s]) /\ call[s].pc = "make"
  BY DEF Make, NoInode
<1>2. /\ Ages /\ age'[Root] = age[Root]
      /\ \A r \in Session : call[r].pc # "out" => Keeps(cdir[r])
      /\ \A x \in Ino : kind[x] # "free" => Keeps(x)
  <2>1. CASE Make(s)
    <3>1. PICK i \in Ino : kind[i] = "free" /\ Refs(i) = 0 /\ \A x \in Ino \ {i} : Keeps(x)
      BY <2>1, MakeKeeps
    <3>2. Ages /\ age'[Root] = age[Root]
      BY <2>1, MakeKeeps
    <3>3. ~ Bound(i)
      BY <3>1, RefsCount
    <3>4. \A r \in Session : cdir[r] \in Ino /\ (call[r].pc # "out" => cdir[r] # i)
      BY <3>3 DEF Bound, UserOf, Shape
    <3> QED
      BY <3>1, <3>2, <3>4
  <2>2. CASE NoInode(s)
    <3>1. UNCHANGED <<kind, entry, age>>
      BY <2>2 DEF NoInode, treeVars
    <3>2. Ages /\ \A x \in Ino : Keeps(x)
      BY <3>1, SameKeepsAll
    <3>3. \A r \in Session : cdir[r] \in Ino
      BY DEF Shape
    <3> QED
      BY <3>1, <3>2, <3>3
  <2> QED
    BY <2>1, <2>2
<1>3. Bare' /\ age'[Root] = 0 /\ (call[s].cmd = "login" => curdir'[s] = <<>>)
  BY <1>1, <1>2 DEF Tidy, Agree, OnWay
<1>4. OnWay(s)'
  BY <1>1, <1>3, FinishOnWay
<1>5. \A r \in Session \ {s} : call'[r] = call[r]
  BY <1>1, FinishIs DEF Shape
<1>6. Sits(s)'
  BY <1>1, <1>2, SitsStill DEF Agree
<1> QED
  BY <1>1, <1>2, <1>3, <1>4, <1>5, <1>6, OneAgrees

LEMMA TouchAgrees ==
  ASSUME Shape, Shape', Tidy, Tidy', Linked, Agree, NEW s \in Session, NEW c \in CallSet,
         call[s].pc \in {"idle", "walk"}, Knows(s, c), TouchThere(s, c)
  PROVE  Agree'
<1>1. UNCHANGED <<cdir, curdir, age>> /\ Finish(s, c)
  BY DEF TouchThere
<1>2. Bare' /\ age'[Root] = 0 /\ (c.cmd = "login" => curdir'[s] = <<>>)
  BY <1>1 DEF Tidy, Agree, Knows
<1>3. OnWay(s)'
  BY <1>1, <1>2, FinishOnWay
<1>4. \A r \in Session \ {s} : call'[r] = call[r]
  BY <1>1, FinishIs DEF Shape
<1>5. Ages /\ \A x \in Ino : Keeps(x)
  <2>1. UNCHANGED entry /\ \A x \in Ino : kind'[x] = "free" => kind[x] = "free"
    BY DEF TouchThere, Shape, Kinds
  <2> QED
    BY <1>1, <2>1, SameKeepsAll
<1>6. \A r \in Session : cdir[r] \in Ino
  BY DEF Shape
<1>7. Sits(s)'
  BY <1>1, <1>5, <1>6, SitsStill DEF Agree
<1> QED
  BY <1>1, <1>2, <1>3, <1>4, <1>5, <1>6, <1>7, OneAgrees

\* cd: the directory that the walk has come to is where the path leads.
LEMMA EnterAgrees ==
  ASSUME Shape, Shape', Tidy, Tidy', Linked, Agree, NEW s \in Session, NEW c \in CallSet,
         Knows(s, c), age[c.at] = c.age, Enter(s, c)
  PROVE  Agree'
<1>1. PICK S : S = IF c.at # cdir[s] /\ Goes(cdir[s], 1, nlink) THEN {cdir[s]} ELSE {}
  OBVIOUS
<1>2. S \in SUBSET Ino /\ Tree(S, kind, entry, nlink) /\ Root \notin S
  BY <1>1 DEF Enter, Shape, Goes
<1>3. Ages /\ age'[Root] = age[Root] /\ \A x \in Ino : Keeps(x)
  <2>1. Unique
    BY DEF Linked
  <2> QED
    BY <1>2, <2>1, TreeKeepsAll
<1>4. Finish(s, c) /\ SetCurDir(s, c.path) /\ cdir' = [cdir EXCEPT ![s] = c.at] /\ c.at \in Ino
      /\ c.cmd \in {"cd", "home"} /\ c.rest = <<>>
  BY CallParts DEF Enter
<1>5. Bare' /\ age'[Root] = 0 /\ c.cmd # "login"
  BY <1>3, <1>4 DEF Tidy, Agree
<1>6. OnWay(s)'
  BY <1>4, <1>5, FinishOnWay
<1>7. \A r \in Session \ {s} : call'[r] = call[r] /\ cdir'[r] = cdir[r] /\ curdir'[r] = curdir[r]
  BY <1>4, FinishIs DEF Shape, SetCurDir
<1>8. PICK done \in Seq(Name) : c.path.names = done \o <<>> /\ Where(Base(s, c) \o done, c.at)
  BY <1>4 DEF Knows, Along
<1>9. done = c.path.names
  BY <1>8
<1>10. curdir'[s] = Base(s, c) \o done
  <2>1. c.path.abs => <<>> \o done = done
    OBVIOUS
  <2> QED
    BY <1>4, <1>9, <2>1 DEF SetCurDir, Base, Shape
<1>11. curdir'[s] \in Seq(Name) /\ cdir'[s] = c.at
  BY <1>4 DEF Shape
<1>12. Sits(s)'
  <2>1. PICK p \in Seq(Name) : p = curdir'[s]
    BY <1>11
  <2>2. Where(p, c.at)'
    BY <1>3, <1>4, <1>8, <1>10, <2>1, KeepsWhere
  <2> QED
    BY <1>11, <2>1, <2>2 DEF Sits, Where
<1>13. \A r \in Session : cdir[r] \in Ino
  BY DEF Shape
<1> QED
  BY <1>3, <1>5, <1>6, <1>7, <1>12, <1>13, OneAgrees

LEMMA FurtherAgrees ==
  ASSUME Shape, Shape', Tidy, Tidy', ~ raced', ~ astray', Agree, NEW s \in Session,
         Command(s) \/ Walk(s)
  PROVE  Agree'
<1>1. PICK c \in CallSet :
        /\ Further(s, c)
        /\ \/ call[s].pc = "walk" /\ c = call[s]
           \/ call[s].pc = "idle" /\ Begins(s, c)
  BY CommandFurther
<1>2. age[c.at] = c.age
  BY <1>1 DEF Further
<1>3. Linked
  <2>1. ~ raced
    BY <1>1 DEF Further, Missing, Descend, NewName, Victim, Enter, TouchThere, Refused
  <2> QED
    BY <2>1 DEF Tidy
<1>4. Knows(s, c)
  <2>1. CASE call[s].pc = "walk" /\ c = call[s]
    BY <2>1 DEF Agree, OnWay, Knows
  <2>2. CASE call[s].pc = "idle" /\ Begins(s, c)
    <3>1. PICK names \in Seq(Name) : names = c.path.names
      BY CallParts
    <3>2. <<>> \in Seq(Name) /\ names = <<>> \o names
      OBVIOUS
    <3>3. CASE c.path.abs
      <4>1. Base(s, c) \o <<>> = <<>> /\ c.at = Root
        BY <2>2, <3>3 DEF Base, Begins
      <4>2. Where(<<>>, Root)
        BY ComesNone DEF Where
      <4> QED
        BY <2>2, <3>1, <3>2, <4>1, <4>2 DEF Knows, Along, Begins
    <3>4. CASE ~ c.path.abs
      <4>1. PICK base \in Seq(Name) : base = curdir[s]
        BY DEF Shape
      <4>2. base \o <<>> = base /\ Base(s, c) = base /\ c.at = cdir[s]
        BY <2>2, <3>4, <4>1 DEF Base, Begins
      <4>3. Where(base, cdir[s])
        BY <2>2, <4>1 DEF Agree, Sits
      <4> QED
        BY <2>2, <3>1, <3>2, <4>2, <4>3 DEF Knows, Along, Begins
    <3> QED
      BY <3>3, <3>4
  <2> QED
    BY <1>1, <2>1, <2>2
<1>5. call[s].pc \in {"idle", "walk"}
  BY <1>1
<1> QED
  BY <1>1, <1>2, <1>3, <1>4, <1>5, PassAgrees, TouchAgrees, EnterAgrees DEF Further

\* UnLink takes a name away.
LEMMA UnLinkAgrees ==
  ASSUME Shape, Shape', Tidy, Tidy', Linked, Agree, NEW s \in Session, UnLink(s)
  PROVE  Agree'
<1>1. PICK d \in Ino, v \in Ino, k \in Nat : d = call[s].at /\ v = call[s].ino /\ k = call[s].slot
  BY DEF Shape, CallSet
<1>2. PICK links : links = [nlink EXCEPT ![v] = @ - 1]
  OBVIOUS
<1>3. PICK e : e = [entry EXCEPT ![d][k] = FreeEntry]
  OBVIOUS
<1>4. PICK S : S = {x \in {d, v} : Goes(x, IF x = d THEN 1 ELSE 0, links)}
  OBVIOUS
<1>5. /\ call[s].pc = "unlink" /\ Tree(S, kind, e, links) /\ UNCHANGED <<cdir, curdir>> /\ Finish(s, call[s])
      /\ S \in SUBSET Ino /\ Root \notin S
  BY <1>1, <1>2, <1>3, <1>4 DEF UnLink, Goes
<1>6. ASSUME NEW x \in Ino, NEW l \in DOMAIN e[x], e[x][l].ino # Root
      PROVE  l \in DOMAIN entry[x] /\ e[x][l] = entry[x][l]
  <2>1. CASE x # d
    BY <1>3, <1>6, <2>1 DEF Shape, Entries
  <2>2. CASE x = d
    <3>1. PICK g : g = entry[d]
      OBVIOUS
    <3>2. g \in Seq(Dirent) /\ e[d] = [g EXCEPT ![k] = FreeEntry]
      BY <1>3, <3>1, EntriesAre DEF Shape, Entries
    <3>3. FreeEntry.ino = Root
      BY DEF FreeEntry
    <3> HIDE DEF Dirent
    <3> QED
      BY <1>6, <2>2, <3>1, <3>2, <3>3
  <2> QED
    BY <2>1, <2>2
<1>7. Ages /\ age'[Root] = age[Root] /\ \A x \in Ino : Keeps(x)
  <2>1. Unique
    BY DEF Linked
  <2> QED
    BY <1>5, <1>6, <2>1, TreeKeepsAll
<1>8. Bare' /\ age'[Root] = 0 /\ call[s].cmd = "rm"
  BY <1>5, <1>7 DEF Tidy, Agree, OnWay
<1>9. OnWay(s)'
  BY <1>5, <1>8, FinishOnWay
<1>10. \A r \in Session \ {s} : call'[r] = call[r]
  BY <1>5, FinishIs DEF Shape
<1>11. \A r \in Session : cdir[r] \in Ino
  BY DEF Shape
<1>12. Sits(s)'
  BY <1>5, <1>7, <1>11, SitsStill DEF Agree
<1> QED
  BY <1>5, <1>7, <1>8, <1>9, <1>10, <1>11, <1>12, OneAgrees

LEMMA CloseAgrees ==
  ASSUME Shape, Shape', Tidy, Tidy', Linked, Agree, NEW f \in Ino, Close(f)
  PROVE  Agree'
<1>1. PICK S : S = IF Goes(f, 1, nlink) THEN {f} ELSE {}
  OBVIOUS
<1>2. S \in SUBSET Ino /\ Root \notin S /\ Tree(S, kind, entry, nlink) /\ UNCHANGED <<call, cdir, curdir>>
  BY <1>1 DEF Close, Goes
<1>3. Ages /\ age'[Root] = 0 /\ \A x \in Ino : Keeps(x)
  <2>1. Unique /\ age[Root] = 0
    BY DEF Linked, Agree
  <2> QED
    BY <1>2, <2>1, TreeKeepsAll
<1>4. \A r \in Session : cdir[r] \in Ino
  BY DEF Shape
<1>5. PICK A \in SUBSET Session : A = {}
  OBVIOUS
<1> QED
  BY <1>2, <1>3, <1>4, <1>5, AllAgree

\* A session comes to the root, and leaves from where it is.
LEMMA LoginAgrees ==
  ASSUME Shape, Shape', Tidy, Agree, NEW s \in Session, Login(s) \/ Exit(s)
  PROVE  Agree'
<1>1. /\ UNCHANGED <<kind, entry, age>>
      /\ cdir' = [cdir EXCEPT ![s] = Root] /\ curdir' = [curdir EXCEPT ![s] = <<>>]
      /\ \A r \in Session \ {s} : call'[r] = call[r]
  BY DEF Login, Exit, treeVars, Shape
<1>2. Ages /\ \A x \in Ino : Keeps(x)
  BY <1>1, SameKeepsAll
<1>3. cdir'[s] = Root /\ curdir'[s] = <<>>
      /\ \A r \in Session \ {s} : cdir'[r] = cdir[r] /\ curdir'[r] = curdir[r]
  BY <1>1 DEF Shape
<1>4. Sits(s)'
  <2>1. Where(<<>>, Root)'
    BY ComesNone, WherePrime
  <2> QED
    BY <1>3, <2>1 DEF Sits, Where
<1>5. OnWay(s)'
  <2> DEFINE c == [NoCall EXCEPT !.pc = "walk", !.cmd = "login", !.rest = <<Home[s]>>]
             o == [NoCall EXCEPT !.pc = "out"]
  <2>1. o.pc = "out" /\ c.pc = "walk" /\ c.cmd = "login" /\ c.at = Root /\ c.age = 0
    BY DEF NoCall
  <2>2. call' = [call EXCEPT ![s] = c] \/ call' = [call EXCEPT ![s] = o]
    BY DEF Login, Exit
  <2> HIDE DEF c, o
  <2>3. call'[s] = c \/ call'[s] = o
    BY <2>2 DEF Shape
  <2>4. CASE call'[s] = o
    BY <2>1, <2>4 DEF OnWay
  <2>5. CASE call'[s] = c
    <3>1. Fresh(c)'
      BY <1>1, <2>1, InoAre DEF Fresh, Tidy, Bare, Agree
    <3>2. Along(s, c)'
      BY <2>1 DEF Along
    <3> QED
      BY <1>3, <2>1, <2>5, <3>1, <3>2 DEF OnWay
  <2> QED
    BY <2>3, <2>4, <2>5
<1>6. \A r \in Session : cdir[r] \in Ino
  BY DEF Shape
<1>7. age'[Root] = 0
  BY <1>1 DEF Agree
<1> QED
  BY <1>1, <1>2, <1>3, <1>4, <1>5, <1>6, <1>7, OneAgrees

Follows == raced \/ astray \/ Agree

LEMMA FollowsStep ==
  ASSUME Shape, Shape', Tidy, Tidy', Follows, [Next]_vars
  PROVE  Follows'
<1> SUFFICES ASSUME ~ raced', ~ astray' PROVE Agree'
  BY DEF Follows
<1>1. CASE UNCHANGED vars
  <2>1. UNCHANGED <<kind, entry, call, cdir, curdir, age, raced, astray>>
    BY <1>1 DEF vars
  <2>2. Agree
    BY <2>1 DEF Follows
  <2>3. Ages /\ \A x \in Ino : Keeps(x)
    BY <2>1, SameKeepsAll
  <2>4. PICK A \in SUBSET Session : A = {}
    OBVIOUS
  <2>5. age'[Root] = 0 /\ \A r \in Session : cdir[r] \in Ino
    BY <2>1, <2>2 DEF Agree, Shape
  <2> QED
    BY <2>1, <2>2, <2>3, <2>4, <2>5, AllAgree
<1>2. ASSUME NEW s \in Session, Command(s) \/ Walk(s) PROVE Agree'
  <2>1. PICK c \in CallSet : Further(s, c)
    BY <1>2, CommandFurther
  <2>2. ~ raced /\ ~ astray
    <3>1. ~ astray
      BY <2>1 DEF Further
    <3>2. ~ raced
      BY <2>1 DEF Further, Missing, Descend, NewName, Victim, Enter, TouchThere, Refused
    <3> QED
      BY <3>1, <3>2
  <2> QED
    BY <1>2, <2>2, FurtherAgrees DEF Follows
<1>3. ASSUME NEW s \in Session, UnLink(s) PROVE Agree'
  <2>1. ~ raced /\ ~ astray
    BY <1>3 DEF UnLink
  <2> QED
    BY <1>3, <2>1, UnLinkAgrees DEF Follows, Tidy
<1>6. ASSUME NEW s \in Session, Make(s) \/ NoInode(s) PROVE Agree'
  <2>1. ~ raced /\ ~ astray
    BY <1>6 DEF Make, NoInode
  <2> QED
    BY <1>6, <2>1, MakesAgrees DEF Follows, Tidy
<1>4. ASSUME NEW s \in Session, Login(s) \/ Exit(s) PROVE Agree'
  <2>1. ~ raced /\ ~ astray
    BY <1>4 DEF Login, Exit
  <2> QED
    BY <1>4, <2>1, LoginAgrees DEF Follows
<1>5. ASSUME NEW f \in Ino, Close(f) PROVE Agree'
  <2>1. ~ raced /\ ~ astray
    BY <1>5 DEF Close
  <2> QED
    BY <1>5, <2>1, CloseAgrees DEF Follows, Tidy
<1> QED
  BY <1>1, <1>2, <1>3, <1>4, <1>5, <1>6 DEF Next

LEMMA FollowsInit == Init => Follows
<1> SUFFICES ASSUME Init PROVE Agree
  BY DEF Follows
<1>1. age[Root] = 0
  BY InoAre DEF Init
<1>2. \A s \in Session : call[s].pc = "out"
  BY DEF Init, NoCall
<1> QED
  BY <1>1, <1>2 DEF Agree, Sits, OnWay

-----------------------------------------------------------------------------
\* The theorems.

LEMMA TidyInit == Init => Shape /\ Tidy /\ calls \in 0 .. MaxCalls
<1> SUFFICES ASSUME Init PROVE Shape /\ Tidy /\ calls \in 0 .. MaxCalls
  OBVIOUS
<1>1. PICK b \in Boot : kind = b.kind /\ entry = b.entry
  BY DEF Init
<1>2. /\ kind \in Kinds /\ entry \in Entries /\ Bare
      /\ \A d, e \in Ino : \A k \in DOMAIN entry[d], l \in DOMAIN entry[e] :
           entry[d][k].ino # Root /\ entry[e][l].ino # Root =>
             /\ kind[entry[d][k].ino] # "free"
             /\ entry[d][k].ino = entry[e][l].ino \/ (d = e /\ entry[d][k].name = entry[e][l].name)
                  => d = e /\ k = l
  <2>1. Root = 0
    BY DEF Root
  <2> QED
    BY <1>1, <2>1, BootAssumption DEF Bare
<1>3. NamesOnce /\ Unique
  BY <1>2 DEF NamesOnce, Unique
<1>4. Backed
  <2>1. \A i \in Ino : i # Root => nlink[i] = 1
    BY DEF Init
  <2>2. \A d \in Ino : \A k \in DOMAIN entry[d] : entry[d][k].ino \in Ino
    BY <1>2, EntriesAre
  <2> QED
    BY <1>2, <2>1, <2>2 DEF Backed
<1>5. Removals = {} /\ Creations = {}
  BY DEF Init, Removals, Creations, NoCall
<1>6. Tidy
  BY <1>2, <1>3, <1>4, <1>5 DEF Tidy, Linked, Apart, Opened
<1>7. call \in [Session -> CallSet]
  <2> DEFINE o == [NoCall EXCEPT !.pc = "out"]
  <2>1. o \in CallSet
    <3>1. <<>> \in Seq(Name)
      OBVIOUS
    <3> QED
      BY <3>1, InoAre DEF NoCall, CallSet
  <2>2. call = [s \in Session |-> o]
    BY DEF Init
  <2> HIDE DEF o
  <2> QED
    BY <2>1, <2>2
<1>8. curdir \in [Session -> Seq(Name)] /\ cdir \in [Session -> Ino]
  <2>1. <<>> \in Seq(Name)
    OBVIOUS
  <2> QED
    BY <2>1, InoAre DEF Init
<1>9. Shape
  <2>1. nlink \in [Ino -> Int] /\ held \in [Ino -> Nat]
    BY DEF Init
  <2>2. pinned = held /\ age = held /\ astray = FALSE /\ raced = FALSE
    BY DEF Init
  <2> QED
    BY <1>2, <1>7, <1>8, <2>1, <2>2 DEF Shape
<1> QED
  BY <1>6, <1>9, DirectoryAssumption DEF Init

LEMMA TidyStep ==
  ASSUME Shape, Tidy, calls \in 0 .. MaxCalls, [Next]_vars
  PROVE  Shape' /\ Tidy' /\ (calls \in 0 .. MaxCalls)'
<1>1. (calls \in 0 .. MaxCalls)'
  <2>1. ASSUME NEW s \in Session, Command(s) \/ Login(s) PROVE (calls \in 0 .. MaxCalls)'
    <3>1. Ask(s)
      BY <2>1 DEF Command, Login
    <3>2. MaxCalls \in Nat
      BY DirectoryAssumption
    <3> QED
      BY <3>1, <3>2 DEF Ask
  <2>2. ASSUME NEW s \in Session, Walk(s) \/ Make(s) \/ NoInode(s) \/ UnLink(s) \/ Exit(s)
        PROVE  UNCHANGED calls
    BY <2>2 DEF Walk, Make, NoInode, UnLink, Exit
  <2>3. ASSUME NEW i \in Ino, Close(i) PROVE UNCHANGED calls
    BY <2>3 DEF Close
  <2> QED
    BY <2>1, <2>2, <2>3 DEF Next, vars
<1>2. CASE UNCHANGED vars
  <2>1. Shape'
    BY <1>2 DEF vars, Shape
  <2>2. SameWriters
    BY <1>2 DEF vars, SameWriters, Writers
  <2> QED
    BY <1>1, <1>2, <2>1, <2>2, StillTidy DEF vars
<1> QED
  BY <1>1, <1>2, CommandTidy, MakeTidy, NoInodeTidy, UnLinkTidy, LoginTidy, CloseTidy DEF Next

\* Until two removals have overlapped on an entry or two creations in a directory, no
\* directory has a name twice, and an inode that has a name is in use and has no other:
\* for any number of sessions, in any tree, whatever locks are given away
\* (FileManager.cpp:348, 566, 766).
THEOREM NamesInvHolds == Spec => []NamesInv
<1> DEFINE IInv == Shape /\ Tidy /\ calls \in 0 .. MaxCalls
<1>1. Init => IInv
  BY TidyInit
<1>2. IInv /\ [Next]_vars => IInv'
  BY TidyStep
<1>3. IInv => NamesInv
  <2> SUFFICES ASSUME IInv PROVE NamesDiffer /\ NamesOneInode
    BY ShapeIsType DEF NamesInv
  <2>1. NamesDiffer
    <3> SUFFICES ASSUME ~ raced, NEW x \in Names, NEW y \in Names, x[1] = y[1],
                        entry[x[1]][x[2]].name = entry[y[1]][y[2]].name
                 PROVE  x = y
      BY DEF NamesDiffer
    <3>1. x[2] = y[2]
      BY NameIs DEF Tidy, Linked, NamesOnce
    <3> QED
      BY <3>1, NameIs
  <2>2. NamesOneInode
    <3> SUFFICES ASSUME ~ raced, NEW x \in Names
                 PROVE  /\ kind[entry[x[1]][x[2]].ino] # "free"
                        /\ \A y \in Names : entry[x[1]][x[2]].ino = entry[y[1]][y[2]].ino => x = y
      BY DEF NamesOneInode
    <3>1. kind[entry[x[1]][x[2]].ino] # "free"
      BY NameIs DEF Tidy, Linked, Backed
    <3>2. ASSUME NEW y \in Names, entry[x[1]][x[2]].ino = entry[y[1]][y[2]].ino PROVE x = y
      <4>1. x[1] = y[1] /\ x[2] = y[2]
        BY <3>2, NameIs DEF Tidy, Linked, Unique
      <4> QED
        BY <4>1, NameIs
    <3> QED
      BY <3>1, <3>2
  <2> QED
    BY <2>1, <2>2
<1> QED
  BY <1>1, <1>2, <1>3, PTL DEF Spec

\* UnLink clears the entry that it has found before it unlocked the directory
\* (FileManager.cpp:781), until two removals have overlapped on one or two creations in a
\* directory.
THEOREM ClearsWhatItFoundHolds == Spec => []ClearsWhatItFound
<1> DEFINE IInv == Shape /\ Tidy /\ calls \in 0 .. MaxCalls
<1>1. Init => IInv
  BY TidyInit
<1>2. IInv /\ [Next]_vars => IInv'
  BY TidyStep
<1>3. IInv => ClearsWhatItFound
  BY DEF Tidy, Linked, Removals, Pending, ClearsWhatItFound
<1> QED
  BY <1>1, <1>2, <1>3, PTL DEF Spec

\* An inode in use gets lost with the directory that names it or is to name it, after
\* touch has revived it, or where WriteDir fails on a full disk, and in no other way, in
\* any tree with any number of sessions, unless removals or creations overlap or a walk
\* uses a freed inode's number (FileManager.cpp:611, 766, INode.cpp:506).
THEOREM OrphansFromDirectoriesHolds == Spec => OrphansFromDirectories
<1> DEFINE IInv == Shape /\ Tidy /\ calls \in 0 .. MaxCalls
           Loses == \A i \in Orphans' \ Orphans :
                      \/ raced' \/ astray'
                      \/ \E x \in Names : entry[x[1]][x[2]].ino = i /\ age'[x[1]] # age[x[1]]
                      \/ Revived(i) \/ Unnamed(i)
<1>1. Init => IInv
  BY TidyInit
<1>2. IInv /\ [Next]_vars => IInv'
  BY TidyStep
<1>3. (Shape => Orphans = Lost)'
  BY OrphansAre, PTL
<1>4. IInv /\ [Next]_vars => [Loses]_vars
  <2> SUFFICES ASSUME IInv, [Next]_vars PROVE Loses
    OBVIOUS
  <2>1. Orphans = Lost /\ Orphans' = Lost'
    BY <1>2, <1>3, OrphansAre
  <2> SUFFICES ASSUME NEW i \in Lost', i \notin Lost
               PROVE  \/ raced' \/ astray'
                      \/ \E x \in Names : entry[x[1]][x[2]].ino = i /\ age'[x[1]] # age[x[1]]
                      \/ Revived(i) \/ Unnamed(i)
    BY <2>1
  <2>2. i \in Ino \ {Root}
    BY DEF Lost
  <2>3. Explained(i)
    BY StepLoses
  <2>4. ASSUME NEW d \in Ino, NEW k \in DOMAIN entry[d], entry[d][k].ino = i, age'[d] # age[d]
        PROVE  \E x \in Names : entry[x[1]][x[2]].ino = i /\ age'[x[1]] # age[x[1]]
    <3>1. <<d, k>> \in Names
      BY <2>2, <2>4, NameOf
    <3> QED
      BY <2>4, <3>1
  <2>5. ~ Named(i) => \A x \in Names : entry[x[1]][x[2]].ino # i
    BY <2>2, NamedIs
  <2> QED
    BY <2>3, <2>4, <2>5 DEF Explained, Revived
<1> QED
  BY <1>1, <1>2, <1>4, PTL DEF Spec, OrphansFromDirectories

\* u_cdir and u_curdir are the same directory for every session, as long as u_cdir can be
\* reached from the root (ChDir and SetCurDir, FileManager.cpp:615), unless removals or
\* creations overlap or a walk uses a freed inode's number: for any number of sessions, in any tree.
THEOREM CurDirAgreesHolds == Spec => []CurDirAgrees
<1> DEFINE IInv == Shape /\ Tidy /\ calls \in 0 .. MaxCalls /\ Follows
<1>1. Init => IInv
  BY TidyInit, FollowsInit
<1>2. IInv /\ [Next]_vars => IInv'
  BY TidyStep, FollowsStep
<1>3. IInv => CurDirAgrees
  <2> SUFFICES ASSUME Shape, Tidy, ~ raced, Agree, NEW s \in Session, call[s].pc # "out", cdir[s] \in Reachable
               PROVE  Leads(curdir[s]) = cdir[s]
    BY DEF Follows, CurDirAgrees
  <2>1. entry \in Entries /\ NamesOnce /\ curdir[s] \in Seq(Name) /\ cdir[s] \in Ino
    BY DEF Shape, Tidy, Linked
  <2>2. cdir[s] \in Near(Edges)
    BY <2>1, ReachableIs
  <2>3. Comes(Edges, curdir[s], cdir[s])
    BY <2>2 DEF Agree, Sits, Where
  <2> QED
    BY <2>1, <2>3, LeadsThere
<1> QED
  BY <1>1, <1>2, <1>3, PTL DEF Spec

================================================================================
