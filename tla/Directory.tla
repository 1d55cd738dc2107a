------------------------------- MODULE Directory -------------------------------
(***************************************************************************)
(* Names and paths (server/FileManager.cpp): NameI, MakNode, WriteDir,     *)
(* UnLink, MkNod, Creat, ChDir, SetCurDir, and Login's use of them.  NameI *)
(* holds one directory at a time: it lets it go before it gets the inode   *)
(* whose number it has found there, and that is where a step ends here.    *)
(* A creation is cut between its search and WriteDir, a removal where      *)
(* UnLink unlocks the directory.  NameI locks a directory that it is to    *)
(* create in, but the lock keeps nobody out: ls unlocks its u_cdir         *)
(* (main.cpp:211), and IPut unlocks whoever holds the inode                *)
(* (OpenFileManager.cpp:239), which UnLink, ChDir and Close call without   *)
(* the lock.  So no step here waits for a lock: everything that is claimed *)
(* holds although locks are given away at any time.  A search is one step: *)
(* it holds the buffer of the directory's block (directories of one block).*)
(*                                                                         *)
(* A path is whether it starts with '/', and its components, cut to DIRSIZ *)
(* characters.  The user is root (u_uid 0), so no permission is missing.   *)
(***************************************************************************)
EXTENDS Integers, Sequences, FiniteSets

CONSTANTS
  Session,
  Name,
  Ino,                 \* inodes; 0 is the root directory
  Home,                \* name of each session's user
  Path,                \* paths that users type
  Boot,                \* trees in the image: kind and entry of the inodes
  MaxCalls             \* bound on the commands of all sessions

ASSUME DirectoryAssumption ==
  /\ Ino \subseteq Nat /\ 0 \in Ino
  /\ Home \in [Session -> Name]
  /\ Path \subseteq [abs : BOOLEAN, names : Seq(Name)]
  /\ IsFiniteSet(Session) /\ MaxCalls \in Nat

VARIABLES
  kind,                \* from i_mode: a file, a directory, or free
  nlink,               \* i_nlink
  entry,               \* entries of the directories; m_ino is 0 where one is free
  held,                \* references to an inode by File structures
  pinned,              \* references of u_cdir's of sessions that have ended
  cdir,                \* u_cdir
  curdir,              \* u_curdir
  call,                \* what each session does
  age,                 \* how often each inode has been freed
  astray,              \* a walk has used the number of an inode freed meanwhile
  raced,               \* two removals have found the same entry, or a creation has begun
                       \* in a directory where another one had not written its entry yet
  calls                \* commands so far

treeVars == <<kind, nlink, entry>>

vars == <<kind, nlink, entry, held, pinned, cdir, curdir, call, age, astray, raced, calls>>

Root == 0

FreeEntry == [name |-> "", ino |-> Root]

NoCall == [pc |-> "idle", cmd |-> "cd", at |-> Root, age |-> 0, rest |-> <<>>,
           path |-> [abs |-> TRUE, names |-> <<>>], slot |-> 0, ino |-> Root]

Kinds == [Ino -> {"free", "file", "dir"}]

Entries == [Ino -> Seq([name : Name, ino : Ino \ {Root}] \cup {FreeEntry})]

\* The images have trees: nothing but a directory has entries, an inode in use has
\* one name at most, and a directory has no name twice.
ASSUME BootAssumption ==
  \A b \in Boot :
    /\ b.kind \in Kinds /\ b.entry \in Entries
    /\ b.kind[0] = "dir" /\ \A d \in Ino : b.kind[d] # "dir" => b.entry[d] = <<>>
    /\ \A d, e \in Ino : \A k \in DOMAIN b.entry[d], l \in DOMAIN b.entry[e] :
         LET x == b.entry[d][k]
             y == b.entry[e][l]
         IN  x.ino # Root /\ y.ino # Root =>
               /\ b.kind[x.ino] # "free"
               /\ x.ino = y.ino \/ (d = e /\ x.name = y.name) => d = e /\ k = l

TypeOK ==
  /\ kind \in Kinds
  /\ nlink \in [Ino -> Int]
  /\ entry \in Entries
  /\ held \in [Ino -> Nat] /\ pinned \in [Ino -> Nat]
  /\ cdir \in [Session -> Ino] /\ curdir \in [Session -> Seq(Name)]
  /\ call \in [Session -> [pc : {"out", "idle", "walk", "make", "unlink"},
                           cmd : {"mkdir", "touch", "rm", "cd", "login", "home"},
                           at : Ino, age : Nat, rest : Seq(Name),
                           path : [abs : BOOLEAN, names : Seq(Name)],
                           slot : Nat, ino : Ino]]
  /\ age \in [Ino -> Nat]
  /\ astray \in BOOLEAN /\ raced \in BOOLEAN
  /\ calls \in 0 .. MaxCalls

Init ==
  /\ \E b \in Boot : kind = b.kind /\ entry = b.entry
  /\ nlink = [i \in Ino |-> IF i = Root THEN 0 ELSE 1]
  /\ held = [i \in Ino |-> 0] /\ pinned = held /\ age = held
  /\ cdir = [s \in Session |-> Root] /\ curdir = [s \in Session |-> <<>>]
  /\ call = [s \in Session |-> [NoCall EXCEPT !.pc = "out"]]
  /\ astray = FALSE /\ raced = FALSE /\ calls = 0
-----------------------------------------------------------------------------
Lowest(S) == CHOOSE x \in S : \A y \in S : x <= y

\* i_count, but for references that end with the step that takes them.
Refs(i) ==
  held[i] + pinned[i] + Cardinality({s \in Session : call[s].pc # "out" /\ cdir[s] = i})
  + Cardinality({s \in Session : call[s].pc \in {"make", "unlink"} /\ call[s].at = i})

\* Mutant: the last entry is not looked at.
FindShort(d, n) ==
  {k \in 1 .. Len(entry[d]) - 1 : entry[d][k].ino # Root /\ entry[d][k].name = n}

Find(d, n) == {k \in DOMAIN entry[d] : entry[d][k].ino # Root /\ entry[d][k].name = n}

\* ITrunc and IFree of the inodes in S: contents gone, i_mode 0, i_nlink 1.
Tree(S, k, e, links) ==
  /\ kind' = [i \in Ino |-> IF i \in S THEN "free" ELSE k[i]]
  /\ entry' = [i \in Ino |-> IF i \in S THEN <<>> ELSE e[i]]
  /\ nlink' = [i \in Ino |-> IF i \in S THEN 1 ELSE links[i]]
  /\ age' = [i \in Ino |-> IF i \in S THEN age[i] + 1 ELSE age[i]]

\* Mutant: an inode without links is kept.
GoesLate(i, n, links) == i # Root /\ Refs(i) = n /\ links[i] < 0

\* IPut of one of n references: the last one frees an inode without a name.
Goes(i, n, links) == i # Root /\ Refs(i) = n /\ links[i] <= 0

\* Login goes on from mkdir to cd; everything else is over.
Finish(s, c) ==
  call' = [call EXCEPT ![s] =
             IF c.cmd = "login"
               THEN [NoCall EXCEPT !.pc = "walk", !.cmd = "home", !.rest = <<Home[s]>>,
                                   !.path = [abs |-> FALSE, names |-> <<Home[s]>>]]
               ELSE NoCall]

\* Mutant: an absolute path does not replace u_curdir.
SetCurDirAppends(s, p) == curdir' = [curdir EXCEPT ![s] = @ \o p.names]

SetCurDir(s, p) ==
  curdir' = [curdir EXCEPT ![s] = IF p.abs THEN p.names ELSE @ \o p.names]
-----------------------------------------------------------------------------
(* NameI, one directory further.  c is the session's call; c.at the inode it *)
(* has just got, of which c.rest is still to be looked up.                   *)

Creates(c) == c.cmd \in {"mkdir", "touch", "login"}

\* Not a directory, or no such entry and nothing to be created.
Missing(s, c) ==
  /\ c.rest # <<>>
  /\ kind[c.at] = "dir" =>
       Find(c.at, Head(c.rest)) = {} /\ ~(Creates(c) /\ Len(c.rest) = 1)
  /\ Finish(s, c)
  /\ UNCHANGED <<treeVars, held, pinned, cdir, curdir, age, raced>>

\* The directory is let go, and the inode it names is got in the next step.
Descend(s, c) ==
  /\ c.rest # <<>> /\ kind[c.at] = "dir"
  /\ ~(c.cmd = "rm" /\ Len(c.rest) = 1)
  /\ Find(c.at, Head(c.rest)) # {}
  /\ LET i == entry[c.at][Lowest(Find(c.at, Head(c.rest)))].ino
     IN  call' = [call EXCEPT ![s] =
                    [c EXCEPT !.pc = "walk", !.at = i, !.age = age[i], !.rest = Tail(c.rest)]]
  /\ UNCHANGED <<treeVars, held, pinned, cdir, curdir, age, raced>>

\* Mutant: the offset of the free entry is that of the one behind it.
SlotBehind(d) ==
  LET free == {k \in DOMAIN entry[d] : entry[d][k].ino = Root}
  IN  IF free = {} THEN Len(entry[d]) + 1 ELSE Lowest(free) + 1

\* Where WriteDir will write: the first free entry, or the end of the directory.
Slot(d) ==
  LET free == {k \in DOMAIN entry[d] : entry[d][k].ino = Root}
  IN  IF free = {} THEN Len(entry[d]) + 1 ELSE Lowest(free)

\* The name is new: u_pdir and m_Offset are set for MakNode.
NewName(s, c) ==
  /\ Creates(c) /\ Len(c.rest) = 1 /\ kind[c.at] = "dir"
  /\ Find(c.at, Head(c.rest)) = {}
  /\ call' = [call EXCEPT ![s] = [c EXCEPT !.pc = "make", !.slot = Slot(c.at)]]
  /\ raced' = (raced \/ \E r \in Session : call[r].pc = "make" /\ call[r].at = c.at)
  /\ UNCHANGED <<treeVars, held, pinned, cdir, curdir, age>>

\* UnLink has its entry, unlocks the directory and keeps a reference to it.
Victim(s, c) ==
  /\ c.cmd = "rm" /\ Len(c.rest) = 1 /\ kind[c.at] = "dir"
  /\ Find(c.at, Head(c.rest)) # {}
  /\ LET k == Lowest(Find(c.at, Head(c.rest))) IN
     /\ call' = [call EXCEPT ![s] =
                   [NoCall EXCEPT !.pc = "unlink", !.cmd = "rm", !.at = c.at, !.slot = k,
                                  !.rest = c.rest, !.ino = entry[c.at][k].ino]]
     /\ raced' = (raced \/ \E r \in Session : call[r].pc = "unlink" /\ call[r].at = c.at
                                                 /\ call[r].slot = k)
  /\ UNCHANGED <<treeVars, held, pinned, cdir, curdir, age>>

\* ChDir: the old directory is given back.  (The new one may be the old one.)
Enter(s, c) ==
  /\ c.rest = <<>> /\ c.cmd \in {"cd", "home"} /\ kind[c.at] = "dir"
  /\ cdir' = [cdir EXCEPT ![s] = c.at]
  /\ SetCurDir(s, c.path)
  /\ Tree(IF c.at # cdir[s] /\ Goes(cdir[s], 1, nlink) THEN {cdir[s]} ELSE {}, kind, entry, nlink)
  /\ Finish(s, c)
  /\ UNCHANGED <<held, pinned, raced>>

\* Creat of a name that is there: Open1 empties the file (ITrunc sets i_nlink)
\* and leaves a descriptor; then i_mode gets the bits of the call.
TouchThere(s, c) ==
  /\ c.rest = <<>> /\ c.cmd = "touch" /\ kind[c.at] # "dir"
  /\ kind' = [kind EXCEPT ![c.at] = "file"]
  /\ nlink' = [nlink EXCEPT ![c.at] = 1]
  /\ held' = [held EXCEPT ![c.at] = @ + 1]
  /\ Finish(s, c)
  /\ UNCHANGED <<entry, pinned, cdir, curdir, age, raced>>

\* mkdir of a name that is there, cd to a file, touch of a directory, rm of /.
Refused(s, c) ==
  /\ c.rest = <<>>
  /\ \/ c.cmd \in {"mkdir", "login", "rm"}
     \/ c.cmd \in {"cd", "home"} /\ kind[c.at] # "dir"
     \/ c.cmd = "touch" /\ kind[c.at] = "dir"
  /\ Finish(s, c)
  /\ UNCHANGED <<treeVars, held, pinned, cdir, curdir, age, raced>>

Further(s, c) ==
  /\ astray' = (astray \/ age[c.at] # c.age)
  /\ \/ Missing(s, c) \/ Descend(s, c) \/ NewName(s, c) \/ Victim(s, c)
     \/ Enter(s, c) \/ TouchThere(s, c) \/ Refused(s, c)
-----------------------------------------------------------------------------
Ask(s) == calls < MaxCalls /\ calls' = calls + 1

Command(s) ==
  /\ call[s].pc = "idle" /\ Ask(s)
  /\ \E cmd \in {"mkdir", "touch", "rm", "cd"}, p \in Path :
       LET start == IF p.abs THEN Root ELSE cdir[s]
       IN  Further(s, [NoCall EXCEPT !.pc = "walk", !.cmd = cmd, !.at = start,
                                     !.age = age[start], !.rest = p.names, !.path = p])

Walk(s) == call[s].pc = "walk" /\ Further(s, call[s]) /\ UNCHANGED calls

\* WriteDir's WriteI: the slot is written, whatever has come there.
Written(d, k, e) ==
  IF k > Len(entry[d]) THEN Append(entry[d], e) ELSE [entry[d] EXCEPT ![k] = e]

\* IAlloc, MakNode and WriteDir, whose IPut of u_pdir may be the last; touch keeps a
\* descriptor of the file.  On a full disk WriteI cannot make the directory longer:
\* MakNode goes on without the name, and Open1 gives up for u_error.
Make(s) ==
  LET c == call[s]
      d == c.at
  IN
  /\ c.pc = "make"
  /\ \E i \in Ino, full \in BOOLEAN :
       /\ kind[i] = "free" /\ Refs(i) = 0
       /\ full => c.slot > Len(entry[d])
       /\ Tree(IF Goes(d, 1, nlink) THEN {d} ELSE {},
               [kind EXCEPT ![i] = IF c.cmd = "touch" THEN "file" ELSE "dir"],
               IF full THEN entry
               ELSE [entry EXCEPT ![d] = Written(d, c.slot, [name |-> Head(c.rest), ino |-> i])],
               [nlink EXCEPT ![i] = 1])
       /\ held' = [held EXCEPT ![i] = IF c.cmd = "touch" /\ ~ full THEN 1 ELSE 0]
  /\ Finish(s, c)
  /\ UNCHANGED <<pinned, cdir, curdir, astray, raced, calls>>

\* IAlloc finds no free inode: MakNode returns, and nobody gives u_pdir back.
NoInode(s) ==
  /\ call[s].pc = "make"
  /\ \A i \in Ino : kind[i] # "free" \/ Refs(i) # 0
  /\ pinned' = [pinned EXCEPT ![call[s].at] = @ + 1]
  /\ Finish(s, call[s])
  /\ UNCHANGED <<treeVars, held, cdir, curdir, age, astray, raced, calls>>

\* The rest of UnLink: it writes the entry where it has been, and takes a link
\* from the inode that has the number now.
UnLink(s) ==
  LET d == call[s].at
      v == call[s].ino
      links == [nlink EXCEPT ![v] = @ - 1]
  IN
  /\ call[s].pc = "unlink"
  /\ Tree({i \in {d, v} : Goes(i, IF i = d THEN 1 ELSE 0, links)},
          kind, [entry EXCEPT ![d][call[s].slot] = FreeEntry], links)
  /\ Finish(s, call[s])
  /\ UNCHANGED <<held, pinned, cdir, curdir, astray, raced, calls>>

\* A descriptor that touch has left is closed.
Close(i) ==
  /\ held[i] > 0
  /\ held' = [held EXCEPT ![i] = @ - 1]
  /\ Tree(IF Goes(i, 1, nlink) THEN {i} ELSE {}, kind, entry, nlink)
  /\ UNCHANGED <<pinned, cdir, curdir, call, astray, raced, calls>>

\* Login starts at the root, makes the home directory and goes there.
Login(s) ==
  /\ call[s].pc = "out" /\ Ask(s)
  /\ cdir' = [cdir EXCEPT ![s] = Root] /\ curdir' = [curdir EXCEPT ![s] = <<>>]
  /\ call' = [call EXCEPT ![s] = [NoCall EXCEPT !.pc = "walk", !.cmd = "login", !.rest = <<Home[s]>>]]
  /\ UNCHANGED <<treeVars, held, pinned, age, astray, raced>>

\* Logout does not give u_cdir back.
Exit(s) ==
  /\ call[s].pc = "idle"
  /\ pinned' = [pinned EXCEPT ![cdir[s]] = @ + 1]
  /\ cdir' = [cdir EXCEPT ![s] = Root] /\ curdir' = [curdir EXCEPT ![s] = <<>>]
  /\ call' = [call EXCEPT ![s] = [NoCall EXCEPT !.pc = "out"]]
  /\ UNCHANGED <<treeVars, held, age, astray, raced, calls>>

Next ==
  \/ \E s \in Session :
       Command(s) \/ Walk(s) \/ Make(s) \/ NoInode(s) \/ UnLink(s) \/ Login(s) \/ Exit(s)
  \/ \E i \in Ino : Close(i)

Spec == Init /\ [][Next]_vars
-----------------------------------------------------------------------------
(* Properties *)

\* Which inode each entry names.
Names == UNION {{<<d, k>> : k \in {l \in DOMAIN entry[d] : entry[d][l].ino # Root}} : d \in Ino}

\* NameI with CREATE and WriteDir: no directory has a name twice, unless a creation
\* has begun in it while another one was under way.
NamesDiffer ==
  raced \/
  \A x, y \in Names : x[1] = y[1] /\ entry[x[1]][x[2]].name = entry[y[1]][y[2]].name => x = y

\* An entry names an inode that is in use, and no other entry does: MakNode's and
\* UnLink's steps keep entries and inodes together, with the same exceptions
\* and that of two removals at one entry.
NamesOneInode ==
  raced \/
  \A x \in Names :
    /\ kind[entry[x[1]][x[2]].ino] # "free"
    /\ \A y \in Names : entry[x[1]][x[2]].ino = entry[y[1]][y[2]].ino => x = y

\* The tree of directories: names and inodes correspond one to one.
NamesInv == TypeOK /\ NamesDiffer /\ NamesOneInode

\* UnLink writes the directory that it has unlocked (FileManager.cpp:781): what it
\* clears is still the entry that it has found, unless another removal of the
\* same entry has overlapped, or a creation has written where another one had.
ClearsWhatItFound ==
  \A s \in Session :
    call[s].pc = "unlink" /\ ~raced =>
      entry[call[s].at][call[s].slot] = [name |-> Head(call[s].rest), ino |-> call[s].ino]

Orphans == {i \in Ino \ {Root} : kind[i] # "free" /\ Refs(i) = 0
                                  /\ \A x \in Names : entry[x[1]][x[2]].ino # i}

\* Which has a link and no name: touch has found it before it was removed, and ITrunc
\* has set i_nlink to 1 afterwards (INode.cpp:506); or the directory that its name was
\* written to has been freed.
Revived(i) == nlink[i] > 0 /\ \A x \in Names : entry[x[1]][x[2]].ino # i

\* A new inode whose name WriteDir could not write on a full disk (its failure is
\* ignored, FileManager.cpp:611), or wrote to a directory that went with u_pdir.
Unnamed(i) ==
  /\ kind[i] = "free"
  /\ \E s \in Session :
       /\ call[s].pc = "make" /\ call'[s] # call[s]
       /\ \/ call[s].slot > Len(entry[call[s].at])
          \/ age'[call[s].at] # age[call[s].at]

\* An inode in use that nothing names or refers to is lost for good.  That happens
\* to what is in a directory that is removed (FileManager.cpp:766 does not ask that
\* it is empty), to a file that touch has revived, to an inode that MakNode leaves
\* without its name, and to nothing else.
OrphansFromDirectories ==
  [][\A i \in Orphans' \ Orphans :
       \/ raced' \/ astray'
       \/ \E x \in Names : entry[x[1]][x[2]].ino = i /\ age'[x[1]] # age[x[1]]
       \/ Revived(i) \/ Unnamed(i)]_vars

\* Where NameI comes from the root along names; -1 where it finds nothing.
Leads(names) ==
  LET at[n \in 0 .. Len(names)] ==
        IF n = 0 THEN Root
        ELSE LET d == at[n - 1]
             IN  IF d = -1 \/ Find(d, names[n]) = {} THEN -1
                 ELSE entry[d][Lowest(Find(d, names[n]))].ino
  IN  at[Len(names)]

\* What some path leads to: the least set with the root that entries do not leave.
Reachable ==
  {i \in Ino : \A S \in SUBSET Ino :
     Root \in S /\ (\A x \in Names : x[1] \in S => entry[x[1]][x[2]].ino \in S) => i \in S}

\* ls lists what u_curdir leads to, the other calls start at u_cdir: the two are
\* the same directory (ChDir, SetCurDir), as long as u_cdir has not been cut off by
\* the removal of it or of a directory above it.
CurDirAgrees ==
  raced \/ astray \/
  \A s \in Session :
    call[s].pc # "out" /\ cdir[s] \in Reachable => Leads(curdir[s]) = cdir[s]

=============================================================================
