------------------------------- MODULE InodeTable -------------------------------
(***************************************************************************)
(* server/OpenFileManager.cpp's InodeTable and the free-inode list of      *)
(* server/FileSystem.cpp, driven by the file calls of the sessions:        *)
(* NameI's walk, open, creat, mkdir, rm, cd, read/write, close, and        *)
(* UpdateInodeTable.  A step ends where another thread may come between:   *)
(* before and after an operation on an inode's mutex, between the search   *)
(* of the table and the use of what it found, between the parts of IPut.   *)
(*                                                                         *)
(* Of an inode's contents only what decides its fate is kept: "free" is    *)
(* i_mode 0, "linked" and "unlinked" are i_nlink > 0 and <= 0.  Read and   *)
(* written through the buffer cache, the inode zone is what it was last    *)
(* written to be (BlockStore).                                             *)
(*                                                                         *)
(* All that is claimed is claimed of one session, but for ExclusiveIO,     *)
(* which two refute: for several, the loads and decrements that these      *)
(* steps contain would have to be steps of their own.                      *)
(***************************************************************************)
EXTENDS Integers, Sequences, FiniteSets, SequencesExt

CONSTANTS
  Thread,
  NoOne,               \* the owner of a free mutex; also: no entry
  NINODE,              \* in-memory inodes: 100
  Ino,                 \* inodes of the disk; 0 is the root
  Dir,                 \* those that are directories
  NLISTED,             \* entries of s_inode: 100
  Slot,                \* places for an entry in a directory
  BootLists,           \* lists a superblock in the image may have
  BootDir,             \* the directories in the image
  MaxOpen,             \* bound on the open files of a session
  MaxLeft              \* bound on left, for each entry

ASSUME InodeAssumption ==
  /\ IsFiniteSet(Thread) /\ NoOne \notin Thread \cup Nat
  /\ NINODE \in Nat \ {0}
  /\ IsFiniteSet(Ino) /\ Ino \subseteq Nat /\ 0 \in Dir /\ Dir \subseteq Ino
  /\ NLISTED \in Nat \ {0}
  /\ BootLists \subseteq Seq(Ino)
  /\ Slot # {} /\ Slot \subseteq Nat
  /\ BootDir \in [Dir -> [Slot -> Ino]]
  /\ MaxOpen \in Nat /\ MaxLeft \in Nat

\* The image is one that a format or an exit has left: an inode has one name, and
\* the list names, once each, inodes that have none.
ASSUME BootAssumption ==
  /\ \A d, e \in Dir : \A r, s \in Slot :
       BootDir[d][r] # 0 /\ BootDir[d][r] = BootDir[e][s] => d = e /\ r = s
  /\ \A l \in BootLists :
       /\ Len(l) <= NLISTED
       /\ \A i, j \in DOMAIN l : l[i] = l[j] => i = j
       /\ \A i \in DOMAIN l, d \in Dir, s \in Slot : l[i] # 0 => BootDir[d][s] # l[i]

VARIABLES
  number, count,       \* i_number (-1: none) and i_count of an entry
  node,                \* its i_mode and i_nlink
  upd,                 \* its IUPD or IACC
  ilock,               \* its ILOCK
  mutex,               \* the owner of its mutex
  dinode,              \* the inode zone
  sInode,              \* s_inode[0 .. s_ninode - 1]
  dir,                 \* the entries of the directories, 0 where there is none
  nameless,            \* the inodes whose entry the full disk has kept out (history)
  pc,                  \* what each thread does next
  goal,                \* what for it has called IGet
  then,                \* where it goes on after IPut
  want,                \* the argument of IGet
  ent, kept,           \* the entry it works on, and one it has set aside
  slot,                \* the place of the entry it creates or removes
  open,                \* its open files
  cdir,                \* its u_cdir
  left,                \* references nobody will give back
  wrecked              \* the server has died, or s_inode was left at the bottom

tableVars == <<number, count, node, upd, ilock, mutex>>

diskVars == <<dinode, sInode, dir, nameless>>

ctlVars == <<pc, goal, then, want, ent, kept, slot>>

userVars == <<open, cdir, left>>

vars == <<tableVars, diskVars, ctlVars, userVars, wrecked>>

Entry == 0 .. NINODE - 1

State == {"free", "linked", "unlinked"}

Pc == {"idle", "get", "wait", "find", "name", "fill", "held", "pop", "scan",
       "writedir", "put", "last", "release", "clear", "dec",
       "chdir", "iolock", "io", "update", "sync"}

\* What NameI calls its first IGet for: it starts at '/', or at u_cdir.
Begins == {"root", "cwd"}

TypeOK ==
  /\ number \in [Entry -> Ino \cup {-1}]
  /\ count \in [Entry -> Nat]
  /\ node \in [Entry -> State]
  /\ upd \in [Entry -> BOOLEAN] /\ ilock \in [Entry -> BOOLEAN]
  /\ mutex \in [Entry -> Thread \cup {NoOne}]
  /\ dinode \in [Ino -> State]
  /\ sInode \in Seq(Ino)
  /\ dir \in [Dir -> [Slot -> Ino]] /\ nameless \subseteq Ino
  /\ pc \in [Thread -> Pc]
  /\ goal \in [Thread -> Begins \cup {"search", "file", "alloc", "victim"}]
  /\ then \in [Thread -> {"idle", "get", "pop", "file", "put", "chdir"}]
  /\ want \in [Thread -> Ino]
  /\ ent \in [Thread -> 0 .. NINODE]
  /\ kept \in [Thread -> Entry \cup {NoOne}]
  /\ slot \in [Thread -> Slot]
  /\ open \in [Thread -> [Entry -> 0 .. MaxOpen]]
  /\ cdir \in [Thread -> Entry]
  /\ left \in [Entry -> Nat]
  /\ wrecked \in BOOLEAN

\* The sum of a function's values
SumOf(f) == Cardinality(UNION {{i} \X (1 .. f[i]) : i \in DOMAIN f})

Lowest(S) == CHOOSE x \in S : \A y \in S : x <= y

\* Kernel::Initialize has the root in entry 0 for good (rootDirInode), and every
\* session's u_cdir is the root.  init_disk leaves d_nlink of the root 0.
Init ==
  /\ number = [x \in Entry |-> IF x = 0 THEN 0 ELSE -1]
  /\ count = [x \in Entry |-> IF x = 0 THEN 1 + Cardinality(Thread) ELSE 0]
  /\ node = [x \in Entry |-> IF x = 0 THEN "unlinked" ELSE "free"]
  /\ upd = [x \in Entry |-> FALSE] /\ ilock = [x \in Entry |-> FALSE]
  /\ mutex = [x \in Entry |-> NoOne]
  /\ dir = BootDir
  /\ dinode = [n \in Ino |->
                 IF n = 0 THEN "unlinked"
                 ELSE IF \E d \in Dir, s \in Slot : dir[d][s] = n THEN "linked"
                 ELSE "free"]
  /\ sInode \in BootLists /\ nameless = {}
  /\ pc = [t \in Thread |-> "idle"]
  /\ goal = [t \in Thread |-> "file"] /\ then = [t \in Thread |-> "idle"]
  /\ want = [t \in Thread |-> 0]
  /\ ent = [t \in Thread |-> 0] /\ kept = [t \in Thread |-> NoOne]
  /\ slot = [t \in Thread |-> Lowest(Slot)]
  /\ open = [t \in Thread |-> [x \in Entry |-> 0]]
  /\ cdir = [t \in Thread |-> 0]
  /\ left = [x \in Entry |-> 0]
  /\ wrecked = FALSE
-----------------------------------------------------------------------------
Go(t, p) == pc' = [pc EXCEPT ![t] = p]

Goto(t, from, to) == pc[t] = from /\ Go(t, to)

\* The call is over, and its locals with it.
Done(t) ==
  /\ Go(t, "idle")
  /\ goal' = [goal EXCEPT ![t] = "file"] /\ then' = [then EXCEPT ![t] = "idle"]
  /\ want' = [want EXCEPT ![t] = 0]
  /\ ent' = [ent EXCEPT ![t] = 0] /\ kept' = [kept EXCEPT ![t] = NoOne]
  /\ slot' = [slot EXCEPT ![t] = Lowest(Slot)]

Take(t, n, what) ==
  /\ want' = [want EXCEPT ![t] = n]
  /\ goal' = [goal EXCEPT ![t] = what]

\* pthread_mutex_lock, with the ILOCK that follows it
Lock(t, x) ==
  /\ mutex[x] = NoOne
  /\ mutex' = [mutex EXCEPT ![x] = t]
  /\ ilock' = [ilock EXCEPT ![x] = TRUE]

\* Mutant: only ILOCK goes.
NFreleForgets(x) ==
  ilock' = [ilock EXCEPT ![x] = FALSE] /\ UNCHANGED mutex

\* pthread_mutex_unlock asks nobody who owns the mutex.
NFrele(x) ==
  /\ ilock' = [ilock EXCEPT ![x] = FALSE]
  /\ mutex' = [mutex EXCEPT ![x] = NoOne]

\* The caller goes to IPut(x), and on to next after it.
IPut(t, x, next) ==
  /\ Go(t, "put")
  /\ ent' = [ent EXCEPT ![t] = x]
  /\ then' = [then EXCEPT ![t] = next]

\* Mutant: nothing is written.
IUpdateNothing(x) == UNCHANGED dinode

IUpdate(x) ==
  dinode' = IF upd[x] /\ number[x] \in Ino
              THEN [dinode EXCEPT ![number[x]] = node[x]] ELSE dinode

\* IsLoaded finds the first of these, GetFreeInode the first of those.
Loaded(n) == {x \in Entry : number[x] = n /\ count[x] # 0}

FreeEntries == {x \in Entry : count[x] = 0}

\* A creation without an inode returns: u_pdir stays locked and referred to.
LeaveDirectory(t) == left' = [left EXCEPT ![kept[t]] = @ + 1]

-----------------------------------------------------------------------------
(***************************************************************************)
(* IGet.                                                                   *)
(***************************************************************************)
GetLoaded(t) ==
  /\ Goto(t, "get", "wait")
  /\ Loaded(want[t]) # {}
  /\ ent' = [ent EXCEPT ![t] = Lowest(Loaded(want[t]))]
  /\ UNCHANGED <<tableVars, diskVars, goal, then, want, kept, slot, userVars, wrecked>>

\* NameI's pInode at its start
Begin(t) == IF goal[t] = "root" THEN 0 ELSE cdir[t]

\* What the caller of IGet goes on with: NameI, at its start, does not look at what
\* IGet has returned.
Return(t) ==
  /\ ent' = [ent EXCEPT ![t] = IF goal[t] \in Begins THEN Begin(t) ELSE @]
  /\ goal' = [goal EXCEPT ![t] = IF @ \in Begins THEN "search" ELSE @]

\* Nothing is looked at again after the wait.
GetLock(t) ==
  /\ Goto(t, "wait", "held")
  /\ Lock(t, ent[t])
  /\ count' = [count EXCEPT ![ent[t]] = @ + 1]
  /\ Return(t)
  /\ UNCHANGED <<number, node, upd, diskVars, then, want, kept, slot, userVars,
                 wrecked>>

GetUnloaded(t) ==
  /\ Goto(t, "get", "find")
  /\ Loaded(want[t]) = {}
  /\ UNCHANGED <<tableVars, diskVars, goal, then, want, ent, kept, slot, userVars,
                 wrecked>>

\* GetFreeInode; nothing tells another thread that the entry is taken ...
GetFree(t) ==
  /\ Goto(t, "find", "name")
  /\ FreeEntries # {}
  /\ ent' = [ent EXCEPT ![t] = Lowest(FreeEntries)]
  /\ UNCHANGED <<tableVars, diskVars, goal, then, want, kept, slot, userVars, wrecked>>

GetName(t) ==
  /\ Goto(t, "name", "fill")
  /\ number' = [number EXCEPT ![ent[t]] = want[t]]
  /\ ilock' = [ilock EXCEPT ![ent[t]] = TRUE]
  /\ upd' = [upd EXCEPT ![ent[t]] = FALSE]
  /\ UNCHANGED <<count, node, mutex, diskVars, goal, then, want, ent, kept, slot,
                 userVars, wrecked>>

\* ... until NFlock, i_count++, Bread and ICopy.
GetFill(t) ==
  /\ Goto(t, "fill", "held")
  /\ Lock(t, ent[t])
  /\ count' = [count EXCEPT ![ent[t]] = @ + 1]
  /\ node' = [node EXCEPT ![ent[t]] = dinode[want[t]]]
  /\ Return(t)
  /\ UNCHANGED <<number, upd, diskVars, then, want, kept, slot, userVars, wrecked>>

TableFull(t) == pc[t] = "find" /\ FreeEntries = {}

\* NameI and IAlloc hand the NULL on; but at its start NameI finds u_error only, and
\* gives its pInode back.
GetNone(t) ==
  /\ TableFull(t)
  /\ goal[t] # "victim"
  /\ IF goal[t] \in Begins
       THEN IPut(t, Begin(t), "idle") /\ UNCHANGED <<goal, want, kept, slot, left>>
       ELSE /\ Done(t)
            /\ IF goal[t] = "alloc" THEN LeaveDirectory(t) ELSE UNCHANGED left
  /\ UNCHANGED <<tableVars, diskVars, open, cdir, wrecked>>

\* UnLink follows it.
GetNoVictim(t) ==
  /\ TableFull(t)
  /\ goal[t] = "victim"
  /\ wrecked' = TRUE
  /\ UNCHANGED <<tableVars, diskVars, ctlVars, userVars>>

-----------------------------------------------------------------------------
(***************************************************************************)
(* IPut.  CloseF, and UnLink for the directory, call it without the lock.  *)
(***************************************************************************)
Listed(n) == Len(sInode) < NLISTED /\ n \in Ino

\* ITrunc, i_mode = 0
Freed == "free"

PutLast(t) ==
  /\ Goto(t, "put", "last")
  /\ count[ent[t]] = 1
  /\ ilock' = [ilock EXCEPT ![ent[t]] = TRUE]
  /\ IF node[ent[t]] = "unlinked"
       THEN /\ node' = [node EXCEPT ![ent[t]] = Freed]
            /\ upd' = [upd EXCEPT ![ent[t]] = TRUE]
            /\ sInode' = IF Listed(number[ent[t]])
                           THEN Append(sInode, number[ent[t]]) ELSE sInode
       ELSE UNCHANGED <<node, upd, sInode>>
  /\ UNCHANGED <<number, count, mutex, dinode, dir, nameless, goal, then, want, ent,
                 kept, slot, userVars, wrecked>>

PutWrite(t) ==
  /\ Goto(t, "last", "release")
  /\ IUpdate(ent[t])
  /\ UNCHANGED <<tableVars, sInode, dir, nameless, goal, then, want, ent, kept, slot,
                 userVars, wrecked>>

PutRelease(t) ==
  /\ Goto(t, "release", "clear")
  /\ NFrele(ent[t])
  /\ UNCHANGED <<number, count, node, upd, diskVars, goal, then, want, ent, kept,
                 slot, userVars, wrecked>>

\* Mutant: i_number stays.
PutClearKeepsNumber(t) ==
  /\ Goto(t, "clear", "dec")
  /\ ilock' = [ilock EXCEPT ![ent[t]] = FALSE]
  /\ upd' = [upd EXCEPT ![ent[t]] = FALSE]
  /\ UNCHANGED <<number, count, node, mutex, diskVars, goal, then, want, ent, kept,
                 slot, userVars, wrecked>>

PutClear(t) ==
  /\ Goto(t, "clear", "dec")
  /\ ilock' = [ilock EXCEPT ![ent[t]] = FALSE]
  /\ upd' = [upd EXCEPT ![ent[t]] = FALSE]
  /\ number' = [number EXCEPT ![ent[t]] = -1]
  /\ UNCHANGED <<count, node, mutex, diskVars, goal, then, want, ent, kept, slot,
                 userVars, wrecked>>

PutShared(t) ==
  /\ Goto(t, "put", "dec")
  /\ count[ent[t]] # 1
  /\ UNCHANGED <<tableVars, diskVars, goal, then, want, ent, kept, slot,
                 userVars, wrecked>>

\* i_count--, NFrele, and back to the caller.
PutDec(t) ==
  /\ pc[t] = "dec"
  /\ count' = [count EXCEPT ![ent[t]] = @ - 1]
  /\ NFrele(ent[t])
  /\ \/ then[t] = "idle" /\ Done(t)
     \/ /\ then[t] \in {"get", "pop"}
        /\ Go(t, then[t])
        /\ UNCHANGED <<goal, then, want, ent, kept, slot>>
     \/ /\ then[t] \in {"file", "put", "chdir"}  \* with the entry set aside
        /\ Go(t, IF then[t] = "file" THEN "held" ELSE then[t])
        /\ goal' = [goal EXCEPT ![t] = IF then[t] = "file" THEN "file" ELSE @]
        /\ then' = [then EXCEPT ![t] = "idle"]
        /\ ent' = [ent EXCEPT ![t] = kept[t]]
        /\ kept' = [kept EXCEPT ![t] = NoOne]
        /\ UNCHANGED <<want, slot>>
  /\ UNCHANGED <<number, node, upd, diskVars, userVars, wrecked>>

-----------------------------------------------------------------------------
(***************************************************************************)
(* The calls of a session.  NameI starts at the root or at u_cdir, with    *)
(* IGet of the directory; a session whose u_cdir has lost its inode is not *)
(* followed further.                                                       *)
(***************************************************************************)
NameI(t) ==
  /\ Goto(t, "idle", "get")
  /\ \/ Take(t, number[0], "root")
     \/ Take(t, number[cdir[t]], "cwd")
  /\ want'[t] \in Ino
  /\ UNCHANGED <<tableVars, diskVars, then, ent, kept, slot, userVars, wrecked>>

Searching(t) == pc[t] = "held" /\ goal[t] = "search" /\ number[ent[t]] \in Dir

EntryOf(t, s) == dir[number[ent[t]]][s]

\* The next part of the path is found: IPut the directory, IGet what it names.
Walk(t) ==
  /\ Searching(t)
  /\ \E s \in Slot :
       /\ EntryOf(t, s) # 0
       /\ \/ Take(t, EntryOf(t, s), "file")
          \/ EntryOf(t, s) \in Dir /\ Take(t, EntryOf(t, s), "search")
  /\ IPut(t, ent[t], "get")
  /\ UNCHANGED <<tableVars, diskVars, kept, slot, userVars, wrecked>>

\* CREATE, and the name is not there: the directory stays locked as u_pdir.  It
\* gets IUPD unless a free entry will do.
NewName(t) ==
  LET room == {s \in Slot : EntryOf(t, s) = 0}
  IN  /\ Searching(t)
      /\ room # {}
      /\ left[ent[t]] < MaxLeft
      /\ slot' = [slot EXCEPT ![t] = Lowest(room)]
      /\ \E u \in BOOLEAN : upd' = [upd EXCEPT ![ent[t]] = @ \/ u]
      /\ kept' = [kept EXCEPT ![t] = ent[t]]
      /\ Go(t, IF sInode = <<>> THEN "scan" ELSE "pop")
      /\ UNCHANGED <<number, count, node, ilock, mutex, diskVars, goal, then, want,
                     ent, userVars, wrecked>>

\* DELETE, and the name is there: UnLink lets the directory go and gets the file.
\* (Removing directories is left out.)
Victim(t) ==
  /\ Searching(t)
  /\ \E s \in Slot :
       /\ EntryOf(t, s) \notin Dir \cup {0}
       /\ slot' = [slot EXCEPT ![t] = s]
       /\ Take(t, EntryOf(t, s), "victim")
  /\ kept' = [kept EXCEPT ![t] = ent[t]]
  /\ Go(t, "get")
  /\ NFrele(ent[t])
  /\ UNCHANGED <<number, count, node, upd, diskVars, then, ent, userVars, wrecked>>

UnLink(t) ==
  LET d == number[kept[t]]
  IN  /\ pc[t] = "held" /\ goal[t] = "victim"
      /\ dir' = IF d \in Dir THEN [dir EXCEPT ![d][slot[t]] = 0] ELSE dir
      /\ node' = [node EXCEPT ![ent[t]] = "unlinked"]
      /\ upd' = [upd EXCEPT ![ent[t]] = TRUE, ![kept[t]] = TRUE]
      /\ IPut(t, kept[t], "put")
      /\ kept' = [kept EXCEPT ![t] = ent[t]]
      /\ UNCHANGED <<number, count, ilock, mutex, dinode, sInode, nameless, goal, want,
                     slot, userVars, wrecked>>

\* ------------------------------------------------------------------- IAlloc
\* The inodes the scan of the inode zone collects: d_mode 0, not in memory.
FreeOnDisk == {n \in Ino : dinode[n] = "free" /\ Loaded(n) = {}}

\* The members of S, the least first
Ascending(S) ==
  [i \in 1 .. Cardinality(S) |-> CHOOSE x \in S : Cardinality({y \in S : y <= x}) = i]

\* The test for a full list comes after each entry.
Collected ==
  LET all == Ascending(FreeOnDisk)
      room == IF Len(sInode) < NLISTED THEN NLISTED - Len(sInode) ELSE 1
  IN  SubSeq(all, 1, IF Len(all) < room THEN Len(all) ELSE room)

IAllocScan(t) ==
  /\ Goto(t, "scan", "pop")
  /\ sInode' = sInode \o Collected
  /\ sInode' # <<>>
  /\ UNCHANGED <<tableVars, dinode, dir, nameless, goal, then, want, ent, kept, slot,
                 userVars, wrecked>>

\* No inode is left: the creation returns, u_pdir stays locked.
IAllocNone(t) ==
  /\ pc[t] = "scan" /\ Done(t)
  /\ sInode \o Collected = <<>>
  /\ LeaveDirectory(t)
  /\ UNCHANGED <<tableVars, diskVars, open, cdir, wrecked>>

\* Mutant: s_ninode stays as it is.
IAllocPopKeeps(t) ==
  /\ Goto(t, "pop", "get")
  /\ sInode # <<>>
  /\ Take(t, Last(sInode), "alloc")
  /\ UNCHANGED <<tableVars, diskVars, then, ent, kept, slot, userVars, wrecked>>

IAllocPop(t) ==
  /\ Goto(t, "pop", "get")
  /\ sInode # <<>>
  /\ Take(t, Last(sInode), "alloc")
  /\ sInode' = Front(sInode)
  /\ UNCHANGED <<tableVars, dinode, dir, nameless, then, ent, kept, slot, userVars,
                 wrecked>>

\* Back in the loop the list is not looked at: s_inode[-1] is s_ninode itself, -1
\* by then, and the inode of that number lies in front of a buffer.
IAllocBelow(t) ==
  /\ pc[t] = "pop"
  /\ sInode = <<>>
  /\ wrecked' = TRUE
  /\ UNCHANGED <<tableVars, diskVars, ctlVars, userVars>>

IAllocTaken(t) ==
  /\ pc[t] = "held" /\ goal[t] = "alloc"
  /\ node[ent[t]] # "free"
  /\ IPut(t, ent[t], "pop")
  /\ UNCHANGED <<tableVars, diskVars, goal, want, kept, slot, userVars, wrecked>>

\* Clean, and MakNode up to its IUpdate
MakNode(t) ==
  /\ Goto(t, "held", "writedir") /\ goal[t] = "alloc"
  /\ node[ent[t]] = "free"
  /\ node' = [node EXCEPT ![ent[t]] = "linked"]
  /\ upd' = [upd EXCEPT ![ent[t]] = TRUE]
  /\ dinode' = IF number[ent[t]] \in Ino
                 THEN [dinode EXCEPT ![number[ent[t]]] = "linked"] ELSE dinode
  /\ UNCHANGED <<number, count, ilock, mutex, sInode, dir, nameless, goal, then, want,
                 ent, kept, slot, userVars, wrecked>>

WriteDir(t) ==
  LET d == number[kept[t]]
  IN  /\ pc[t] = "writedir"
      /\ dir' = IF d \in Dir /\ number[ent[t]] \in Ino
                  THEN [dir EXCEPT ![d][slot[t]] = number[ent[t]]] ELSE dir
      /\ upd' = [upd EXCEPT ![kept[t]] = TRUE]
      /\ IPut(t, kept[t], "file")
      /\ kept' = [kept EXCEPT ![t] = ent[t]]
      /\ UNCHANGED <<number, count, node, ilock, mutex, dinode, sInode, nameless, goal,
                     want, slot, userVars, wrecked>>

\* The directory needs a block and Alloc has none: nobody looks at WriteI's result.
\* The caller finds u_error set, and lets the new inode go as well.  (How long a
\* directory is is left out: any entry may be the one that needs a block.)
WriteDirFull(t) ==
  /\ pc[t] = "writedir"
  /\ nameless' = nameless \cup ({number[ent[t]]} \cap Ino)
  /\ upd' = [upd EXCEPT ![kept[t]] = TRUE]
  /\ IPut(t, kept[t], "put")
  /\ kept' = [kept EXCEPT ![t] = ent[t]]
  /\ UNCHANGED <<number, count, node, ilock, mutex, dinode, sInode, dir, goal, want,
                 slot, userVars, wrecked>>

\* ---------------------------------------------------------- the file is found
Found(t) == pc[t] = "held" /\ goal[t] \in {"file", "search"}

\* creat of a file that exists truncates it, and ITrunc sets i_nlink to 1.
Truncated(t) ==
  /\ goal[t] = "file" /\ number[ent[t]] \notin Dir
  /\ node' = [node EXCEPT ![ent[t]] = "linked"]
  /\ upd' = [upd EXCEPT ![ent[t]] = TRUE]

Open1(t) ==
  /\ Found(t) /\ Done(t)
  /\ UNCHANGED <<node, upd>> \/ Truncated(t)
  /\ NFrele(ent[t])
  /\ SumOf(open[t]) < MaxOpen
  /\ open' = [open EXCEPT ![t][ent[t]] = @ + 1]
  /\ UNCHANGED <<number, count, diskVars, cdir, left, wrecked>>

\* No descriptor or File is left: IPut after the unlock.
Open1Fails(t) ==
  /\ Found(t)
  /\ UNCHANGED <<node, upd>> \/ Truncated(t)
  /\ NFrele(ent[t])
  /\ IPut(t, ent[t], "idle")
  /\ UNCHANGED <<number, count, diskVars, goal, want, kept, slot, userVars, wrecked>>

\* mkdir has its inode; or NameI, Open1, MkNod or ChDir finds an error.
GiveUp(t) ==
  /\ Found(t)
  /\ IPut(t, ent[t], "idle")
  /\ UNCHANGED <<tableVars, diskVars, goal, want, kept, slot, userVars, wrecked>>

\* IPut(u_cdir), u_cdir = pInode ...
ChDir(t) ==
  /\ Found(t) /\ number[ent[t]] \in Dir
  /\ IPut(t, cdir[t], "chdir")
  /\ kept' = [kept EXCEPT ![t] = ent[t]]
  /\ cdir' = [cdir EXCEPT ![t] = ent[t]]
  /\ UNCHANGED <<tableVars, diskVars, goal, want, slot, open, left, wrecked>>

\* ... and pInode->NFrele()
ChDirEnd(t) ==
  /\ pc[t] = "chdir" /\ Done(t)
  /\ NFrele(ent[t])
  /\ UNCHANGED <<number, count, node, upd, diskVars, userVars, wrecked>>

\* ------------------------------------------------------------- on an open file
\* Mutant: the open file is still there.
CloseTwice(t) ==
  /\ pc[t] = "idle"
  /\ \E x \in Entry : open[t][x] > 0 /\ IPut(t, x, "idle")
  /\ UNCHANGED <<tableVars, diskVars, goal, want, kept, slot, userVars, wrecked>>

Close(t) ==
  /\ pc[t] = "idle"
  /\ \E x \in Entry :
       /\ open[t][x] > 0
       /\ open' = [open EXCEPT ![t][x] = @ - 1]
       /\ IPut(t, x, "idle")
  /\ UNCHANGED <<tableVars, diskVars, goal, want, kept, slot, cdir, left, wrecked>>

Rdwr(t) ==
  /\ Goto(t, "idle", "iolock")
  /\ \E x \in Entry : open[t][x] > 0 /\ ent' = [ent EXCEPT ![t] = x]
  /\ UNCHANGED <<tableVars, diskVars, goal, then, want, kept, slot, userVars, wrecked>>

RdwrLock(t) ==
  /\ Goto(t, "iolock", "io")
  /\ Lock(t, ent[t])
  /\ UNCHANGED <<number, count, node, upd, diskVars, goal, then, want, ent, kept,
                 slot, userVars, wrecked>>

\* ReadI sets IACC, WriteI IUPD.
RdwrEnd(t) ==
  /\ pc[t] = "io" /\ Done(t)
  /\ upd' = [upd EXCEPT ![ent[t]] = TRUE]
  /\ NFrele(ent[t])
  /\ UNCHANGED <<number, count, node, diskVars, userVars, wrecked>>

\* --------------------------------------------------------- UpdateInodeTable
Update(t) ==
  /\ Goto(t, "idle", "update")
  /\ ent' = [ent EXCEPT ![t] = 0]
  /\ UNCHANGED <<tableVars, diskVars, goal, then, want, kept, slot, userVars, wrecked>>

Idle(x) == ~ ilock[x] /\ count[x] # 0

UpdateSkip(t) ==
  /\ pc[t] = "update" /\ ent[t] < NINODE
  /\ ~ Idle(ent[t])
  /\ ent' = [ent EXCEPT ![t] = @ + 1]
  /\ UNCHANGED <<tableVars, diskVars, pc, goal, then, want, kept, slot, userVars,
                 wrecked>>

UpdateTake(t) ==
  /\ Goto(t, "update", "sync") /\ ent[t] < NINODE
  /\ Idle(ent[t])
  /\ ilock' = [ilock EXCEPT ![ent[t]] = TRUE]
  /\ UNCHANGED <<number, count, node, upd, mutex, diskVars, goal, then, want, ent,
                 kept, slot, userVars, wrecked>>

UpdateSync(t) ==
  /\ Goto(t, "sync", "update")
  /\ IUpdate(ent[t])
  /\ NFrele(ent[t])
  /\ ent' = [ent EXCEPT ![t] = @ + 1]
  /\ UNCHANGED <<number, count, node, upd, sInode, dir, nameless, goal, then, want,
                 kept, slot, userVars, wrecked>>

UpdateEnd(t) ==
  /\ pc[t] = "update" /\ ent[t] = NINODE
  /\ Done(t)
  /\ UNCHANGED <<tableVars, diskVars, userVars, wrecked>>

-----------------------------------------------------------------------------
IGetStep(t) ==
  \/ GetLoaded(t) \/ GetLock(t)
  \/ GetUnloaded(t) \/ GetFree(t) \/ GetName(t) \/ GetFill(t)
  \/ GetNone(t) \/ GetNoVictim(t)

IPutStep(t) ==
  \/ PutLast(t) \/ PutWrite(t) \/ PutRelease(t) \/ PutClear(t)
  \/ PutShared(t) \/ PutDec(t)

IAllocStep(t) ==
  \/ IAllocScan(t) \/ IAllocNone(t) \/ IAllocPop(t) \/ IAllocBelow(t)
  \/ IAllocTaken(t) \/ MakNode(t) \/ WriteDir(t) \/ WriteDirFull(t)

SessionStep(t) ==
  \/ NameI(t) \/ Walk(t) \/ NewName(t) \/ Victim(t) \/ UnLink(t)
  \/ Open1(t) \/ Open1Fails(t) \/ GiveUp(t) \/ ChDir(t) \/ ChDirEnd(t)
  \/ Close(t) \/ Rdwr(t) \/ RdwrLock(t) \/ RdwrEnd(t)

UpdateStep(t) ==
  Update(t) \/ UpdateSkip(t) \/ UpdateTake(t) \/ UpdateSync(t) \/ UpdateEnd(t)

Next ==
  /\ ~ wrecked
  /\ \E t \in Thread :
       IGetStep(t) \/ IPutStep(t) \/ IAllocStep(t) \/ SessionStep(t) \/ UpdateStep(t)

Spec == Init /\ [][Next]_vars

-----------------------------------------------------------------------------
(***************************************************************************)
(* Properties.  All but ExclusiveIO are about a session alone: several do  *)
(* not keep them, as IGet uses what it has found without a second look.    *)
(***************************************************************************)
One(P) == IF P THEN 1 ELSE 0

InPut == {"put", "last", "release", "clear", "dec"}

\* The references to x of the thread's open files, its u_cdir, and its call.
References(t, x) ==
  open[t][x] + One(cdir[t] = x)
  + One(ent[t] = x /\ pc[t] \in {"held", "writedir"} \cup InPut)
  + One(kept[t] = x /\ then[t] # "chdir")

\* i_count is the number of references, IPut by IPut, across every path of
\* NameI, UnLink, creat and cd: an entry is never given away while somebody
\* refers to it, nor kept for nobody.  (One is rootDirInode's.)
CountsExact ==
  \A x \in Entry :
    count[x] = SumOf([t \in Thread |-> References(t, x)])
               + One(x = 0) + left[x]

\* The table that IGet and IPut share: CountsExact, on entries, lists and calls
\* that are what they can be.
TableInv == TypeOK /\ CountsExact

\* An inode has one copy in memory, and an entry without references has none:
\* the next IGet reads what the last IPut wrote.
OneCopy ==
  /\ \A n \in Ino : Cardinality(Loaded(n)) <= 1
  /\ \A x \in Entry :
       count[x] = 0 /\ (\A t \in Thread : pc[t] # "fill") => number[x] = -1

Latest(n) ==
  IF Loaded(n) = {} THEN dinode[n] ELSE node[CHOOSE x \in Loaded(n) : TRUE]

Names(n) == {p \in Dir \X Slot : dir[p[1]][p[2]] = n}

\* What an inode is, on the disk or in memory, agrees with the directories: a
\* name leads to a linked inode, a file without a name lives on only while it
\* is open, and a linked one has a name as soon as its creation is over -- or
\* never, and then for good, if the disk was full when its entry was written.
FilesKept ==
  \A n \in Ino \ {0} :
    /\ Cardinality(Names(n)) <= 1
    /\ Names(n) # {} => Latest(n) = "linked"
    /\ Latest(n) = "unlinked" => Loaded(n) # {}
    /\ Latest(n) = "linked" /\ Names(n) = {} =>
         \/ \E t \in Thread : pc[t] = "writedir" /\ number[ent[t]] = n
         \/ n \in nameless
    /\ n \in nameless => Latest(n) = "linked" /\ Names(n) = {}

\* Whatever s_inode lists, but for the root at its bottom, is free and listed
\* once, and the list fits: IFree and the scan never list an inode that still is a
\* file, nor one too many.
ListedAreFree ==
  /\ Len(sInode) <= NLISTED
  /\ \A i \in DOMAIN sInode : sInode[i] # 0 => Latest(sInode[i]) = "free"
  /\ \A i, j \in DOMAIN sInode : sInode[i] = sInode[j] => i = j

\* A session alone waits for an inode's mutex only if it has locked it itself:
\* because a failed creation has left the directory locked, or because IAlloc
\* pops the number of the root, which s_inode has at its bottom, for a file in
\* the root.
WaitsForItself ==
  \A t \in Thread :
    pc[t] \in {"wait", "fill", "iolock"} /\ mutex[ent[t]] # NoOne =>
      \/ left[ent[t]] > 0
      \/ goal[t] = "alloc" /\ want[t] = 0 /\ ent[t] = kept[t]

\* "Exclusive access to the file, for the length of a system call"
\* (FileManager.cpp:285): nobody else has the inode's lock while a read or
\* write is under way.
ExclusiveIO == \A t \in Thread : pc[t] = "io" => mutex[ent[t]] = t

\* "Unless there is no inode left in the system, the list has the number of one
\* that can be used" (FileSystem.cpp:222), against which IAlloc pops s_inode[-1]:
\* it does so only after it has popped the root, which format has listed at the
\* bottom; every other inode it pops is free.
PopsFree ==
  \A t \in Thread :
    /\ pc[t] = "pop" /\ sInode = <<>> => want[t] = 0 /\ goal[t] = "alloc"
    /\ pc[t] = "held" /\ goal[t] = "alloc" /\ want[t] # 0 => node[ent[t]] = "free"

\* s_inode from both sides, what IFree and the scan put in and what IAlloc takes
\* out: a number it hands out was free and is handed out once.
ListInv == ListedAreFree /\ PopsFree

=============================================================================
