-------------------------------- MODULE Session --------------------------------
(***************************************************************************)
(* The commands of the sessions (server/main.cpp) over the system calls of *)
(* server/SystemCall.cpp: descriptors, the table of File structures,       *)
(* offsets, u_error and EAX, in one directory, and the mutexes of inodes.  *)
(* Rdwr is cut at NFlock, at every block that ReadI and WriteI transfer,   *)
(* and before NFrele, since IPut and others unlock inodes that they have   *)
(* not locked.  The calls that open a file are cut where FAlloc has found  *)
(* a File structure and not yet counted itself in, since nothing locks     *)
(* that table; ls, cat, fin and fout are cut at each system call.          *)
(*                                                                         *)
(* A file is its length, in units of one directory entry (32 bytes).  Of   *)
(* u_error only whether it is NOERROR is kept: nothing else decides what   *)
(* happens next.                                                           *)
(***************************************************************************)
EXTENDS Integers, Sequences, FiniteSets, SequencesExt

CONSTANTS
  Session,
  Name,
  Inode,               \* of files; the directory is Root
  NINODE,              \* in-memory inodes for files: 100
  NFILE,               \* File structures: 100
  NOFILES,             \* descriptors of a session: 15
  BUF,                 \* units of the server's buffer: 2048 bytes
  Sector,              \* units of a block: 512 bytes
  Nobody,              \* neither an inode nor a cursor
  BootDir,             \* directories there may be when the sessions log in
  Typed,               \* paths that users type
  Modes,               \* modes that files are opened in
  Fds,                 \* descriptors that users type
  Counts,              \* units asked for at once
  Jumps,               \* offset and whence of seeks
  MaxOff,              \* the largest file; bound on offsets
  MaxCalls             \* bound on the commands of all sessions

ASSUME SessionAssumption ==
  /\ IsFiniteSet(Session) /\ Session # {}
  /\ Inode \subseteq Nat \ {0} /\ Nobody \notin Inode \cup {0}
  /\ NINODE \in Nat \ {0} /\ NFILE \in Nat \ {0} /\ NOFILES \in Nat \ {0}
  /\ Modes \subseteq SUBSET {"read", "write"}
  /\ Fds \subseteq Nat /\ Counts \subseteq Nat /\ Jumps \subseteq Nat \X Nat
  /\ \A d \in BootDir : d \in Seq([name : Name, ino : Inode]) /\ Len(d) <= MaxOff
  /\ Typed \subseteq Name \cup {"/"}
  /\ BUF \in Nat \ {0} /\ Sector \in Nat \ {0} /\ MaxOff \in Nat /\ MaxCalls \in Nat
  /\ "/" \notin Name
  /\ Nobody \notin [ino : Inode \cup {0}, mode : SUBSET {"read", "write"}, off : 0 .. MaxOff]

VARIABLES
  dir,                 \* the directory: entries, with inode 0 where it is free
  size,                \* i_size
  sparse,              \* files with a hole, which a read may have to fill
  refs,                \* i_count
  left,                \* those of refs that nobody will give back
  file,                \* m_File
  user,                \* the User structure of each session
  call,                \* the command each session is at
  heap,                \* User structures that have been freed
  locked,              \* inodes whose mutex is locked
  torn,                \* sessions that have not been alone with the file they transfer
  full,                \* an Alloc has found no space, and has left s_flock locked
  said,                \* the last answer
  calls,               \* commands so far
  dead                 \* the server has followed a NULL

vars == <<dir, size, sparse, refs, left, file, user, call, heap, locked, torn, full, said, calls, dead>>

lockVars == <<locked, torn, full>>

Root == 0

Fd == 0 .. NOFILES - 1

File == 1 .. NFILE

Null == 0

Mode == SUBSET {"read", "write"}

\* name: a path is to be looked up.  hung: Alloc or Free waits for s_flock, for ever.
Pc == {"out", "idle", "name", "find", "take", "reopen", "loop", "lock", "io", "entry",
       "close", "hung"}

Command == {"login", "exit", "open", "close", "read", "write", "seek", "touch",
            "rm", "cd", "ls", "cat", "fin", "fout"}

TypeOK ==
  /\ dir \in Seq([name : Name, ino : Inode \cup {0}])
  /\ size \in [Inode -> 0 .. MaxOff] /\ sparse \subseteq Inode
  /\ refs \in [Inode \cup {Root} -> Nat] /\ left \in [Inode \cup {Root} -> Nat]
  /\ file \in [File -> [count : Nat, flag : Mode, off : 0 .. MaxOff, ino : Inode \cup {Root}]]
  /\ user \in [Session -> [ofiles : [Fd -> File \cup {Null}], error : BOOLEAN, eax : Int]]
  /\ call \in [Session -> [pc : Pc, cmd : Command, ino : Inode \cup {Root}, mode : Mode,
                           fd : Int, file : File \cup {Null}, own : BOOLEAN, path : Name \cup {"/"}, more : 0 .. 2,
                           off : 0 .. MaxOff, asked : Nat, n : Nat]]
  /\ heap \in Seq([Fd -> File \cup {Null}] \X Int)
  /\ locked \subseteq Inode \cup {Root} /\ torn \subseteq Session /\ full \in BOOLEAN
  /\ said \in [by : Session, cmd : Command, ok : BOOLEAN, asked : Counts \cup {0}, n : Int]
  /\ calls \in 0 .. MaxCalls /\ dead \in BOOLEAN

Named(d) == {d[k].ino : k \in DOMAIN d} \ {0}

Lowest(S) == CHOOSE x \in S : \A y \in S : x <= y

Least(a, b) == IF a < b THEN a ELSE b

NoFiles == [d \in Fd |-> Null]

NoCall(pc) == [pc |-> pc, cmd |-> "cd", ino |-> Root, mode |-> {}, fd |-> 0,
               file |-> Null, own |-> FALSE, path |-> "/", more |-> 0,
               off |-> 0, asked |-> 0, n |-> 0]

Silence == [by |-> CHOOSE s \in Session : TRUE, cmd |-> "login", ok |-> TRUE, asked |-> 0, n |-> 0]

\* The server with its sessions logged in; the first file has something in it.
Init ==
  /\ dir \in BootDir
  /\ size = [i \in Inode |-> IF i \in Named(dir) /\ i = Lowest(Inode) THEN MaxOff ELSE 0]
  /\ sparse = {}
  /\ refs = [i \in Inode \cup {Root} |-> 0] /\ left = refs
  /\ file = [f \in File |-> [count |-> 0, flag |-> {}, off |-> 0, ino |-> Root]]
  /\ user = [s \in Session |-> [ofiles |-> NoFiles, error |-> FALSE, eax |-> 0]]
  /\ call = [s \in Session |-> NoCall("idle")]
  /\ heap = <<>> /\ locked = {} /\ torn = {} /\ full = FALSE
  /\ said = Silence
  /\ calls = 0 /\ dead = FALSE
-----------------------------------------------------------------------------
Ask(s) ==
  /\ ~dead /\ call[s].pc = "idle"
  /\ calls < MaxCalls /\ calls' = calls + 1

Answer(s, c, ok, asked, n) ==
  said' = [by |-> s, cmd |-> c, ok |-> ok, asked |-> asked, n |-> n]

Return(s, c, ok) ==
  /\ Answer(s, c, ok, 0, 0)
  /\ call' = [call EXCEPT ![s] = NoCall("idle")]

\* The command c goes on, at pc, with its descriptor.
GoesOn(s, c, pc, i) ==
  /\ call' = [call EXCEPT ![s] =
                [NoCall(pc) EXCEPT !.cmd = c.cmd, !.fd = c.fd, !.own = c.own, !.more = c.more, !.ino = i]]
  /\ UNCHANGED said

IsOpen(s, fd) == fd \in Fd /\ user[s].ofiles[fd] # Null

FileOf(s, fd) == file[user[s].ofiles[fd]]

Length(i) == IF i = Root THEN Len(dir) ELSE size[i]

NameI(path) ==
  LET at == {k \in DOMAIN dir : dir[k].ino # 0 /\ dir[k].name = path}
  IN  IF path = "/" THEN Root ELSE IF at = {} THEN Nobody ELSE dir[Lowest(at)].ino

\* Whether IGet finds a place for the inode.
Loadable(i) ==
  i = Root \/ refs[i] > 0 \/ Cardinality({j \in Inode : refs[j] > 0}) < NINODE

IGet(i) == refs' = [refs EXCEPT ![i] = @ + 1]

Truncate(i) ==
  /\ size' = [j \in Inode |-> IF j = i THEN 0 ELSE size[j]]
  /\ sparse' = sparse \ {i}

\* A full disk leaves s_flock locked: Free waits for ever.
Frees(i) == i # Root /\ size[i] > 0

Transferring(i) == {s \in Session : call[s].pc = "io" /\ call[s].ino = i}

\* NFrele of an inode that others may have locked.
Unlock(i) == locked' = locked \ {i} /\ torn' = torn \cup Transferring(i)

\* The last reference to a file without a name frees its blocks.
IPut(i) ==
  /\ refs' = [refs EXCEPT ![i] = @ - 1]
  /\ Unlock(i)
  /\ \/ /\ refs[i] = 1 /\ i \notin Named(dir)
        /\ ~(full /\ Frees(i))
        /\ Truncate(i)
     \/ /\ ~(refs[i] = 1 /\ i \notin Named(dir))
        /\ UNCHANGED <<size, sparse>>

SetUser(s, eax, error) ==
  user' = [user EXCEPT ![s].eax = eax, ![s].error = error]
-----------------------------------------------------------------------------
(* Opening a file *)

\* Mutant: NameI does not lock what it has found.
FreeDirectory(i) == Root \notin locked

\* NameI locks the directory, lets it go, and locks the inode that it has found.
Free(i) == Root \notin locked /\ i \notin locked

\* Open1 lets the inode go unlocked and calls FAlloc; c is the call to go on with.
Found(s, c, i, mode) ==
  /\ IGet(i)
  /\ call' = [call EXCEPT ![s] = [c EXCEPT !.pc = "find", !.ino = i, !.mode = mode]]
  /\ UNCHANGED said

\* ls and cat do not look at the error and go on with what EAX holds.
NotOpened(s, c, eax) ==
  /\ SetUser(s, eax, TRUE)
  /\ IF c \in {"ls", "cat"}
       THEN /\ call' = [call EXCEPT ![s] = [NoCall("loop") EXCEPT !.cmd = c, !.fd = eax]]
            /\ UNCHANGED said
       ELSE Return(s, c, FALSE)

Sys_Open(s, c, mode) ==
  LET i == NameI(c.path) IN
  /\ Free(i)
  /\ UNCHANGED <<dir, size, sparse, left, file, heap, lockVars, dead>>
  /\ IF i # Nobody /\ Loadable(i) /\ ~(i = Root /\ "write" \in mode)
       THEN Found(s, c, i, mode) /\ SetUser(s, user[s].eax, FALSE)
       ELSE NotOpened(s, c.cmd, user[s].eax) /\ UNCHANGED refs

\* IAlloc gives any inode that nothing names or uses.
FreeInodes == {i \in Inode : i \notin Named(dir) /\ refs[i] = 0 /\ Loadable(i)}

FreeEntries == {k \in DOMAIN dir : dir[k].ino = 0}

WriteDir(n, i) ==
  LET e == [name |-> n, ino |-> i]
  IN  dir' = IF FreeEntries = {} THEN Append(dir, e) ELSE [dir EXCEPT ![Lowest(FreeEntries)] = e]

\* The command waits for s_flock for ever, with the inode i and a lock.
Hang(s, i, lock) ==
  /\ full
  /\ IGet(i) /\ left' = [left EXCEPT ![i] = @ + 1]
  /\ locked' = locked \cup {lock}
  /\ call' = [call EXCEPT ![s] = NoCall("hung")]
  /\ UNCHANGED <<size, sparse, torn, full, user, said>>

\* A name that is there already is emptied (Open1 with trf = 1).
CreatThere(s, c) ==
  LET i == NameI(c.path) IN
  /\ i # Nobody
  /\ \/ /\ Loadable(i) /\ ~(full /\ Frees(i))
        /\ Truncate(i)
        /\ Found(s, c, i, {"write"}) /\ SetUser(s, 0, FALSE)
        /\ UNCHANGED <<left, lockVars>>
     \/ Loadable(i) /\ Frees(i) /\ Hang(s, i, i)
     \/ /\ ~Loadable(i)
        /\ NotOpened(s, c.cmd, 0)
        /\ UNCHANGED <<size, sparse, refs, left, lockVars>>
  /\ UNCHANGED dir

\* The directory needs a block for another entry.
DirectoryGrows == FreeEntries = {} /\ Len(dir) % Sector = 0

\* A new name.  WriteDir does not find a block, or the directory is as large as a file
\* can be: Open1 gives up for u_error.  (The inode is lost; here it stays free.)
CreatNew(s, c) ==
  /\ NameI(c.path) = Nobody
  /\ \/ /\ full => ~DirectoryGrows
        /\ FreeEntries = {} => Len(dir) < MaxOff
        /\ \E j \in FreeInodes :
             WriteDir(c.path, j) /\ Found(s, c, j, {"write"}) /\ SetUser(s, 0, FALSE)
        /\ UNCHANGED <<size, sparse, left, lockVars>>
     \/ /\ FreeInodes # {} /\ FreeEntries = {}
        /\ Len(dir) = MaxOff \/ (~full /\ DirectoryGrows)
        /\ full' = (full \/ Len(dir) < MaxOff)
        /\ NotOpened(s, c.cmd, 0)
        /\ UNCHANGED <<dir, size, sparse, refs, left, locked, torn>>
     \/ DirectoryGrows /\ (\E j \in FreeInodes : Hang(s, j, Root)) /\ UNCHANGED dir
     \/ /\ FreeInodes = {}           \* MakNode leaves the directory locked
        /\ locked' = locked \cup {Root}
        /\ NotOpened(s, c.cmd, 0)
        /\ UNCHANGED <<dir, size, sparse, refs, left, torn, full>>

Sys_Creat(s, c) ==
  /\ Free(NameI(c.path))
  /\ CreatThere(s, c) \/ CreatNew(s, c)
  /\ UNCHANGED <<file, heap, dead>>

FreeFds(s) == {d \in Fd : user[s].ofiles[d] = Null}

FreeFiles == {f \in File : file[f].count = 0}

\* AllocFreeSlot, and FAlloc's search of the table.
FindFile(s) ==
  LET c == call[s] IN
  /\ ~dead /\ c.pc = "find"
  /\ \/ /\ FreeFds(s) # {} /\ FreeFiles # {}
        /\ SetUser(s, Lowest(FreeFds(s)), user[s].error)
        /\ call' = [call EXCEPT ![s].pc = "take", ![s].fd = Lowest(FreeFds(s)),
                                ![s].file = Lowest(FreeFiles)]
        /\ UNCHANGED <<size, sparse, refs, locked, torn, said>>
     \/ /\ FreeFds(s) = {} \/ FreeFiles = {}
        /\ NotOpened(s, c.cmd, IF FreeFds(s) = {} THEN -1 ELSE Lowest(FreeFds(s)))
        /\ IPut(c.ino)
  /\ UNCHANGED <<dir, left, file, heap, full, calls, dead>>

\* fin's last system call is the close.
Further(c) == IF c.cmd = "fin" /\ c.more = 1 THEN "close" ELSE "loop"

\* What the command does with its descriptor.
Opened(s) ==
  LET c == call[s] IN
  CASE c.cmd = "open" ->
         /\ Answer(s, "open", TRUE, 0, c.fd)
         /\ call' = [call EXCEPT ![s] = NoCall("idle")]
    [] c.cmd = "touch" -> Return(s, "touch", TRUE)
    [] c.cmd = "fin" /\ c.more = 0 ->
         call' = [call EXCEPT ![s].pc = "reopen"] /\ UNCHANGED said
    [] OTHER -> GoesOn(s, [c EXCEPT !.own = TRUE], Further(c), Root)

\* The rest of FAlloc and of Open1.  Another session may have taken the same
\* structure meanwhile: its file loses a reference that nobody gives back.
TakeFile(s) ==
  LET c == call[s]
      old == file[c.file]
  IN
  /\ ~dead /\ c.pc = "take"
  /\ user' = [user EXCEPT ![s].ofiles[c.fd] = c.file]
  /\ file' = [file EXCEPT ![c.file] =
             [count |-> old.count + 1, flag |-> c.mode, off |-> 0, ino |-> c.ino]]
  /\ left' = IF old.count = 0 THEN left ELSE [left EXCEPT ![old.ino] = @ + 1]
  /\ torn' = torn \cup {r \in Session : call[r].pc = "io" /\ user[r].ofiles[call[r].fd] = c.file}
  /\ Opened(s)
  /\ UNCHANGED <<dir, size, sparse, refs, heap, locked, full, calls, dead>>

Looks(s, commands) ==
  ~dead /\ call[s].pc = "name" /\ call[s].cmd \in commands /\ UNCHANGED calls

Open(s) ==
  Looks(s, {"open", "ls", "cat", "fout"}) /\ Sys_Open(s, call[s], call[s].mode)

Creat(s) == Looks(s, {"touch", "fin"}) /\ Sys_Creat(s, call[s])

\* fin opens the file it has just created; the descriptor of Sys_Creat stays.
\* more - 1 is the number of pieces of the outside file that are to be copied.
Reopen(s) ==
  /\ ~dead /\ call[s].pc = "reopen"
  /\ \E k \in 1 .. 2 : Sys_Open(s, [call[s] EXCEPT !.more = k], {"write"})
  /\ UNCHANGED calls
-----------------------------------------------------------------------------
(* Read and write *)

Direction(c) == IF c.cmd \in {"write", "fin"} THEN "write" ELSE "read"

Usable(s, fd, mode) == IsOpen(s, fd) /\ mode \in FileOf(s, fd).flag

Outcome(n, eax, error) == [n |-> n, eax |-> eax, error |-> error]

\* The entry that ls has read.  What is not the directory (see TakeFile) holds
\* anything; a read that gives nothing but is not 0 leaves the zeros of the buffer.
LsReads(c, o) ==
  IF o.n = 0 THEN {0}
  ELSE IF c.ino = Root THEN {dir[k].ino : k \in {c.off + 1} \cap DOMAIN dir}
  ELSE Inode \cup {0}

\* What the command c does with the outcome of its read or write.  cat and fout read
\* on until a read gives nothing, and leave the file open after an error; fin does
\* not look at what its writes answer.
After(s, c, o) ==
  /\ SetUser(s, o.eax, o.error)
  /\ \/ /\ c.cmd \in {"read", "write"}
        /\ Answer(s, c.cmd, ~o.error, c.asked, o.eax)
        /\ call' = [call EXCEPT ![s] = NoCall("idle")]
     \/ c.cmd = "ls" /\ o.eax = 0 /\ Return(s, "ls", TRUE)
     \/ /\ c.cmd = "ls" /\ o.eax # 0
        /\ \E i \in LsReads(c, o) : GoesOn(s, c, IF i = 0 THEN "loop" ELSE "entry", i)
     \/ c.cmd \in {"cat", "fout"} /\ o.eax > 0 /\ GoesOn(s, c, "loop", Root)
     \/ c.cmd \in {"cat", "fout"} /\ o.eax <= 0 /\ o.error /\ Return(s, c.cmd, FALSE)
     \/ c.cmd \in {"cat", "fout"} /\ o.eax <= 0 /\ ~o.error /\ GoesOn(s, c, "close", Root)
     \/ /\ c.cmd = "fin"
        /\ LET d == [c EXCEPT !.more = @ - 1] IN GoesOn(s, d, Further(d), Root)

\* Rdwr up to its NFlock.  (What pFile->f_inode is after it, if FAlloc has given the
\* File structure out again, is left out.)
Rdwr(s, c) ==
  /\ \/ /\ Usable(s, c.fd, Direction(c))
        /\ call' = [call EXCEPT ![s] =
                      [c EXCEPT !.pc = "lock", !.ino = FileOf(s, c.fd).ino, !.mode = FileOf(s, c.fd).flag]]
        /\ said' = Silence
        /\ UNCHANGED user
     \/ /\ ~Usable(s, c.fd, Direction(c))
        /\ After(s, c, Outcome(0, user[s].eax, TRUE))
  /\ UNCHANGED <<dir, size, sparse, refs, left, file, heap, lockVars, dead>>

\* NFlock.  The session is not alone with the inode if somebody has unlocked it
\* in the middle of another transfer.
RdwrLock(s) ==
  LET c == call[s]
      f == FileOf(s, c.fd)
  IN
  /\ ~dead /\ c.pc = "lock" /\ c.ino \notin locked
  /\ locked' = locked \cup {c.ino}
  /\ torn' = IF Transferring(c.ino) = {} /\ f.ino = c.ino /\ f.flag = c.mode THEN torn ELSE torn \cup {s}
  /\ call' = [call EXCEPT ![s].pc = "io", ![s].off = f.off]
  /\ UNCHANGED <<dir, size, sparse, refs, left, file, user, heap, full, said, calls, dead>>

At(c) == c.off + c.n

\* Mutant: u_error is cleared, as Sys_Open does.
BlockedNever(s) == FALSE

\* The loops of ReadI and WriteI are not entered with u_error set.
Blocked(s) == user[s].error

Over(s) ==
  LET c == call[s]
  IN  Blocked(s) \/ c.n = c.asked \/ (Direction(c) = "read" /\ At(c) >= Length(c.ino))

\* nbytes: a block at most, and no more than there is to read.
Part(c) ==
  LET rest == c.asked - c.n
      block == Least(rest, Sector - (At(c) % Sector))
  IN  IF Direction(c) = "read" THEN Least(block, Length(c.ino) - At(c)) ELSE block

\* Bmap has to allocate a block, or may have to.
NoBlock(c) == At(c) - (At(c) % Sector) >= Length(c.ino)

MayAlloc(c) == NoBlock(c) \/ c.ino \in sparse

TooBig(c) == At(c) + Part(c) > MaxOff

\* One block is transferred.
Turn(s) ==
  LET c == call[s]
      end == At(c) + Part(c)
  IN
  /\ ~dead /\ c.pc = "io" /\ ~Over(s) /\ ~TooBig(c)
  /\ full => ~NoBlock(c)
  /\ call' = [call EXCEPT ![s].n = @ + Part(c)]
  /\ IF Direction(c) = "read" THEN UNCHANGED <<size, sparse>>
     ELSE /\ size' = [size EXCEPT ![c.ino] = IF @ < end THEN end ELSE @]
          /\ sparse' = IF size[c.ino] < At(c) THEN sparse \cup {c.ino} ELSE sparse
  /\ UNCHANGED <<dir, refs, left, file, user, heap, lockVars, said, calls, dead>>

\* Bmap gives up: the file is too large, or Alloc finds no space.
TurnFails(s) ==
  LET c == call[s] IN
  /\ ~dead /\ c.pc = "io" /\ ~Over(s)
  /\ \/ TooBig(c) /\ UNCHANGED full
     \/ ~TooBig(c) /\ MayAlloc(c) /\ ~full /\ full' = TRUE
  /\ SetUser(s, user[s].eax, TRUE)
  /\ UNCHANGED <<dir, size, sparse, refs, left, file, call, heap, locked, torn, said, calls, dead>>

\* Alloc waits for s_flock.
TurnHangs(s) ==
  LET c == call[s] IN
  /\ ~dead /\ c.pc = "io" /\ ~Over(s)
  /\ ~TooBig(c) /\ MayAlloc(c) /\ full
  /\ call' = [call EXCEPT ![s] = NoCall("hung")]
  /\ torn' = torn \ {s}
  /\ UNCHANGED <<dir, size, sparse, refs, left, file, user, heap, locked, full, said, calls, dead>>

\* Mutant: EAX is set only if something was moved.
MovedKeeps(s, n) == IF n = 0 THEN user[s].eax ELSE n

Moved(s, n) == n

\* The offset, NFrele, and EAX.
RdwrEnd(s) ==
  LET c == call[s]
      f == user[s].ofiles[c.fd]
  IN
  /\ ~dead /\ c.pc = "io" /\ Over(s)
  /\ file' = [file EXCEPT ![f].off = Least(@ + c.n, MaxOff)]
  /\ locked' = locked \ {file[f].ino}
  /\ torn' = (torn \cup Transferring(file[f].ino)) \ {s}
  /\ After(s, c, Outcome(c.n, Moved(s, c.n), user[s].error))
  /\ UNCHANGED <<dir, size, sparse, refs, left, heap, full, calls, dead>>

Loop(s) ==
  /\ ~dead /\ call[s].pc = "loop"
  /\ Rdwr(s, [call[s] EXCEPT !.asked = IF call[s].cmd = "ls" THEN 1 ELSE BUF])
  /\ UNCHANGED calls

\* ls gets the inode of every entry, and keeps it.
LsEntry(s) ==
  LET i == call[s].ino IN
  /\ ~dead /\ call[s].pc = "entry" /\ i \notin locked
  /\ \/ /\ Loadable(i)
        /\ IGet(i) /\ left' = [left EXCEPT ![i] = @ + 1]
        /\ GoesOn(s, call[s], "loop", Root)
        /\ UNCHANGED dead
     \/ ~Loadable(i) /\ dead' = TRUE /\ UNCHANGED <<refs, left, call, said>>
  /\ UNCHANGED <<dir, size, sparse, file, user, heap, lockVars, calls>>
-----------------------------------------------------------------------------
(* The other calls *)

Transfer(c, fd, asked) == [NoCall("idle") EXCEPT !.cmd = c, !.fd = fd, !.asked = asked]

Read(s, fd, asked) ==
  /\ Ask(s)
  /\ \/ asked <= BUF /\ Rdwr(s, Transfer("read", fd, asked))
     \/ /\ asked > BUF               \* Sys_Read leaves code as it was: unset
        /\ \E ok \in BOOLEAN : Answer(s, "read", ok, asked, -1)
        /\ UNCHANGED <<dir, size, sparse, refs, left, file, user, call, heap, lockVars, dead>>

\* The command and its text fit the buffer together.
Write(s, fd, asked) == Ask(s) /\ asked <= BUF /\ Rdwr(s, Transfer("write", fd, asked))

\* From the start, from here, from the end; 3 to 5 are the same in blocks, and
\* any other whence does nothing.
Target(f, off, whence) ==
  LET by == IF whence > 2 THEN off * Sector ELSE off
      from == IF whence > 2 THEN whence - 3 ELSE whence
  IN  CASE from = 0 -> by
        [] from = 1 -> f.off + by
        [] from = 2 -> Length(f.ino) + by
        [] OTHER -> f.off

Seek(s, fd, off, whence) ==
  /\ Ask(s)
  /\ IF IsOpen(s, fd)
       THEN /\ Target(FileOf(s, fd), off, whence) <= MaxOff
            /\ file' = [file EXCEPT ![user[s].ofiles[fd]].off = Target(FileOf(s, fd), off, whence)]
            /\ SetUser(s, 0, user[s].error)
       ELSE UNCHANGED file /\ SetUser(s, 0, TRUE)
  /\ Answer(s, "seek", ~user'[s].error, 0, 0)
  /\ UNCHANGED <<dir, size, sparse, refs, left, call, heap, lockVars, dead>>

\* Mutant: SetF(fd, NULL) is forgotten.
ReturnedKeeps(u, fd) == [u EXCEPT !.eax = 0, !.error = FALSE]

Returned(u, fd) == [u EXCEPT !.ofiles[fd] = Null, !.eax = 0, !.error = FALSE]

Sys_Close(s, fd) ==
  LET f == FileOf(s, fd) IN
  /\ IF ~IsOpen(s, fd)
       THEN SetUser(s, -1, TRUE) /\ UNCHANGED <<size, sparse, refs, file, locked, torn>>
       ELSE /\ user' = [user EXCEPT ![s] = Returned(@, fd)]
            /\ file' = [file EXCEPT ![user[s].ofiles[fd]].count = @ - 1]
            /\ IF f.count <= 1 THEN IPut(f.ino) ELSE UNCHANGED <<size, sparse, refs, locked, torn>>
  /\ UNCHANGED <<dir, left, heap, full, dead>>

\* close, and the last call of cat, fout and fin.
Close(s) ==
  LET c == call[s] IN
  /\ ~dead /\ c.pc = "close"
  /\ Sys_Close(s, c.fd)
  /\ Return(s, c.cmd, IsOpen(s, c.fd))
  /\ UNCHANGED calls

\* UnLink follows the NULL when the table has no place for the inode.
Rm(s) ==
  LET i == NameI(call[s].path) IN
  /\ Looks(s, {"rm"}) /\ Free(i)
  /\ \/ /\ i \in {Nobody, Root}
        /\ SetUser(s, 0, TRUE) /\ Return(s, "rm", FALSE)
        /\ UNCHANGED <<dir, size, sparse, refs, left, lockVars, dead>>
     \/ /\ i \in Inode /\ ~Loadable(i)
        /\ dead' = TRUE
        /\ UNCHANGED <<dir, size, sparse, refs, left, user, call, lockVars, said>>
     \/ /\ i \in Inode /\ Loadable(i)
        /\ dir' = [k \in DOMAIN dir |-> IF dir[k].ino = i THEN [dir[k] EXCEPT !.ino = 0] ELSE dir[k]]
        /\ \/ /\ ~(full /\ refs[i] = 0 /\ Frees(i))
              /\ IF refs[i] = 0 THEN Truncate(i) ELSE UNCHANGED <<size, sparse>>
              /\ SetUser(s, 0, FALSE) /\ Return(s, "rm", TRUE)
              /\ UNCHANGED <<refs, left, lockVars>>
           \/ refs[i] = 0 /\ Frees(i) /\ Hang(s, i, i)
        /\ UNCHANGED dead
  /\ UNCHANGED <<file, heap>>

\* cd and mkdir clear u_error and may set it; what else they do is in Directory.
Cd(s) ==
  /\ Looks(s, {"cd"}) /\ Free(Root)
  /\ \E error \in BOOLEAN : SetUser(s, user[s].eax, error) /\ Return(s, "cd", ~error)
  /\ UNCHANGED <<dir, size, sparse, refs, left, file, heap, lockVars, dead>>

\* Logout frees the User structure and leaves the files it has open.  Before it
\* Update waits for s_flock, unless s_fmod is clear.
Exit(s) ==
  /\ Ask(s)
  /\ \/ /\ heap' = Append(heap, <<user[s].ofiles, user[s].eax>>)
        /\ user' = [user EXCEPT ![s] = [ofiles |-> NoFiles, error |-> FALSE, eax |-> 0]]
        /\ call' = [call EXCEPT ![s] = NoCall("out")]
        /\ Answer(s, "exit", TRUE, 0, 0)
     \/ /\ full
        /\ call' = [call EXCEPT ![s] = NoCall("hung")]
        /\ UNCHANGED <<user, heap, said>>
  /\ UNCHANGED <<dir, size, sparse, refs, left, file, lockVars, dead>>

\* Login does not clear what malloc returns: new memory, or what was freed.
Login(s) ==
  /\ ~dead /\ call[s].pc = "out"
  /\ \/ UNCHANGED <<user, heap>>
     \/ \E k \in DOMAIN heap :
          /\ user' = [user EXCEPT ![s] = [ofiles |-> heap[k][1], error |-> FALSE, eax |-> heap[k][2]]]
          /\ heap' = RemoveAt(heap, k)
  /\ call' = [call EXCEPT ![s] = NoCall("idle")]
  /\ Answer(s, "login", TRUE, 0, 0)
  /\ UNCHANGED <<dir, size, sparse, refs, left, file, lockVars, calls, dead>>

\* Commands that go on in a step of their own, which may have to wait.
Waiting(s, c) == call' = [call EXCEPT ![s] = c]

NewCommand(s) ==
  /\ Ask(s)
  /\ \/ \E p \in Typed, m \in Modes :
          Waiting(s, [NoCall("name") EXCEPT !.cmd = "open", !.path = p, !.mode = m])
     \/ \E c \in {"cat", "fout", "rm"}, p \in Typed :
          Waiting(s, [NoCall("name") EXCEPT !.cmd = c, !.path = p, !.mode = {"read"}])
     \/ \E c \in {"touch", "fin"}, n \in Typed \ {"/"} :
          Waiting(s, [NoCall("name") EXCEPT !.cmd = c, !.path = n])
     \/ \E c \in {"ls", "cd"} : Waiting(s, [NoCall("name") EXCEPT !.cmd = c, !.mode = {"read"}])
     \/ \E d \in Fds : Waiting(s, [NoCall("close") EXCEPT !.cmd = "close", !.fd = d])
  /\ said' = Silence
  /\ UNCHANGED <<dir, size, sparse, refs, left, file, user, heap, lockVars, dead>>

\* IPut unlocks inodes that others have locked (OpenFileManager.cpp:239): the
\* directory in cd, mkdir and rm.  So does ls (main.cpp:211), and UpdateInodeTable
\* (OpenFileManager.cpp:250), which looks at ILOCK without the mutex.  Any inode, any time.
Stray(i) ==
  /\ i \in locked /\ Unlock(i)
  /\ UNCHANGED <<dir, size, sparse, refs, left, file, user, call, heap, full, said, calls, dead>>

Step(s) ==
  \/ Open(s) \/ Creat(s) \/ Rm(s) \/ Cd(s) \/ FindFile(s) \/ TakeFile(s) \/ Reopen(s)
  \/ Loop(s) \/ RdwrLock(s) \/ Turn(s) \/ TurnFails(s) \/ TurnHangs(s) \/ RdwrEnd(s)
  \/ LsEntry(s) \/ Close(s)

Begin(s) ==
  \/ NewCommand(s) \/ Exit(s) \/ Login(s)
  \/ \E d \in Fds, k \in Counts : Read(s, d, k) \/ Write(s, d, k)
  \/ \E d \in Fds, j \in Jumps : Seek(s, d, j[1], j[2])

Next ==
  \/ \E s \in Session : Step(s) \/ Begin(s)
  \/ \E i \in Inode \cup {Root} : Stray(i)

\* A thread of the server goes on with its command; the user need not type.
Spec == Init /\ [][Next]_vars /\ \A s \in Session : WF_vars(Step(s))
-----------------------------------------------------------------------------
(* Properties *)

\* A File structure counts the descriptors that name it, of sessions that are
\* logged in and, since Logout closes nothing, of freed User structures.
FilesCounted ==
  \A f \in File :
    file[f].count =
      Cardinality({x \in Session \X Fd : user[x[1]].ofiles[x[2]] = f})
      + Cardinality({x \in (DOMAIN heap) \X Fd : heap[x[1]][1][x[2]] = f})

\* Open1, CloseF and ls's IGet: the references to an inode are those of the
\* File structures in use and of opens in progress, and the ones known to be
\* lost: ls's, and those of a File structure taken twice.
RefsExact ==
  \A i \in Inode \cup {Root} :
    refs[i] = left[i]
      + Cardinality({f \in File : file[f].count > 0 /\ file[f].ino = i})
      + Cardinality({s \in Session : call[s].pc \in {"find", "take"} /\ call[s].ino = i})

\* Descriptors, File structures and inodes: at each level the count is that of the
\* level above, so nothing is freed under a user or kept for none.
CountsInv == TypeOK /\ FilesCounted /\ RefsExact

Shared == \E f \in File : file[f].count > 1

\* A session that starts with the descriptors of one that has ended.
Inherits ==
  \E s \in Session : call[s].pc = "out" /\ call'[s].pc = "idle" /\ user'[s].ofiles # NoFiles

cursor ==
  [s \in Session |-> [d \in Fd |->
     IF user[s].ofiles[d] = Null THEN Nobody
     ELSE LET f == FileOf(s, d) IN [ino |-> f.ino, mode |-> f.flag, off |-> f.off]]]

\* ls and cat go on with the EAX of an earlier call when their open has failed
\* (SystemCall.cpp:192, main.cpp:180).  Still they never move in or close a file
\* that the session has open: Sys_Read finds the u_error of the open.
LeavesOthersAlone ==
  [][\A s \in Session :
       call[s].cmd \in {"ls", "cat"} /\ call[s].pc \in {"loop", "lock", "io", "close"} /\ ~call[s].own =>
         cursor'[s] = cursor[s] \/ Shared \/ Shared']_vars

C == INSTANCE FileCursors WITH
       Inode <- Inode \cup {Root}, Off <- 0 .. MaxOff, Count <- Counts \cup {0}, Closed <- Nobody,
       length <- [i \in Inode \cup {Root} |-> Length(i)]

\* A transfer comes to its end whose inode somebody else has unlocked, or whose File
\* structure another session has moved.
Disturbed ==
  \E s \in Session :
    LET c == call[s] IN
    /\ c.pc = "io" /\ call'[s].pc # "io"
    /\ s \in torn \/ FileOf(s, c.fd).off # c.off

\* Open, Close, Rdwr, Seek and the commands built on them: descriptors are private
\* cursors and answers are true (FileCursors), unless FAlloc gives one File
\* structure to two sessions, Login one session's table to another, or somebody
\* unlocks an inode in the middle of a transfer.
ImplementsCursors ==
  C!Init /\ [][Shared \/ Shared' \/ Inherits \/ Disturbed \/ C!Next]_(C!cursorVars)

\* ls, cat or fout reads through a descriptor that it cannot read: its open has
\* failed, or another session has taken its File structure for writing.  EAX
\* stays what it is, and that is not what ends the loop.
Stuck(s) ==
  LET c == call[s] IN
  /\ c.pc = "loop" /\ c.cmd \in {"ls", "cat", "fout"}
  /\ ~Usable(s, c.fd, "read")
  /\ c.own => IsOpen(s, c.fd)
  /\ IF c.cmd = "ls" THEN user[s].eax # 0 ELSE user[s].eax > 0

\* No transfer that will unlock it is under way.
LeftLocked(i) ==
  i \in locked /\ \A r \in Session : call[r].pc = "io" => FileOf(r, call[r].fd).ino # i

\* A command waits for s_flock, which a full disk has left locked, or for an inode
\* that has been left locked: by one that waits for s_flock, by a creation that has
\* found no inode, or by a transfer whose File structure has been taken meanwhile.
Waits(s) ==
  LET c == call[s]
      i == IF c.pc = "find" THEN c.ino ELSE FileOf(s, c.fd).ino
  IN
  \/ c.pc = "hung"
  \/ c.pc \in {"name", "reopen"} /\ (LeftLocked(Root) \/ LeftLocked(NameI(c.path)))
  \/ c.pc \in {"lock", "entry"} /\ LeftLocked(c.ino)
  \/ full /\ c.pc \in {"find", "close"} /\ (c.pc = "close" => IsOpen(s, c.fd)) /\ Frees(i)

\* Every command ends (main.cpp:136), or has come to a loop that cannot, or to a
\* lock that nobody will unlock.
CommandsReturn ==
  \A s \in Session :
    call[s].pc \notin {"idle", "out"} ~> (call[s].pc = "idle" \/ Stuck(s) \/ Waits(s) \/ dead)

=============================================================================
