# secondFileSystem in TLA+

The repository is a UNIX V6 style file system kept in one image file of 10000
sectors, with a server that runs one thread per logged-in client. This directory
models it in TLA+: the modules follow `src/server/*.cpp`, TLC checks them on
small instances, and TLAPS proves what is said below about every instance.

## 1. The system

| Part | State | Operations | Talks to |
|---|---|---|---|
| **Disk image** `Disk.cpp` | the mmapped image: superblock (2 sectors), inode zone (25), data zone (9973) | `initialize`, `init_superblock`, `init_datablock`, `Exit` (msync) | read and written by the buffer cache only, after start-up |
| **Buffer cache** `BufferManager.cpp`, `Buf.h` | 15 buffers `m_Buf` (`b_blkno`, `b_flags`, `b_addr`, `b_lock`), one list `bFreeList` through `b_forw`/`b_back` | `GetBlk`, `Bread`, `Brelse`, `Bwrite`, `Bdwrite`, `Bawrite`, `Bflush` | the image |
| **Free blocks, superblock** `FileSystem.cpp` | `s_free[100]`, `s_nfree`, `s_fmod`, mutex `s_flock`; tables in free blocks | `Alloc`, `Free`, `Update`, `LoadSuperBlock` | buffer cache; `Update` also calls `UpdateInodeTable` and `Bflush` |
| **Free inodes** `FileSystem.cpp` | `s_inode[100]`, `s_ninode`, mutex `s_ilock`, `d_mode` on disk | `IAlloc`, `IFree` | inode table (`IsLoaded`, `IGet`, `IPut`) |
| **Inode table** `OpenFileManager.cpp`, `INode.cpp` | 100 `Inode`s: `i_number`, `i_count`, `i_nlink`, `i_flag`, mutex | `IGet`, `IPut`, `UpdateInodeTable`, `NFlock`, `NFrele`, `IUpdate`, `ICopy` | buffer cache, `IFree`, `ITrunc` |
| **File contents** `INode.cpp` | `i_addr[10]`, index blocks, `i_size` | `Bmap`, `ReadI`, `WriteI`, `ITrunc` | buffer cache, `Alloc`, `Free` |
| **Directories, file operations** `FileManager.cpp` | directory entries, `u_cdir`, `u_pdir`, `u_dent` | `NameI`, `Open1`, `Creat`, `MakNode`, `WriteDir`, `UnLink`, `ChDir`, `Access` | inode table, file contents |
| **Open files** `File.cpp`, `OpenFileManager.cpp` | per-user descriptors, `m_File` (`f_count`, `f_offset`, `f_inode`) | `AllocFreeSlot`, `GetF`, `SetF`, `FAlloc`, `CloseF`, `Seek`, `Rdwr` | inode table |
| **System calls** `SystemCall.cpp` | `u_error`, `u_ar0[EAX]`, `u_arg` of the user | `Sys_Open`, `Sys_Read`, ..., `sys_Cat`, `Sys_Exit` | file operations |
| **Users, server** `UserManager.cpp`, `main.cpp` | map from thread to user, sockets | `Login`, `Logout`, `GetUser`, `start_routine` | system calls |
| **Kernel start-up** `Kernel.cpp` | the process from its start to `accept` | `Initialize` | all of the above |
| **Client** `client/main.cpp` | a socket | connects, then receives and sends in turn | server |

What makes it hard:

* *Threads.* A session thread may be anywhere in these calls while another is
  anywhere else. There are four locks (`b_lock`, the inode's `mutex`,
  `s_flock`, `s_ilock`) and much shared state is read before the lock
  that protects it is taken: `b_blkno` and `b_flags` in `GetBlk`, `i_number` in
  `IGet`, `s_fmod` in `Update`, `s_ninode` in `IAlloc`, the list in `Bflush`.
* *Crashes.* Delayed writes, inodes and the superblock live in memory until a
  session exits; a killed server loses them.
* *Half-done work.* `init_disk` can be cut off anywhere and leaves a file that
  the next start takes for a disk; a failed call leaves `u_error`, EAX, locks and
  references behind for the next one.
* *Boundaries.* The last group of the data zone, a full or empty free list, a
  pool whose buffers are all locked, the last reference to an unlinked file.

What each part owes the others:

* Buffer cache: a read returns the last write; a block never has two live
  buffers; a buffer in use belongs to one caller; every call returns.
* Disk image and free blocks: every block of the data zone is on the free list
  or in one file, never both, never twice; the list is never popped when empty;
  an unmodified superblock is on the disk.
* Inode table: one in-memory copy per inode, counted exactly, written back
  before it is forgotten; the last `IPut` of an unlinked file frees it; what is
  locked is locked by its user.
* File contents: each logical block maps to one block of its own; reading
  returns what was written at that offset; truncation frees every block once.
* Directories: entries name allocated inodes; `i_nlink` counts entries.
* Sessions: descriptors and `File`s are counted; errors are reported by the call
  that met them; every command ends.
* Server: each connection has one thread, each thread one user of its own;
  client and server speak in turn; the entry of a user who has gone comes back.
* Start-up: a start ends; a server that serves has a whole image.

## 2. The plan

| Step | Modules | What for |
|---|---|---|
| 1 done | `BufferQueue`, `BufferList` | the buffer list as pointers, refining it as a sequence |
| 2 done | `BlockStore`, `BufferCache`, `MCBufferCache` | what a cache owes, and the cache that implements it |
| 3 done | `BufferThreads`, `MCBufferThreads` | the same code step by step under threads |
| 4 done | `DiskLayout`, `DiskFormat` | the formatted image at its real size |
| 5 done | `FreeBlocks`, `MCFreeBlocks` | Alloc, Free, Update under `s_flock`, and what a kill costs |
| 6 done | `BufferCacheProofs`, the end of `ServerProofs` | the theorems about the cache, alone and under threads |
| 7 done | `InodeTable`, `MCInodeTable` | IGet, IPut, IAlloc, IFree, UpdateInodeTable, and the file calls over them |
| 8 done | `FileArray`, `FileData`, `MCFileData` | Bmap, ITrunc, ReadI, WriteI of one session, implementing files as arrays |
| 9 done | `Directory`, `MCDirectory` | names and paths: NameI, Creat, MkNod, UnLink, ChDir under several sessions |
| 10 done | `FileCursors`, `Session`, `MCSession` | descriptors, offsets, `u_error` and EAX across the commands, implementing private cursors |
| 11 done | `Server`, `MCServer` | accept, threads, Login, Logout, GetUser, and the clients |
| 12 done | `StartUp`, `MCStartUp` | Initialize, with kills and short writes, composing `BufferList` and `DiskFormat` |
| 13 done | `FreeBlocksProofs`, `StartUpProofs`, `FileDataProofs`, `DirectoryProofs`, `SessionProofs`, `ServerProofs` | for these modules every safety property of the runs, and the refinements of `BufferQueue`, `FileArray` and `FileCursors`, as theorems (section 6) |
| 14 done | `InodeTableProofs` | for one session exact counts, one copy per inode, names, lists and locks; for any table, disk and list |
| 15 | `FileData` over `BufferThreads` | two sessions that map blocks at once, with two and three buffers held |

`FreeBlocks` uses the guarantee of `BlockStore` (a block reads as last written)
instead of `BufferCache` itself; `InodeTable` does the same for the inode zone.
Abstract specifications: a block store with a durable copy (`BlockStore`), a
sequence (`BufferQueue`), files as arrays (`FileArray`), descriptors as private
cursors (`FileCursors`). `StartUp` composes `BufferList` and `DiskFormat`; `Session`
takes of `Directory` one directory, and `Directory` of `InodeTable` the count of
references; each says where the other has the rest.

## 3. The modules

### BufferQueue, BufferList

`BufferList` has `forw` and `back` with `bFreeList` as index `NBUF`; `Relink(bp)` is
the six assignments of `Bflush` (191-199), `InitializeBuf` a turn of
`Initialize`'s loop. Line 196 reads `b_forw` of the last buffer *before* it is
the moved one, so the moved buffer's `b_back` names the list head. `BufferQueue`
is the same list as a sequence `queue` with the set `stale` of those buffers:
moving a stale buffer drops every buffer in front of it. `Chain` is
what is reached through `forw`; `StartUp` shows that every step does to it what
`BufferQueue` says, from the first turn of `Initialize` on.

### BlockStore, BufferCache

`BlockStore` is what callers may rely on: `store` (what each block was last
written to be), `durable` (the image) and `view` (what the holder of a block
sees). `BufferCache` has the fifteen buffers (`blkno`, `flags`, `data`), `use`
(who checked the buffer out and how), `disk`, and `queue`/`stale` from
`BufferQueue`.

| Action | Code |
|---|---|
| `GetBlkHit`, `GetBlkMiss` | `GetBlk`: search, or victim with its delayed write |
| `BreadHit`, `BreadMiss` | `Bread`, reading the image unless `B_DONE` |
| `Brelse`, `Bwrite`, `Bdwrite` | the same; `Bawrite` is `Bwrite` |
| `Bflush` | the one delayed write that `Bflush` gets to |
| `Crash` | the server is killed and started again |

One action is one call: with a single session nothing interleaves. A call that
would wait is disabled, as the buffer it waits for is the session's own. What a
caller writes into a buffer is part of the `Bwrite` or `Bdwrite` that ends its
use: nothing else looks at the buffer meanwhile.

### BufferThreads

`GetBlk` and `Bflush` cut at every access to shared state: following `b_forw`,
comparing `b_blkno`, the read and the write-back of `b_flags |= B_BUSY`, locks
and trylocks, the `Bwrite` of a victim which unlocks it and the lock after it, and
each of the six pointer stores of `Bflush` (`Out1`, `Out2`, `In1` ... `In4`, lines
192-198), which no lock protects. If the buffer that is moved goes by a `b_back` that
is the head's and is the last one, the list is empty from `Out1` to `In2`; a `GetBlk`
that finds every buffer locked in that window takes `bFreeList` for the first
(`HeadFaults`: its zero-filled mutex can be locked, its `b_addr` is NULL). A store
reads and writes at once; that is exact while one thread rearranges, and `tangled`
records that two have been among their stores at once, after which nothing is
claimed. The contents are reduced to `B_DELWRI`. `pthread_mutex_unlock` frees the
lock whoever owns it: this is what the default mutex of the build does. Each thread
makes at most `MaxCalls` calls and holds one buffer at a time; nested calls (`Bmap`,
`ITrunc`) come with step 15.

### DiskLayout, DiskFormat

The constants of `FileSystem.h`, the loop of `init_superblock` and the loop of
`init_datablock`, a turn per step, at the real geometry. The table of the last
group is copied to sector 10026, past the end of `datablock[]`: it lands on the
heap (the module leaves the image as it is, which is what the write after it
puts on the disk). The list stays whole only because that group is also the
superblock's. `StartUp` runs the loop and checks what comes out.

### FreeBlocks

`Alloc` (`AllocEnter` ... `AllocClear`), `Free` (`FreeEnter` ... `FreePush`) and the
superblock part of `Update` (`UpdateEnter` ... `UpdateSave`), cut at `s_flock`. The
cut after the unlock is where other threads see a block that is on no list, and
`s_fmod` still 0. `owned` is what the files have. Two things the code leaves
undefined or broken are choices of the model:

* `Free` stores through `sb`, which it never sets. `SbOutcomes` has "wild" (the
  store or the lock faults: `crashed`) and "superblock" (the stack slot still
  has the superblock's address). The build faults on the first `Free`.
* A full list is spilled with `memcpy(p, sb->s_free, 100)`: 25 of 100 entries. The
  others are what the buffer held, any block number here.

`Alloc` on a full disk returns with `s_flock` taken (325); no action frees it.
`saved` is the list in the image; `out` and `got` are the blocks popped from the
list and handed out since it was saved. A kill is not an action: `SaveIsRecent`
says of every state what a start from the image would find then, whichever of the
new contents of the blocks in `out` have reached it.

### InodeTable

The table of in-memory inodes with everything that drives it: what each call of
a session (path walk, open, creat, mkdir, rm, cd, read, write, close, save) does
to inodes, their mutexes, the inode zone, `s_inode` and the directory entries.

| Actions | Code |
|---|---|
| `GetLoaded`, `GetLock`, `GetUnloaded`, `GetFree`, `GetName`, `GetFill`, `GetNone`, `GetNoVictim` | `IGet`: the test, the wait, the search, the number, the filling; NULL and what callers do with it (`Return`: `NameI` does not look at it at its start) |
| `PutLast`, `PutWrite`, `PutRelease`, `PutClear`, `PutShared`, `PutDec` | `IPut` with `IFree` and `IUpdate` in it |
| `IAllocScan`, `IAllocNone`, `IAllocPop`, `IAllocBelow`, `IAllocTaken` | `IAlloc` |
| `NameI`, `Walk`, `NewName`, `Victim`, `UnLink`, `MakNode`, `WriteDir`, `WriteDirFull` | `NameI`'s exits and their callers; a full disk may keep `WriteDir` from writing the entry, which `MakNode` does not look at |
| `Open1`, `Open1Fails`, `GiveUp`, `ChDir`, `ChDirEnd`, `Close`, `Rdwr*` | the file calls |
| `Update`, `UpdateSkip`, `UpdateTake`, `UpdateSync`, `UpdateEnd` | `UpdateInodeTable` |

`pc` is where a thread is, `goal` what it called `IGet` for, `then` where it goes
on after `IPut`. An inode's contents are reduced to its fate: "free" (`i_mode` 0),
"linked", "unlinked" (`i_nlink` at most 0; the root is so, as `init_disk` leaves its
`d_nlink` 0). `left` counts the references that failed creations leave behind with
the directory locked; `nameless` remembers the inodes that a full disk has left
without a name. `wrecked` stops the model where the code reads
`s_inode[-1]` or follows a NULL. All properties but `ExclusiveIO` are about one
session. For several, more would have to be cut: the loads and stores in `i_count--`
and `i_flag |= ...`, and the scan of `IAlloc`, are steps here. Left out as well:
removing directories, directories deeper than one, and how long directories are, so
that `WriteDirFull` is possible at any entry; and that s_flock stays locked after it
(`FreeBlocks` has that). `SumOf` and
`Ascending` (the inodes that the scan collects, in its order) are defined by
cardinalities, which the prover can reason about. `BootAssumption` is what a
format or an exit leaves in the image: an inode has one name at most, and
`s_inode` lists, each once, inodes without a name.

### FileArray, FileData

`FileArray` is what files owe their readers: an array of units and a size for each.
`FileData` has `addr` (`i_addr`), `size`, what every block was last written to be
(`store`), the free list, and where the call is. `Rdwr` starts a call,
`MapDirect`/`MapFirst`/`MapSecond`/`MapLast` are the parts of `Bmap` that may call
`Alloc` once each, `ReadTurn`/`WriteTurn` the rest of a turn of `ReadI`/`WriteI`,
`ITrunc` frees everything in the code's order. `buf` is the buffer of the index
block `Bmap` holds (`tab`): `Alloc` clears the buffer, not the block, so a release
without a write (342, 299) leaves in the block what was there. A block is
`PerBlock` ints, as an index and as data alike, and a stale one is followed. A read
of a hole allocates it, as in the code. Left out: `f_offset` (a call starts
anywhere), a count of 0, several sessions, and what `FreeBlocks` says of `Free`.

### FileCursors, Session

`FileCursors` is what sessions may rely on: each descriptor is a cursor of its
own, a read moves it by what it answers, a write by what it takes, a failed
call moves nothing. `Session` has the table of `File`s, the `User` of each session
(`ofiles`, `error` for `u_error`, `eax`) and the commands of `main.cpp` over the
`Sys_` calls.

| Actions | Code |
|---|---|
| `NewCommand` | a command that goes on in a step of its own: the line has been read |
| `Open`, `Creat`, `Reopen` | `Sys_Open`, `Sys_Creat` up to the search of `FAlloc`; `Reopen` is fin's second open |
| `FindFile`, `TakeFile` | `AllocFreeSlot` and `FAlloc`, cut between finding a structure and taking it |
| `Read`, `Write`, `Loop` | a system call's `Rdwr` up to its `NFlock`: from the user, or a turn of ls, `sys_Cat`, `Sys_ReadOut`, `Sys_ReadIn` |
| `RdwrLock`, `Turn`, `TurnFails`, `TurnHangs`, `RdwrEnd` | `NFlock`; a block of `ReadI` or `WriteI`; `Bmap` giving up; `Alloc` waiting for `s_flock`; offset, `NFrele`, EAX, and what the command does with them (`After`) |
| `LsEntry`, `Seek`, `Close` | the `IGet` of ls, and one call on a descriptor |
| `Rm`, `Cd` (also mkdir), `Exit`, `Login` | as far as descriptors, references, locks and `u_error` go |
| `Stray` | an inode is unlocked by somebody who has not locked it |

Nothing makes a read or a write one step. `IPut` unlocks the inode it gives back
whether or not its caller has locked it (`OpenFileManager.cpp:239`), so does ls with
its directory (`main.cpp:211`) and `UpdateInodeTable` (250). `Close` and `FindFile` have
that `IPut` in them; the others (cd, mkdir and rm, whose paths are in `Directory`, ls,
the saving of inodes) are `Stray`: any locked inode, any time. `torn` records that a
session in the middle of a transfer has lost its lock, or that its `File` structure has
been given to another file meanwhile.

A file is its length in units of 32 bytes (an entry of a directory), with `sparse`
for files that a read may have to allocate blocks for. `full` is an `Alloc` that has
found no space and has left `s_flock` locked (`FileSystem.cpp:325`): from then on what
allocates or frees a block waits for ever (`Hang`, `TurnHangs`, the guard of `IPut`), with
the inode that it has locked, and an exit may, as it saves the superblock. Of `u_error`
only whether it is set is kept: `Blocked` is the test in `ReadI`'s and `WriteI`'s loops.
`left` are the references known to be lost; `heap` has the freed `User` structures,
one of which the next `Login` may get as it is.

### Directory

`kind`, `nlink` and `entry` are the inodes and the entries of the directories. A walk
takes one step per component, from where `NameI` has let one directory go to where
it has got the next inode (536-537); a removal is cut where `UnLink` unlocks its
directory (758), before it writes the entry at the offset it has found. A creation is
cut between the search, which notes the slot (`NewName`), and `IAlloc` with `WriteDir`
(`Make`): `NameI` locks the directory for it, but that lock keeps nobody out, as every
`IPut` of another session's path, and ls, unlocks it (`OpenFileManager.cpp:239`,
`main.cpp:211`). So no step waits for a lock here. `Make` writes whatever slot it has
noted, whatever has come there since, and on a full disk it may fail to lengthen the
directory, which `MakNode` does not look at; `NoInode` is an `IAlloc` that finds none.
`Goes` is `IPut`'s test for the last reference of an unlinked inode, `Refs` the
references that outlive a step. `astray` and `raced` record that a walk has come to
an inode that was freed meanwhile, and that two removals have found one entry or two
creations have been under way in one directory.

### Server

`Accept` is `main`'s loop, with the one `connectfd` whose address every thread gets;
`Start` ... `Home` a thread up to its home page, with `Login` cut at each access to
`p_users` and `user_addr`; `OneByte`, `Answer`, `Crash`, `Exit`, `HangUp` the command
loop; `Left` is `Logout`. `Connect`, `Receive`, `Type`, `Leave` are a client. A
connection is a stream each way: `recv` takes what is there together
(`Together`), an answer of more than 2048 bytes arrives as "full" and "part". `hasty`,
`rushed`, `muddled` and `lengthy` record the races and the long answers that the
properties except. Two threads inside the `std::map` at once is undefined: an
insertion may be lost, or the process end.

### StartUp

`Initialize` from an empty memory to `accept`: a turn of `BufferList`'s loop, a turn of
`DiskFormat`'s loop and each of the three writes are steps; `Kill` is possible
anywhere, `WriteShort` at each write. Of the file its length in sectors is kept.
`LoadRoot` and `LoadRootFaults` say which sectors the rest of `Initialize` reads, and
that behind the mapping there is SIGBUS. While it serves, `BflushMove` and
`SessionFaults` are what sessions do.

## 4. The runs

| Run | Instance | States | Shows |
|---|---|---|---|
| `start_up` | the real geometry, 5 buffers, files cut at 4 places | 28475 | the pointers do to the list what `BufferQueue` says; a new image has every block on its list once; a start ends, makes nothing of a file that is there, and serves a whole image unless an `init_disk` was cut off |
| `cache_store` | 3 buffers, 4 blocks, 2 contents, 2 held | 315094 | `CacheInv` and the refinement of `BlockStore`: reads return the last write and a crash costs delayed writes only, whatever `Bflush` did to the list |
| `threads_owners` | 3 threads, 2 buffers, 3 blocks, 2 calls, nobody flushes | 421111 | a buffer between lock and release is its owner's and keeps its block; it changes hands only while `GetBlk` waits for it |
| `threads_return` | 2 threads, 3 buffers, both flush store by store, 3 calls | 602256 | the list is empty only between lines 192 and 197 of a `Bflush`, and under weak fairness every call returns unless `GetBlk` takes the head for a buffer then, or two `Bflush` are among their stores at once |
| `threads_delayed_write` | 2 threads, 2 buffers | violated | `b_flags \|= B_BUSY` without the lock wipes out a delayed write |
| `free_blocks` | 2 threads, groups of 4 | 3787223 | until a table is spilled: no block lost or handed out twice, no empty pop, an unmodified superblock is on disk, a kill costs no more than the calls since the last save; `s_flock` is left locked by a failed `Alloc` only |
| `inode_files` | 1 thread, 3 entries, 4 inodes, lists of 2 | 3063987 | counts are exact, one copy per inode, names lead to linked inodes and unlinked ones live while open, only a full disk leaves a linked one without a name, listed inodes are free, a session waits only for a lock it left behind itself, only the root's number leads `IAlloc` below its list |
| `inode_exclusive` | 2 threads | violated | a close unlocks the inode in the middle of another session's read |
| `file_array` | 2 files, 6 blocks of 2 ints, 1 direct entry, 5 calls | 85440 | each file is an array of its own; every block is free or in one place of one file, until a full disk tears an index block |
| `session` | 2 sessions, 2 descriptors each, 2 `File`s, 2 files of 2 blocks, 3 commands | 558469 | `FileCursors` is implemented but for the disturbed transfers that section 5 names, `File`s and references are counted exactly, commands end or wait for a lock that is lost, a failed open of ls or cat touches no other file |
| `directory` | 2 sessions, 4 inodes, 6 paths, 5 commands | 1597472 | until removals or creations overlap in one place: names are unique and name one inode each, a removal clears what it has found, `u_curdir` leads to `u_cdir`, and what is lost was in a removed directory, revived, or never got its name |
| `server` | 2 clients, 3 entries, 4 lines | 423669 | one thread a connection, one user a thread, client and server in turn, waiting clients hear of the server, entries come back |

**Invariants.** A run names its invariants as conjunctions of named parts, and the type
invariant of the module is in the first: `ListInv` (`RingCloses` in `StartUp`,
`ListNeverEmpty` in `FreeBlocks`, `ListedAreFree` and `PopsFree` in `InodeTable`),
`BlocksInv` (`BlocksConserved` and `OneTaker` in `FreeBlocks`, `BlocksOnce` in
`FileData`), `TableInv` (`CountsExact`), `CountsInv` (`FilesCounted` and `RefsExact`),
`NamesInv` (`NamesDiffer` and `NamesOneInode`), `OwnInv` (`OwnConnection` and
`OwnUser`).

**Bounds.** Fewer buffers than blocks, so that every run evicts; three buffers is the
smallest list in which a stale buffer has one in front and one behind. Two
contents distinguish old from new. `MaxHold` 2 of 3 buffers leaves a victim (the
code holds at most 3 of 15, in `ITrunc`). Groups of 4 blocks make the free
list run through loads, spills and its end within a few calls; the real group
size is checked by `start_up`. `MaxCalls` and `MaxFree` bound counters only:
each thread can evict, wait and be overtaken within them. In `inode_files` the disk has a
directory with a file, three entries are fewer than the inodes in use (root,
directory, two open files), and lists of 2 are full at first and run out: the
scan, a full list at `IFree`, a full table and an empty disk all occur. In
`file_array` a block of two ints and one direct entry make a largest file of 13
blocks; the offsets start or cross into the direct, both kinds of indirect and
the first block too many, transfers of 3 units split at block boundaries, 6
blocks run out at each of Bmap's four Allocs, and the first block to be given out
has a free table in it. `MaxCalls` 5 is enough to write, truncate, let another
file take the blocks, and read. `MaxOpen`
bounds open files; `MaxLeft` the creations that fail in one directory (the
session that fails one can never enter it again). The first list of `BootLists` is a
full one of a fresh disk, the second the empty one that a session's exit saves
while another has popped the last. Symmetry permutes
contents-free model values (blocks that are not sector 0, threads, contents).

In `session` two `File`s for four descriptors make the table run out, one in-memory
inode makes `IGet` fail, blocks of one unit cut a transfer of two in the middle, and
a request of three is more than the buffer; three commands are enough to open, fail and
use what is left, by two sessions. The name that is typed is there or has to be made,
the largest file has two blocks, offsets up to 2, so that a file has a hole, an end
and something behind it. A creation in a directory that is as large as a file can be
does not occur there; the theorems have it. `threads_return` looks no further than a state in
which two relinkings overlap (`CONSTRAINT Untangled`), of which its properties say
nothing. `directory` has a
tree with a free entry in front and a file one level down; five commands between
two logins cover a removal inside a walk, a creation in the gap, two of them, and the
reuse of a freed inode; its two sessions are one user's and alike, so it is run up to
their exchange. In `server` three entries, of which any subset is taken, cover a
full table; two clients meet in every pair of steps, and four lines are a name, a
command and an exit with one to spare. The cuts of `start_up` are an empty file, one
with a superblock, and files that end inside the inode zone, before and behind
the inodes that mkdir takes, and in the data zone.

**Fairness.** `BufferThreads.FairThreadsSpec` has weak fairness of `ThreadStep(t)` for each thread: a
thread in a call runs when it can. Nothing makes a thread start a call. A lock
step is only weakly fair; that is enough because calls are finite in number, so
a lock cannot be taken from a waiter for ever. `CallsReturn` does not claim
more than that: with unlimited callers pthread mutexes promise no turn.
`Session` has weak fairness of `Step(s)`: a thread goes on with its command, also to a
lock that is free; no user need type one (`Begin`), and nobody need unlock what another
holds (`Stray`). That is enough, again, because commands are finite in number. `Server` has it for `Accept`, for each thread, and for a client's
`Receive`, and for its leaving once the server has ended (`recv` gives 0 then); no
client need connect, type or be killed. `StartUp` has it for `Initialize`: a process
runs on; nobody need start it again, and it may be killed at any point.

**Deadlock.** `CHECK_DEADLOCK FALSE` is set where the bound on calls or lines ends a
run, and where the code really stops (a crash, the leaked `s_flock`,
an inode left locked).

## 5. What the code does against its own words

The two violated runs are disagreements between code and comment, quoted in
`PROJECT.json` under `findings`. Others were met while modelling; each is part of a
module, and the property named next to it says how far it goes.

*Buffers.* `Bflush` ends after its first delayed write because it moves the buffer
its loop stands on (`BufferCache`); it takes other buffers out of the list with the
one it moves (`BufferQueue`); it unlocks buffers it has not locked, so `OwnersWork`
needs that nobody flushes; its stores leave the list empty for a moment, in which
another thread may take the list's head for a buffer (`ListNotEmpty`, `HeadFaults`). `GetBlk` waits for a buffer it found under a block number
and returns it even if it has another block by then (`BlockStays` says that this is
the only way to get one).

*Blocks and inodes.* `init_datablock` writes past its array. An `Alloc` on a full
disk keeps `s_flock` (`LockedMeansInUse`). A full list is spilled with 25 of its 100
entries (`BlocksConserved` ends there). The list of free inodes has the root at its
bottom, so that `IAlloc` takes it for usable when nothing else is on it and goes on
to `s_inode[-1]` (`PopsFree`); it may ask for the root while it has it locked
(`WaitsForItself`). A full disk may leave an index block unwritten (`torn`). A failed
creation leaves its directory locked, and `UnLink` follows a NULL (`left`,
`wrecked`), and a full disk a linked inode that has no name (`nameless`). All of
`inode_files` is said of one session: `IGet` and `IPut` are not safe for two, which may
fill one entry one after the other and count `i_count` down in one another's middle.

*Directories.* Two removals of one entry both take a link and clear the entry,
whatever is in it by then (`raced`); two creations in one directory can give one name
twice or write one slot (`raced`); a walk can come to an inode that has been freed
and used again between `IPut` and `IGet` (`astray`). A directory is removed with
what is in it, and touch of a file that is being removed brings back an inode
without a name; so does a creation whose entry does not fit on a full disk
(`Unnamed` in `OrphansFromDirectories`). `u_curdir` stays when the directory is
cut off (`CurDirAgrees`).

*Sessions.* `FAlloc` can give one `File` to two sessions (`Shared`). A close of one
session unlocks the inode that another reads, and a touch then empties the file in the
middle: the answer is of no file there has ever been (`torn`, `Disturbed`; it is the
run `inode_exclusive` seen from the user). After a disk has been full, what allocates
or frees a block never returns, nor what comes to an inode that such a call has
locked (`Waits`). A failed call
leaves `u_error` for the next read, write or seek, which then do nothing
(`FileCursors` has failing calls for it). ls and cat do not notice that their
open has failed and go on with the EAX of an earlier call (`LeavesOthersAlone`);
ls, cat and fout never end when their reads fail with a positive EAX
(`CommandsReturn`, `Stuck`). Each ls loses a descriptor and a reference per entry
(`RefsExact`, `left`); touch and fin leave a descriptor open. A seek answers 0,
whatever the position. A read of more than 2048 bytes returns before it sets its
error code. `Logout` closes nothing, and `Login` may hand the freed table of
descriptors to the next session (`Inherits`).

*Server.* Two accepts in a row can give both threads the second connection
(`hasty`); two logins can take one entry (`rushed`) or spoil the map (`muddled`). The
51st user's `Login` fails unnoticed and the first `GetUser` ends the server, as does
a line of blanks, a client that has closed its connection in the command loop, or a
number that does not fit an int (`Crash`). A client that goes before it has given a
name leaves a thread that asks for ever. A one-letter command is not answered and
both sides wait (`Ignored`); after `EXIT` nobody serves the connection any more, and
it stays open (`Deserted`).

*Start-up.* An `init_disk` that is killed or runs out of space leaves a file that
each later start takes as it is: an empty one cannot be mapped and no start gets
further, one with a superblock only serves without a root directory, a longer one
ends the server with SIGBUS when a session comes to what is missing
(`ServesWhole`).

## 6. The proofs

A theorem holds for every value of the constants that meets the named assumptions of
its module: any number of buffers, threads, sessions, clients, files and blocks, any
geometry, block size and image. The proofs of a module `M` are in `MProofs`. An
invariant of a run is seldom inductive; what each proof adds is this.

### The buffer cache

* `TypeCorrect`, `CacheCorrect`, `LiveAlwaysFound` (`BufferCacheProofs`). "A
  live buffer is found first" is not inductive alone. `CacheInv` adds that no
  buffer is twice in the list (`Requeue` would otherwise drop or duplicate
  one), that `B_DONE` goes with a delayed write (a `Bread` of a `B_DONE` buffer does
  not look at the image), and that what was read and is still held agrees with
  the image. The key step is `Bflush`: the buffers it drops are in front of the
  *first* delayed write, so none of them is dirty, and nobody holds a buffer.
* `CacheImplementsStore` (`BufferCacheProofs`): from `CacheInv`, each call maps to a
  step of `BlockStore` or to a stutter under the mapping `Written`/`Seen`.
* `ThreadsTypeCorrect`, `ListKept` (at the end of `ServerProofs`, which has the
  proofs about threads): a thread whose place says it has a buffer never has
  `bFreeList`, which each loop of `GetBlk` and `Bflush` tests, but for the wait for the
  first of no buffers (`HeadFaults`). When the list is empty is `ListOK`: until two
  relinkings overlap there is one thread at most among its stores (`OneRelinks`), and an
  empty list is one that this thread has emptied, between lines 192 and 197, by taking
  out a buffer with the head on both sides (`EmptiedBy`), whatever the other pointers are.
* `OwnersCorrect`, `BlockStaysHolds`, both with `Flusher = {}`: `OwnersWork` and no
  thread inside `Bflush` is inductive; each lock step takes a free lock and each
  unlock is the owner's, so that the one step that gives a buffer another block
  (`Claim`) is the owner's too. With a flusher `OwnersWork` is false (section 5), and
  so is `BlockStays` not claimed: no run checks it there either.

### Start-up and the image

`StartUpProofs`. The invariant of the list is `Ringed`: some sequence `q` of buffers is
threaded through `forw` from the head and back to it, position by position, and each
`b_back` is the buffer in front *or, wrongly, the head*. The lemmas `Inserted` and
`Moved` follow the pointer assignments of `InitializeBuf` and `Relink` through the
positions of `q`; a stale buffer that is moved drops what is in front of it. `Chain` and
`stale` are then functions of `q` (`ThreadedIs`, `StaleIs`), which gives
`ImplementsQueueHolds` and `ListInvHolds`. `Life` says for each place in
`Initialize` how long the file is and whether a write was cut off; `ServesWholeHolds`
follows. `ZoneOnTheListHolds` is the loop of `init_datablock` turn by
turn (`FormatTurn`): the tables it has written by then are those of the formatted disk,
whose chain is `FormattedChain` of `FreeBlocksProofs`, used through an `INSTANCE`.

### Free blocks

`FreeBlocksProofs`. The list of a formatted disk is a stack: blocks go out from the
top of the zone downwards in groups. `Placed` says where the stack is: `Stacked`
(above the bottom entry of the list every block is listed or handed out, below it the
tables are still the formatted ones), or one thread is `Loading` the next table, or the
disk is `Exhausted`. From it `ListInvHolds`; `BlocksInvHolds` needs in addition what
the chain below a list is, layer by layer (`Layers`, `ChainLists`), for the blocks of
the whole zone, counted once each. `SaveIsRecentHolds` has an invariant of its own,
`Recent`, about the image's list: tables at or below its bottom are as formatted
except where the block was handed out since the save and may have been cleared.
`LockedMeansInUseHolds` and `UnmodifiedMeansSavedHolds` follow the lock and `s_fmod`.
`GeometryAssumption` (the data zone is not a whole number of groups, which with the
real numbers it is not) is what the code needs: otherwise `init_datablock` would make an
empty last group.

### File contents

`FileDataProofs`. A *place* is an entry of `i_addr`, an entry of the table that one names,
or an entry of a table below that: a tuple of file, entry and up to two indices, with
`Up` its index block. `Tree` is what is at each place, `Shown` what the blocks show,
which for the index block that Bmap has in hand is its buffer, not the store. The
inductive invariant is

* `Whole`, until an index block is left unwritten: no block is at two places, the free
  list lists exactly the blocks at no place (`Sound`), and what Bmap has looked up so
  far is what is at the places on its way (`LookedUp`);
* `InHand`: what was tested before still holds (the block number is below `HUGE`, the
  offset of a read below the size), and the buffer in hand is the store's contents or,
  fresh from Alloc, cleared;
* `TornMeansStuck`, and the types.

A block that Alloc gives is entered at an empty place (`GivenOut`), is cleared, and so
adds no other place: `EnteredTop` and `EnteredBelow` are the two ways. `DataPlaceIs`
and `DataPlaceApart` are the arithmetic of Bmap for every `PerBlock` and `SMALL`: the
place of a logical block exists, and different blocks of a file have different ones,
as the digits of a number tell numbers apart. With them a write changes the units it
names and no others (`WrittenContent`), and entering an empty block changes none
(`EnteredContent`). What ITrunc collects is every block of the file once: `Lists(s, S)`
(a sequence has the members of a set, each once) is carried through `Descending`,
mapping, `Append` and `FlattenSeq` to `FileBlocks`. `BlocksInvHolds`,
`TornMeansStuckHolds` and `ImplementsArrayHolds` (each action a write, a read, a
truncation of `FileArray`, or nothing seen) follow. The order of the free blocks at
the start, `Descending`, is defined by the rank of its members: the prover has no
definition of a sort. `FileAssumption` asks for finitely many files and blocks.

### The inode table

`InodeTableProofs`. All five theorems are about one session (`Cardinality(Thread) = 1`); for
two, the properties are not expected to hold. *The counts.* `TableOK` is `TableInv` and,
for the thread, `Call`: what its `ent`, `kept` and `then` can be where its call is (it holds
a second reference exactly between the calls of `IGet` and `IPut` that need one). A
step moves `count - left` of each entry by as much as the thread's
references to it (`Moves`): it takes one (`Taken`), gives one back (`Returned`), leaves one
for good (`LeftBehind`), or changes nothing. Each handler's lemma (`IGetMoves`,
`IPutMoves`, `IAllocMoves`, `SessionMoves`, `UpdateMoves`) shows which; `MovesKeepCounts` does
the sum once, from `SumMoves`: a sum of which one summand changes.
`TableInvHolds` follows, a full table and a full disk included.

*The rest.* None of `OneCopy`, `FilesKept`, `ListInv`, `WaitsForItself` is
inductive, and each needs the others; the invariant is in layers, each from the ones
before and itself:

* `Uses`, from the counts alone: an entry with count 0 is nobody's, and the last
  reference that `IPut` gives back is the only one;
* `Copies`: an entry in use has an inode of its own, but while `IPut` has forgotten it;
  what `IGet` has chosen is what was asked for. `OneCopyHolds`;
* `Saved`: what is in memory without IUPD is on the disk. `IPut` forgets an inode only
  after that, so `Latest(n)`, the copy or else the disk, changes where the code means it
  to and nowhere else (`StepMoved`): at `IFree`, `UnLink`, `ITrunc`, `MakNode`;
* `Fates`: no two names for an inode, a name leads to a linked one, an inode without a
  name is open or in creation or was left so by a full disk (`nameless`, and is then
  linked for good), a free one is in memory only at the two ends of its life;
* `Listing`: what `s_inode` lists is free, each once; a number that was popped is still
  free and off the list while `IGet` fetches it, or is the root's;
* `Aims`: what the call has found in the directories is still there when it acts on
  it: the name it opens, the entry it removes, the free entry it writes;
* `Locks`: a locked inode is the call's own, or a failed creation has left it.

`CopiesHold` proves the first two for all behaviours, `AllKept` the others on top of it;
the three theorems then are consequences of one state. Each layer was checked
with TLC as an invariant of `inode_files` before it was proved.

### Directories

`DirectoryProofs`. `Tidy` is: what is no directory has no entries (`Bare`), the
directory that a creation has in `u_pdir` is not freed (`Opened`), and, unless two
removals have met at one entry or two creations in one directory (`raced`), no directory
has a name twice (`NamesOnce`), no inode two names (`Unique`), a name's inode is in use with
`i_nlink` 1 (`Backed`), and each pending call is `Ready`: the entry that a removal has
found is there still, the slot that a creation has noted is free and its name still
new, and no two calls write at one place (`Apart`). No lock is used for this: what keeps
a pending call's place as it is, is that the only steps that write entries are those of
other pending calls, and those have other places. `Ready` is what makes
`ClearsWhatItFoundHolds` inductive: `UnLink` writes at an offset it found before it let the
directory go. `NamesInvHolds` is its consequence. For `OrphansFromDirectoriesHolds` (an
action property) there is for each step a lemma on what it can lose: `Lost` has the
inodes in use without a name, a reference or a call that works on them.
`BootAssumption` says of the image in the start what `Tidy` says of every state.

`CurDirAgreesHolds` is about paths. The entries are a set of edges (`Edges`), at most one
into an inode and none into the root (`TreeLike`); `Comes` is a walk along names from the
root, `Near` the least set with the root that no edge leaves. A step takes edges away
(`NearShrinks`: what is still near is where it was) or gives an inode without edges of
its own its first name (`NearGrows`: nothing else comes near by it), and so keeps the
path of every inode that is near (`Keeps`). The invariant, `Agree`, is that `u_curdir` is
the path of `u_cdir` (`Sits`) and, since a cd takes several steps, that a walk has come
where the names lead that it has used so far (`Along`). That is lost when the inode
it goes on with is freed and used again, which `age` tells (`Fresh`): NameI lets one
directory go before it gets the next. `LeadsThere` shows that NameI, from the root, follows
such a walk: there is one function that satisfies the equation in `Leads`.

### Sessions

`SessionProofs`. `CountsInv` counts the descriptors that name a `File` and the `File`s
and calls that use an inode, as cardinalities of sets; the lemmas `Toggle`, `OpeningStep`,
`UsingStep` and `HeldStep` say what one element more or less does to them. `Kept` adds
what a session is at whoever else does what (`Sound`): the descriptor that `Open1` has
found stays free, only ls and cat loop without a file of their own and only with
`u_error` set, and the root directory is never open for writing. `Inv`, the two
together, is inductive.

`ImplementsCursorsHolds` needs in addition `Untorn`: a transfer whose session is not
`torn` holds its inode, its `File` structure is that of its inode, and what it has moved
so far is in the file. A step that would break it tears: whoever unlocks the
inode marks those who transfer it (`Spares`), whoever takes their `File` structure too
(`Leaves`), and another transfer of the same inode cannot begin meanwhile. So what an
untorn read or write answers at its end was there all along or has been put there by
it alone (`TransferIsTrue`), although it goes block by block. Unless a `File` has been
given out twice (`Shared`), a `File` has one descriptor (`Alone`), so a step moves one
cursor; the lemmas on each action show that it is a step of `FileCursors` or none
(`Right`, `Acts`), or ends a disturbed transfer, or inherits a table.
`LeavesOthersAloneHolds` is that a loop with `u_error` set moves nothing. Assumed:
finitely many sessions, directories within `MaxOff`, and that no
`Nobody` is taken for a cursor.

### Server

`ServerProofs`. `OwnInvHolds` adds to `OwnConnection` that a thread which has not read
`connectfd` yet is to find its own connection there (`StartsOwn`), and to `OwnUser` the
life of an entry from `FindSlot` to `Logout` (`SlotsKept`): found and free, for one
thread; taken; in `user_addr`. `InTurnHolds` needs `Talks`: a connection waits to be
accepted once, is silent until its thread runs, and of the line, the answer and
the two parties at most one is on its way.

### Methods

Induction over numbers is taken from the well-foundedness of `Nat` in the library: what
is to be shown of every number is given as the *set* of the numbers it holds for
(`InductionTo`), as no prover here can instantiate a theorem with an operator. That
makes the chains, heaps, layers and flattened sequences above provable. A recursive
function is replaced by any function that satisfies its equation, after showing that
there is one.

### Only model-checked

* Liveness: `CallsReturn`, `CommandsReturn`, `Answered`, `SlotsReturned`, `StartEnds`. The
  prover has no rules for fairness and `ENABLED`.
* `BlockStays` and `OwnersWork` have no claim with a flusher, nor `InodeTable` for two
  sessions; the two violated runs are
  counterexamples, not theorems.

## 7. Not modelled

* I/O errors (`B_ERROR` is never set), failed `malloc`s, `msync` in `Disk::Exit`.
* Code without a caller: `InCore`, `IOWait`, `IODone`, `GetError`, `NotAvail`, `Link`,
  `Clone`; pipes, mounts and group ids, which are commented out; permissions of a
  user who is not root, since `Login` makes everybody root.
* The characters of names, paths and contents: copies of a path into its buffer,
  names cut to 28 characters, the lower case that the command loop makes of a
  line, logging, and the text of the answers.
* The set-up of sockets, and the outside files of fin and fout beyond the number
  of pieces.
* Several sessions inside `Bmap` and `ITrunc` at once (step 15 of the plan); what two
  `Bflush` that are among their stores at once leave of the list; overlapping reads and
  writes of `i_flag` and `i_count`; two scans of `IAlloc` at once. `ClrBuf` is the contents given to the write
  after it.
* A restart over files and directories: `BufferCache` and `SaveIsRecent` say what a
  crash leaves of blocks and of the free list, `StartUp` what a start makes of the
  image; which of the inodes and entries agree afterwards is not modelled.
