------------------------------- MODULE FreeBlocks -------------------------------
(***************************************************************************)
(* The free-block list of server/FileSystem.cpp: Alloc, Free and Update,   *)
(* called by the sessions' threads and serialised by s_flock, over the     *)
(* groups of the data zone.  Blocks are read and written through the       *)
(* buffer cache, which BufferCache shows to be a plain store: a table here *)
(* is what a block last had written to it.                                 *)
(***************************************************************************)
EXTENDS DiskLayout

CONSTANTS
  Thread,
  NoOne,               \* the owner of a free lock
  SbOutcomes,          \* what Free's uninitialised sb can be (see FreeEnter)
  MaxFree              \* bound on the calls of Free

ASSUME ThreadAssumption == NoOne \notin Thread

ASSUME FreeAssumption == SbOutcomes # {} /\ MaxFree \in Nat

VARIABLES
  free,                \* s_free[0 .. s_nfree - 1] of the superblock in memory
  table,               \* what each data block reads as a free table
  fmod,                \* s_fmod
  flock,               \* the owner of s_flock
  saved,               \* the list in the superblock of the image
  pc,                  \* what each thread is about to do
  blk,                 \* the block it has popped or is freeing
  owned,               \* blocks that Alloc handed out and Free has not got back
  out,                 \* blocks handed out since Update last saved the list
  got,                 \* blocks given back since then
  spilled,             \* Free has written a table
  frees,               \* calls of Free so far, up to MaxFree
  crashed              \* the server has died

vars == <<free, table, fmod, flock, saved, pc, blk, owned, out, got,
          spilled, frees, crashed>>

changes == <<out, got>>

Pc == {"idle", "alloc", "load", "clear", "freelock", "free", "updlock", "save"}

List == {s \in Seq({0} \cup DataZone) : Len(s) <= Group}

TypeOK ==
  /\ free \in List
  /\ \A s \in DataZone : table[s] \in List
  /\ fmod \in BOOLEAN
  /\ flock \in Thread \cup {NoOne}
  /\ saved \in List
  /\ pc \in [Thread -> Pc]
  /\ blk \in [Thread -> {0} \cup DataZone]
  /\ owned \subseteq DataZone /\ out \subseteq DataZone /\ got \subseteq DataZone
  /\ spilled \in BOOLEAN /\ crashed \in BOOLEAN
  /\ frees \in 0 .. MaxFree

Init ==
  /\ free = SuperList
  /\ table = FormattedTables
  /\ fmod = FALSE
  /\ flock = NoOne
  /\ saved = SuperList
  /\ pc = [t \in Thread |-> "idle"]
  /\ blk = [t \in Thread |-> 0]
  /\ owned = {} /\ out = {} /\ got = {}
  /\ spilled = FALSE
  /\ frees = 0
  /\ crashed = FALSE

-----------------------------------------------------------------------------
Top == free[Len(free)]

Popped == SubSeq(free, 1, Len(free) - 1)

\* Mutant: s_nfree <= 1.
BottomTooEarly == Len(Popped) <= 1

\* s_nfree <= 0 after the pop: the block has the next table.
Bottom == Len(Popped) <= 0

\* s_nfree >= 100.
Full == Len(free) >= Group

Goto(t, from, to) == pc[t] = from /\ pc' = [pc EXCEPT ![t] = to]

\* Mutant: the lock is not waited for.
TakeNoLock(t) == flock' = t

TakeLock(t) == flock = NoOne /\ flock' = t

\* Mutant: the lock is kept.
KeepLock == UNCHANGED flock

Unlock == flock' = NoOne

\* Mutant: s_fmod is left alone.
MarkNothing == UNCHANGED fmod

MarkModified == fmod' = TRUE

\* --------------------------------------------------------------------- Alloc
AllocEnter(t) ==
  /\ Goto(t, "idle", "alloc")
  /\ TakeLock(t)
  /\ UNCHANGED <<free, table, fmod, saved, blk, owned, changes, spilled, frees, crashed>>

\* The last block of the chain is block 0: no space.  Alloc returns and nobody
\* unlocks s_flock.
AllocNoSpace(t) ==
  /\ Goto(t, "alloc", "idle")
  /\ free # <<>> /\ Top = 0
  /\ free' = <<>>
  /\ UNCHANGED <<table, fmod, flock, saved, blk, owned, changes, spilled, frees, crashed>>

\* Pop a block.  If it was the bottom one the lock stays taken.
AllocPop(t) ==
  /\ free # <<>> /\ Top # 0
  /\ Goto(t, "alloc", IF Bottom THEN "load" ELSE "clear")
  /\ flock' = IF Bottom THEN flock ELSE NoOne
  /\ free' = Popped
  /\ blk' = [blk EXCEPT ![t] = Top]
  /\ owned' = owned \cup {Top}
  /\ out' = out \cup {Top}
  /\ UNCHANGED <<table, fmod, saved, got, spilled, frees, crashed>>

\* Its table becomes the list.
AllocLoad(t) ==
  /\ Goto(t, "load", "clear")
  /\ free' = table[blk[t]]
  /\ Unlock
  /\ UNCHANGED <<table, fmod, saved, blk, owned, changes, spilled, frees, crashed>>

\* After the unlock: GetBlk, ClrBuf, and the superblock is marked modified.
AllocClear(t) ==
  /\ Goto(t, "clear", "idle")
  /\ table' = [table EXCEPT ![blk[t]] = <<>>]
  /\ MarkModified
  /\ blk' = [blk EXCEPT ![t] = 0]
  /\ UNCHANGED <<free, flock, saved, owned, changes, spilled, frees, crashed>>

\* ---------------------------------------------------------------------- Free
\* A caller frees a block of a file it has locked; no other thread has it.
Freeable == owned \ {blk[t] : t \in Thread}

\* Free stores through sb, which it never sets.  "wild" is what happens in the
\* build of the Makefile: the store or the lock faults.  "superblock" is the
\* stack slot still holding the superblock's address.
FreeEnter(t) ==
  \/ /\ "superblock" \in SbOutcomes
     /\ Goto(t, "idle", "freelock")
     /\ \E b \in Freeable : blk' = [blk EXCEPT ![t] = b]
     /\ frees < MaxFree /\ frees' = frees + 1
     /\ MarkModified
     /\ UNCHANGED <<free, table, flock, saved, owned, changes, spilled, crashed>>
  \/ /\ "wild" \in SbOutcomes
     /\ pc[t] = "idle" /\ Freeable # {}
     /\ crashed' = TRUE
     /\ UNCHANGED <<free, table, fmod, flock, saved, pc, blk, owned, changes, spilled, frees>>

FreeLock(t) ==
  /\ Goto(t, "freelock", "free")
  /\ TakeLock(t)
  /\ UNCHANGED <<free, table, fmod, saved, blk, owned, changes, spilled, frees, crashed>>

\* memcpy(p, sb->s_free, 100) copies 100 bytes: a quarter of the entries.
CopiedEntries == Group \div 4

FreePush(t) ==
  /\ Goto(t, "free", "idle")
  /\ IF Full
       THEN /\ \E stale \in {0} \cup DataZone :   \* the buffer is not cleared
                 table' = [table EXCEPT ![blk[t]] =
                             [j \in 1 .. Group |->
                                IF j <= CopiedEntries THEN free[j] ELSE stale]]
            /\ free' = <<blk[t]>>
            /\ spilled' = TRUE
       ELSE /\ free' = Append(IF free = <<>> THEN <<0>> ELSE free, blk[t])
            /\ UNCHANGED <<table, spilled>>
  /\ owned' = owned \ {blk[t]}
  /\ got' = got \cup {blk[t]}
  /\ blk' = [blk EXCEPT ![t] = 0]
  /\ MarkModified
  /\ Unlock
  /\ UNCHANGED <<saved, out, frees, crashed>>

\* -------------------------------------------------------------------- Update
\* s_fmod is tested before the locks are taken, and not again.
UpdateEnter(t) ==
  /\ Goto(t, "idle", "updlock")
  /\ fmod
  /\ UNCHANGED <<free, table, fmod, flock, saved, blk, owned, changes, spilled, frees, crashed>>

UpdateLock(t) ==
  /\ Goto(t, "updlock", "save")
  /\ TakeLock(t)
  /\ UNCHANGED <<free, table, fmod, saved, blk, owned, changes, spilled, frees, crashed>>

\* Mutant: what is saved lacks the last entry.
SavedShort == IF free = <<>> THEN free ELSE Popped

Saved == free

UpdateSave(t) ==
  /\ Goto(t, "save", "idle")
  /\ fmod' = FALSE
  /\ saved' = Saved
  /\ out' = {} /\ got' = {}
  /\ Unlock
  /\ UNCHANGED <<free, table, blk, owned, spilled, frees, crashed>>

Step(t) ==
  \/ AllocEnter(t)
  \/ AllocNoSpace(t)
  \/ AllocPop(t)
  \/ AllocLoad(t)
  \/ AllocClear(t)
  \/ FreeEnter(t)
  \/ FreeLock(t)
  \/ FreePush(t)
  \/ UpdateEnter(t)
  \/ UpdateLock(t)
  \/ UpdateSave(t)

Next == ~ crashed /\ \E t \in Thread : Step(t)

Spec == Init /\ [][Next]_vars

-----------------------------------------------------------------------------
(***************************************************************************)
(* Properties.                                                             *)
(***************************************************************************)

\* --s_nfree is done without a test: until Free writes a table, whoever is about
\* to do it finds an entry, so s_free[-1] is never read.
ListNeverEmpty ==
  ~ spilled =>
    \A t \in Thread : pc[t] = "alloc" => Len(free) \in 1 .. Group

\* s_free as Alloc, Free and Update rely on it: never overrun (s_free[100] is
\* never written), and, as ListNeverEmpty says, never underrun.
ListInv == TypeOK /\ ListNeverEmpty

\* No block is lost and none is handed out twice: until Free writes a table,
\* the blocks on the chain and the blocks handed out are the data zone, but
\* while Alloc is between its pop and the load of the next table.
BlocksConserved ==
  ~ spilled /\ (\A t \in Thread : pc[t] # "load") =>
    ChainIs(Chain(free, table), DataZone \ owned)

\* Update skips a superblock whose s_fmod is 0: the image then has the list,
\* unless an Alloc is between its unlock and its s_fmod = 1.
UnmodifiedMeansSaved ==
  ~ fmod /\ flock = NoOne /\ (\A t \in Thread : pc[t] # "clear") => saved = free

\* Two threads never have the same block in hand, whatever they do between the
\* unlock of s_flock and the end of their calls.
OneTaker ==
  \A t, u \in Thread :
    t # u /\ blk[t] # 0 /\ ~ spilled => blk[t] # blk[u]

\* The two together: a block is on the list, or one file's, or in one thread's
\* hands, at every step of the calls.
BlocksInv == BlocksConserved /\ OneTaker

\* "If the table is locked, another process is operating on it"
\* (FileSystem.cpp:297): the owner of s_flock is inside Alloc, Free or Update --
\* or, against that comment, is an Alloc that found the disk full and returned
\* without unlocking; then the list stays empty and everybody waits.
LockedMeansInUse ==
  flock # NoOne =>
    pc[flock] \in {"alloc", "load", "free", "save"} \/ free = <<>>

\* What a kill at this moment costs (Update runs only when a session exits,
\* SystemCall.cpp:76).  The next start takes the list of the last save, over the
\* tables as they are in the image: of a block handed out since, the zeros may
\* be there already (lost) or what it held before.  Then a block that a file has
\* and that is on the list is one handed out since the save, and only blocks
\* given back since are on no list -- unless the zeros have reached a block that
\* held a table.
SaveIsRecent ==
  ~ spilled =>
    \A lost \in SUBSET out :
      LET tables == [s \in DataZone |->
                      IF s \in out \ lost THEN FormattedTables[s] ELSE table[s]]
          listed == Blocks(Chain(saved, tables))
      IN  /\ listed \cap owned \subseteq out
          /\ (\A s \in lost : FormattedTables[s] = <<>>) =>
               DataZone \ owned \subseteq listed \cup got

=============================================================================
