------------------------------ MODULE BufferCache ------------------------------
(***************************************************************************)
(* server/BufferManager.cpp as one session drives it: the fifteen buffers, *)
(* the list that GetBlk searches, the delayed writes, Bflush, and a crash  *)
(* of the server between any two calls.                                    *)
(*                                                                         *)
(* One action is one call.  A call that would wait is disabled: with a     *)
(* single session, the buffer waited for is the session's own.  A caller   *)
(* edits a buffer it has checked out in place and then hands it to Bwrite  *)
(* or Bdwrite; no other call touches it meanwhile, so the edit is part of  *)
(* that last call.                                                         *)
(***************************************************************************)
EXTENDS BufferQueue, FiniteSets

CONSTANTS
  Block,       \* sectors of the disk
  BlockZero,   \* sector 0: the first of the superblock, and a zeroed b_blkno
  Data,        \* what a sector may hold
  Zero,        \* a zero-filled sector
  MaxHold,     \* buffers a session has checked out at once (3: ITrunc)
  Absent, Unread

ASSUME CacheAssumption ==
  /\ BlockZero \in Block
  /\ Zero \in Data
  /\ {Absent, Unread} \cap Data = {}
  /\ Absent # Unread

VARIABLES
  blkno,       \* b_blkno
  flags,       \* b_flags
  data,        \* the sector at b_addr
  use,         \* how the caller checked the buffer out, "free" if it did not
  disk         \* the mapped disk image

vars == <<queue, stale, blkno, flags, data, use, disk>>

Flag == {"DONE", "DELWRI"}

Use == {"free", "read", "raw"}

TypeOK ==
  /\ queue \in Seq(Buf)
  /\ stale \subseteq Buf
  /\ blkno \in [Buf -> Block]
  /\ flags \in [Buf -> SUBSET Flag]
  /\ data \in [Buf -> Data]
  /\ use \in [Buf -> Use]
  /\ disk \in [Block -> Data]

-----------------------------------------------------------------------------
Dirty(b) == "DELWRI" \in flags[b]

Held == {b \in Buf : use[b] # "free"}

Caching(n) == {b \in Buf : blkno[b] = n}

DirtyBuf == {b \in Buf : Dirty(b)}

\* GetBlk returns the first buffer that has the block ...
Hit(b, n) == FirstIn(queue, b, Caching(n))

\* Mutant: the search for the block passes over locked buffers.
VictimWhenHeld(b, n) ==
  /\ Caching(n) \cap Linked \subseteq Held
  /\ FirstIn(queue, b, Buf \ Held)

\* ... or, when none has it, the first that is not locked.
Victim(b, n) ==
  /\ Caching(n) \cap Linked = {}
  /\ FirstIn(queue, b, Buf \ Held)

-----------------------------------------------------------------------------
\* The static BufferManager is zero-filled and then initialised.
Init ==
  /\ queue = BootQueue
  /\ stale = {}
  /\ blkno = [b \in Buf |-> BlockZero]
  /\ flags = [b \in Buf |-> {}]
  /\ data = [b \in Buf |-> Zero]
  /\ use = [b \in Buf |-> "free"]
  /\ disk \in [Block -> Data]

\* Mutant: the delayed write is forgotten.
ClaimDropsWrite(b, n) ==
  /\ Victim(b, n)
  /\ UNCHANGED disk
  /\ blkno' = [blkno EXCEPT ![b] = n]
  /\ flags' = [flags EXCEPT ![b] = {}]

\* GetBlk on a miss: the victim's delayed write goes out, then it changes hands.
Claim(b, n) ==
  /\ Victim(b, n)
  /\ disk' = IF Dirty(b) THEN [disk EXCEPT ![blkno[b]] = data[b]] ELSE disk
  /\ blkno' = [blkno EXCEPT ![b] = n]
  /\ flags' = [flags EXCEPT ![b] = {}]

KeepList == UNCHANGED <<queue, stale>>

MayHoldAnother == Cardinality(Held) < MaxHold

CheckOut(b, how) ==
  /\ MayHoldAnother
  /\ use[b] = "free"
  /\ use' = [use EXCEPT ![b] = how]
  /\ KeepList

GetBlkHit(b, n) ==
  /\ CheckOut(b, "raw")
  /\ Hit(b, n)
  /\ UNCHANGED <<blkno, flags, data, disk>>

GetBlkMiss(b, n) ==
  /\ CheckOut(b, "raw")
  /\ Claim(b, n)
  /\ UNCHANGED data

\* Bread returns a B_DONE buffer as it is and reads the sector otherwise.
BreadHit(b, n) ==
  /\ CheckOut(b, "read")
  /\ Hit(b, n)
  /\ data' = IF "DONE" \in flags[b] THEN data ELSE [data EXCEPT ![b] = disk[n]]
  /\ UNCHANGED <<blkno, flags, disk>>

BreadMiss(b, n) ==
  /\ CheckOut(b, "read")
  /\ Claim(b, n)
  /\ data' = [data EXCEPT ![b] = disk'[n]]

\* Only what Bread returned is released unwritten: after GetBlk every caller
\* writes (Bmap's release after a failed Alloc is past the point where s_flock
\* is leaked, see FreeBlocks).
Brelse(b) ==
  /\ use[b] = "read"
  /\ use' = [use EXCEPT ![b] = "free"]
  /\ KeepList
  /\ UNCHANGED <<blkno, flags, data, disk>>

\* The caller leaves d in the buffer and calls Bwrite (or Bawrite) or Bdwrite.
Fill(b, d) ==
  /\ b \in Held
  /\ data' = [data EXCEPT ![b] = d]
  /\ use' = [use EXCEPT ![b] = "free"]
  /\ KeepList
  /\ UNCHANGED blkno

Bwrite(b, d) ==
  /\ Fill(b, d)
  /\ flags' = [flags EXCEPT ![b] = @ \ {"DONE", "DELWRI"}]
  /\ disk' = [disk EXCEPT ![blkno[b]] = d]

Bdwrite(b, d) ==
  /\ Fill(b, d)
  /\ blkno[b] # BlockZero    \* Update writes the superblock with Bwrite
  /\ flags' = [flags EXCEPT ![b] = @ \cup {"DONE", "DELWRI"}]
  /\ UNCHANGED disk

\* Bflush moves the first delayed write it meets to the end of the list, writes
\* it, and finds itself at the head of the list: the loop is over.  Sys_Exit
\* and Update call it with no buffer checked out.
Bflush ==
  /\ Held = {}
  /\ \E i \in DOMAIN queue :
       LET b == queue[i]
       IN  /\ FirstIn(queue, b, DirtyBuf)
           /\ Requeue(i)
           /\ disk' = [disk EXCEPT ![blkno[b]] = data[b]]
           /\ flags' = [flags EXCEPT ![b] = @ \ {"DONE", "DELWRI"}]
  /\ UNCHANGED <<blkno, data, use>>

\* The server is killed and started again: the image is all that is left.
Crash ==
  /\ queue' = BootQueue
  /\ stale' = {}
  /\ blkno' = [b \in Buf |-> BlockZero]
  /\ flags' = [b \in Buf |-> {}]
  /\ data' = [b \in Buf |-> Zero]
  /\ use' = [b \in Buf |-> "free"]
  /\ UNCHANGED disk

Next ==
  \/ \E b \in Buf, n \in Block :
       \/ GetBlkHit(b, n)
       \/ GetBlkMiss(b, n)
       \/ BreadHit(b, n)
       \/ BreadMiss(b, n)
  \/ \E b \in Buf : Brelse(b)
  \/ \E b \in Buf, d \in Data : Bwrite(b, d) \/ Bdwrite(b, d)
  \/ Bflush
  \/ Crash

Spec == Init /\ [][Next]_vars

-----------------------------------------------------------------------------
(***************************************************************************)
(* Properties.                                                             *)
(***************************************************************************)

\* No buffer is in two positions of the list at once, no matter how often Bflush has
\* cut the list: Bflush's pointer surgery never links a buffer twice, which
\* would make the loops over b_forw skip the buffers between.
QueueInjective == Injective(queue)

Live(b) == b \in Held \/ Dirty(b)

\* A buffer that matters, checked out or with a delayed write, can be found: it
\* is in the list, and GetBlk's search for its block stops at it and not at a
\* buffer in front that has the same b_blkno (all of them start with block 0).
\* So a block never has two live buffers, and Bflush drops none of them.
LiveFound == \A b \in Buf : Live(b) => Hit(b, blkno[b])

\* Only a delayed write leaves B_DONE set: a buffer that was merely read, or
\* written through, is read again from the image at the next Bread.
DoneMeansDelayed == \A b \in Buf : "DONE" \in flags[b] <=> Dirty(b)

\* What Bread gave its caller is the sector's last contents as long as the
\* caller has it: a buffer without a delayed write agrees with the image.
ReadCurrent ==
  \A b \in Buf : use[b] = "read" /\ ~ Dirty(b) => data[b] = disk[blkno[b]]

\* The invariant the proofs use: every part of it holds after every call, with
\* any number of Bflush calls and crashes in between.
CacheInv ==
  /\ TypeOK
  /\ QueueInjective
  /\ LiveFound
  /\ DoneMeansDelayed
  /\ ReadCurrent

\* The block as the file system last wrote it: in the delayed write if there is
\* one, in the image otherwise.
Written(n) ==
  IF \E b \in DirtyBuf : blkno[b] = n
    THEN data[CHOOSE b \in DirtyBuf : blkno[b] = n]
    ELSE disk[n]

\* The block as its holder sees it.
Seen(n) ==
  IF \E b \in Held : blkno[b] = n
    THEN LET b == CHOOSE b \in Held : blkno[b] = n
         IN  IF use[b] = "read" THEN data[b] ELSE Unread
    ELSE Absent

Store == INSTANCE BlockStore WITH
           store <- [n \in Block |-> Written(n)],
           durable <- disk,
           view <- [n \in Block |-> Seen(n)]

\* GetBlk, Bread, Brelse, Bwrite, Bdwrite and Bflush make a block store: every
\* Bread returns the last write, delayed or not, wherever the block has been in
\* between, and a crash costs delayed writes and nothing else.
ImplementsStore == Store!Spec

=============================================================================
