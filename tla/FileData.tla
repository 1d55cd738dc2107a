-------------------------------- MODULE FileData --------------------------------
(***************************************************************************)
(* The contents of files, server/INode.cpp: Bmap, ReadI, WriteI, ITrunc.   *)
(* One session; a step is a turn of ReadI's or WriteI's loop, and in Bmap  *)
(* whatever may call Alloc once.  Files reach their blocks through i_addr: *)
(* direct entries, two single and two double indirect ones.                *)
(*                                                                         *)
(* A block is PerBlock ints, an index table as well as data, so a block    *)
(* that is read as a table without having been written as one is taken at  *)
(* its word.  Blocks are what they were last written to be (BlockStore):   *)
(* a buffer that is cleared by Alloc and then released without a write is  *)
(* lost.  Alloc and Free are taken as they should be (FreeBlocks has what  *)
(* they are), but for what a failed Alloc does to s_flock.                 *)
(***************************************************************************)
EXTENDS Integers, Sequences, FiniteSets, SequencesExt

CONSTANTS
  File,
  Block,               \* the data zone, none of them 0
  PerBlock,            \* ADDRESS_PER_INDEX_BLOCK: 128
  SMALL,               \* SMALL_FILE_BLOCK: 6, the direct entries
  Datum,               \* the ints that are written
  BootStore,           \* what the free blocks of the image hold
  Offsets, Counts,     \* f_offset and the count of a call
  MaxCalls             \* bound on the calls

ASSUME FileAssumption ==
  /\ IsFiniteSet(File) /\ File # {}
  /\ Block \subseteq Nat \ {0} /\ IsFiniteSet(Block)
  /\ PerBlock \in Nat \ {0} /\ SMALL \in Nat
  /\ Datum \subseteq Block /\ Datum # {}
  /\ BootStore \in [Block -> [0 .. PerBlock - 1 -> {0} \cup Block]]
  /\ Offsets \subseteq Nat /\ Counts \subseteq Nat \ {0}
  /\ MaxCalls \in Nat

VARIABLES
  addr,                \* i_addr of each file, 0 where there is no block
  size,                \* i_size
  store,               \* what each block was last written to be
  free,                \* the free blocks, the next one last
  stuck,               \* Alloc has found no block and left s_flock locked
  pc, op, file,        \* where the call is, and what it is
  off, cnt, datum,     \* m_Offset and m_Count of u_IOParam, and what is written
  tab, buf,            \* the index block Bmap holds, and its buffer
  phys,                \* what Bmap returns
  out,                 \* what the step has read
  torn,                \* an index block has been left unwritten
  calls                \* calls so far, up to MaxCalls

disk == <<addr, size, store, free, stuck, torn>>

call == <<pc, op, file, off, cnt, datum, tab, buf, phys>>

vars == <<disk, call, out, calls>>

LARGE == PerBlock * 2 + SMALL

HUGE == PerBlock * PerBlock * 2 + PerBlock * 2 + SMALL

AddrIndex == 0 .. SMALL + 3

Index == 0 .. PerBlock - 1

Contents == [Index -> {0} \cup Block]

Cleared == [i \in Index |-> 0]

TypeOK ==
  /\ addr \in [File -> [AddrIndex -> {0} \cup Block]]
  /\ size \in [File -> 0 .. HUGE * PerBlock]
  /\ store \in [Block -> Contents]
  /\ free \in Seq(Block) /\ Len(free) <= Cardinality(Block)
  /\ stuck \in BOOLEAN /\ torn \in BOOLEAN
  /\ pc \in {"idle", "turn", "first", "second", "last", "data"}
  /\ op \in {"read", "write"} /\ file \in File
  /\ off \in Nat /\ cnt \in Nat /\ datum \in Datum
  /\ tab \in {0} \cup Block /\ buf \in Contents /\ phys \in {0} \cup Block
  /\ calls \in 0 .. MaxCalls

Some(S) == CHOOSE x \in S : TRUE

\* The members of S, the greatest first
Descending(S) ==
  [i \in 1 .. Cardinality(S) |-> CHOOSE x \in S : Cardinality({y \in S : y >= x}) = i]

Init ==
  /\ addr = [f \in File |-> [i \in AddrIndex |-> 0]]
  /\ size = [f \in File |-> 0]
  /\ store = BootStore
  /\ free = Descending(Block)
  /\ stuck = FALSE /\ torn = FALSE
  /\ pc = "idle" /\ op = "read" /\ file = Some(File)
  /\ off = 0 /\ cnt = 0 /\ datum = Some(Datum)
  /\ tab = 0 /\ buf = Cleared /\ phys = 0
  /\ out = <<>>
  /\ calls = 0
-----------------------------------------------------------------------------
Goto(from, to) == pc = from /\ pc' = to

Called == calls < MaxCalls /\ calls' = calls + 1

\* The call returns; what it worked with is forgotten.
Done ==
  /\ pc' = "idle" /\ op' = "read" /\ file' = Some(File)
  /\ off' = 0 /\ cnt' = 0 /\ datum' = Some(Datum)
  /\ tab' = 0 /\ buf' = Cleared /\ phys' = 0

Lbn == off \div PerBlock

Allocated == Last(free)

\* Alloc gives a block, in a cleared buffer.
Alloc == ~ stuck /\ free # <<>> /\ free' = Front(free)

\* Mutant: s_flock is unlocked.
AllocFailsQuietly == ~ stuck /\ free = <<>> /\ UNCHANGED stuck

\* Alloc finds none.  The next one, and the next Free, wait for ever.
AllocFails == ~ stuck /\ free = <<>> /\ stuck' = TRUE

\* Bdwrite, for whoever reads the block next
Bdwrite(b, c) == [store EXCEPT ![b] = c]

\* Mutant: iTable[index] stays as it is.
RecordedNot(i) == buf

\* iTable[index] = b_blkno
Recorded(i) == [buf EXCEPT ![i] = Allocated]

\* Brelse of the index block: what is only in the buffer is gone.
Brelse == torn' = (torn \/ (tab # 0 /\ store[tab] # buf))

\* ---------------------------------------------------------------- ReadI, WriteI
Rdwr ==
  /\ Goto("idle", "turn") /\ Called
  /\ \E o \in {"read", "write"}, f \in File, p \in Offsets, n \in Counts, d \in Datum :
       /\ op' = o /\ file' = f /\ off' = p /\ cnt' = n
       /\ datum' = IF o = "write" THEN d ELSE datum
  /\ out' = <<>>
  /\ UNCHANGED <<disk, tab, buf, phys>>

EndOfFile == op = "read" /\ size[file] - off <= 0

TurnEnds ==
  /\ pc = "turn"
  /\ cnt = 0 \/ EndOfFile
  /\ Done
  /\ out' = <<>>
  /\ UNCHANGED disk

Turn == pc = "turn" /\ cnt # 0 /\ ~ EndOfFile

Least(a, b) == IF a < b THEN a ELSE b

ReadTurn ==
  LET n == Least(Least(PerBlock - (off % PerBlock), cnt), size[file] - off)
  IN  /\ Goto("data", "turn") /\ op = "read"
      /\ out' = [i \in 1 .. n |-> store[phys][(off % PerBlock) + i - 1]]
      /\ off' = off + n /\ cnt' = cnt - n
      /\ tab' = 0 /\ buf' = Cleared /\ phys' = 0
      /\ UNCHANGED <<disk, op, file, datum>>

\* Mutant: i_size is set after every write.
ExtendedAlways(f, end) == end

Extended(f, end) == IF size[f] < end THEN end ELSE size[f]

WriteTurn ==
  LET o == off % PerBlock
      n == Least(PerBlock - o, cnt)
  IN  /\ Goto("data", "turn") /\ op = "write"
      /\ store' = Bdwrite(phys,
                    [i \in Index |-> IF i \in o .. o + n - 1 THEN datum ELSE store[phys][i]])
      /\ off' = off + n /\ cnt' = cnt - n
      /\ size' = [size EXCEPT ![file] = Extended(file, off + n)]
      /\ tab' = 0 /\ buf' = Cleared /\ phys' = 0
      /\ out' = <<>>
      /\ UNCHANGED <<addr, free, stuck, torn, op, file, datum>>

\* ------------------------------------------------------------------------ Bmap
MapTooBig ==
  /\ Turn /\ Lbn >= HUGE
  /\ Done
  /\ out' = <<>>
  /\ UNCHANGED disk

MapDirect ==
  /\ Turn /\ Lbn < SMALL
  /\ \/ /\ addr[file][Lbn] # 0
        /\ phys' = addr[file][Lbn]
        /\ pc' = "data"
        /\ UNCHANGED <<disk, op, file, off, cnt, datum, tab, buf>>
     \/ /\ addr[file][Lbn] = 0 /\ Alloc
        /\ store' = Bdwrite(Allocated, Cleared)
        /\ addr' = [addr EXCEPT ![file][Lbn] = Allocated]
        /\ phys' = Allocated
        /\ pc' = "data"
        /\ UNCHANGED <<size, stuck, torn, op, file, off, cnt, datum, tab, buf>>
     \/ /\ addr[file][Lbn] = 0 /\ AllocFails
        /\ Done
        /\ UNCHANGED <<addr, size, store, free, torn>>
  /\ out' = <<>>

\* The entry of i_addr for a block that is not direct.
Entry ==
  IF Lbn < LARGE THEN (Lbn - SMALL) \div PerBlock + SMALL
  ELSE (Lbn - LARGE) \div (PerBlock * PerBlock) + SMALL + 2

MapFirst ==
  /\ Turn /\ Lbn \in SMALL .. HUGE - 1
  /\ \/ /\ addr[file][Entry] # 0
        /\ tab' = addr[file][Entry]
        /\ buf' = store[addr[file][Entry]]
        /\ pc' = IF Entry >= SMALL + 2 THEN "second" ELSE "last"
        /\ UNCHANGED <<disk, op, file, off, cnt, datum, phys>>
     \/ /\ addr[file][Entry] = 0 /\ Alloc
        /\ addr' = [addr EXCEPT ![file][Entry] = Allocated]
        /\ tab' = Allocated
        /\ buf' = Cleared
        /\ pc' = IF Entry >= SMALL + 2 THEN "second" ELSE "last"
        /\ UNCHANGED <<size, store, stuck, torn, op, file, off, cnt, datum, phys>>
     \/ /\ addr[file][Entry] = 0 /\ AllocFails
        /\ Done
        /\ UNCHANGED <<addr, size, store, free, torn>>
  /\ out' = <<>>

\* The entry of the double indirect table.
Outer == ((Lbn - LARGE) \div PerBlock) % PerBlock

MapSecond ==
  /\ pc = "second"
  /\ \/ /\ buf[Outer] # 0
        /\ Brelse
        /\ tab' = buf[Outer]
        /\ buf' = store[buf[Outer]]
        /\ pc' = "last"
        /\ UNCHANGED <<addr, size, store, free, stuck, op, file, off, cnt, datum, phys>>
     \/ /\ buf[Outer] = 0 /\ Alloc
        /\ store' = Bdwrite(tab, Recorded(Outer))
        /\ tab' = Allocated
        /\ buf' = Cleared
        /\ pc' = "last"
        /\ UNCHANGED <<addr, size, stuck, torn, op, file, off, cnt, datum, phys>>
     \/ /\ buf[Outer] = 0 /\ AllocFails
        /\ Brelse
        /\ Done
        /\ UNCHANGED <<addr, size, store, free>>
  /\ out' = <<>>

\* The entry of the single indirect table.
Inner ==
  IF Lbn < LARGE THEN (Lbn - SMALL) % PerBlock ELSE (Lbn - LARGE) % PerBlock

MapLast ==
  /\ pc = "last"
  /\ \/ /\ buf[Inner] # 0
        /\ Brelse
        /\ phys' = buf[Inner]
        /\ pc' = "data"
        /\ UNCHANGED <<addr, size, store, free, stuck, op, file, off, cnt, datum, tab, buf>>
     \/ /\ buf[Inner] = 0 /\ Alloc
        /\ store' = [Bdwrite(tab, Recorded(Inner))
                       EXCEPT ![Allocated] = Cleared]
        /\ phys' = Allocated
        /\ pc' = "data"
        /\ UNCHANGED <<addr, size, stuck, torn, op, file, off, cnt, datum, tab, buf>>
     \/ /\ buf[Inner] = 0 /\ AllocFails
        /\ Brelse
        /\ Done
        /\ UNCHANGED <<addr, size, store, free>>
  /\ out' = <<>>

\* ---------------------------------------------------------------------- ITrunc
Used(c) == Descending({i \in DOMAIN c : c[i] # 0})

\* The blocks below a table, and those below a table of tables with these.
Below(b) == LET c == store[b] IN [i \in 1 .. Len(Used(c)) |-> c[Used(c)[i]]]

BelowTwice(b) ==
  FlattenSeq([i \in 1 .. Len(Below(b)) |-> Append(Below(Below(b)[i]), Below(b)[i])])

\* Entry i of i_addr: what it leads to, then its own block.
Chain(f, i) ==
  LET b == addr[f][i]
  IN  IF i >= SMALL + 2 THEN Append(BelowTwice(b), b)
      ELSE IF i >= SMALL THEN Append(Below(b), b)
      ELSE <<b>>

\* The blocks of a file in the order ITrunc frees them.
Blocks(f) ==
  LET used == Used(addr[f])
  IN  FlattenSeq([i \in 1 .. Len(used) |-> Chain(f, used[i])])

\* creat of a file that exists, or the end of one that has no name
ITrunc(f) ==
  /\ pc = "idle" /\ Called
  /\ Blocks(f) # <<>> => ~ stuck
  /\ free' = free \o Blocks(f)
  /\ addr' = [addr EXCEPT ![f] = [i \in AddrIndex |-> 0]]
  /\ size' = [size EXCEPT ![f] = 0]
  /\ out' = <<>>
  /\ UNCHANGED <<store, stuck, torn, call>>

\* A step of a call that has begun
Step ==
  \/ TurnEnds
  \/ ReadTurn
  \/ WriteTurn
  \/ MapTooBig
  \/ MapDirect
  \/ MapFirst
  \/ MapSecond
  \/ MapLast

Next ==
  \/ Rdwr
  \/ Step /\ UNCHANGED calls
  \/ \E f \in File : ITrunc(f)

Spec == Init /\ [][Next]_vars

-----------------------------------------------------------------------------
(***************************************************************************)
(* Properties.                                                             *)
(***************************************************************************)
AllBlocks == FlattenSeq([i \in 1 .. Cardinality(File) |->
                           Blocks(SetToSeq(File)[i])])

\* Whatever Bmap builds and ITrunc takes apart, a block is on the free list or
\* reached from one place of one file, never from two, and never lost -- until a
\* full disk makes Bmap give up with an index block it has not written: that block
\* then reads as whatever it held before, and Bmap follows it into other files.
BlocksOnce ==
  pc \in {"idle", "turn"} /\ ~ torn =>
    /\ IsInjective(free \o AllBlocks)
    /\ ToSet(free \o AllBlocks) = Block

\* Files and free list, BlocksOnce, with sizes, offsets and index entries within
\* their bounds.
BlocksInv == TypeOK /\ BlocksOnce

\* An index block is left unwritten only by a disk that has become full, and
\* then no block is ever given out or taken back again.
TornMeansStuck == torn => stuck /\ free = <<>>

\* The units of a file as ReadI would find them; the index block that Bmap has
\* in hand is in its buffer.
Through(b, i) ==
  IF b = 0 THEN 0
  ELSE IF b = tab /\ pc \in {"second", "last"} THEN buf[i]
  ELSE store[b][i]

Phys(f, l) ==
  IF l < SMALL THEN addr[f][l]
  ELSE IF l < LARGE
    THEN Through(addr[f][(l - SMALL) \div PerBlock + SMALL], (l - SMALL) % PerBlock)
    ELSE LET first == addr[f][(l - LARGE) \div (PerBlock * PerBlock) + SMALL + 2]
         IN  Through(Through(first, ((l - LARGE) \div PerBlock) % PerBlock),
                     (l - LARGE) % PerBlock)

Units(f) ==
  [u \in 0 .. HUGE * PerBlock - 1 |-> Through(Phys(f, u \div PerBlock), u % PerBlock)]

Array == INSTANCE FileArray WITH
           MaxUnits <- HUGE * PerBlock,
           content <- [f \in File |-> Units(f)]

\* Files are arrays: a read returns what was last written to those units of that
\* file, or 0, however its blocks were built, freed and used by other files
\* before -- until an index block is left unwritten.
ImplementsArray == Array!Init /\ [][torn' \/ Array!Next]_(Array!arrayVars)

=============================================================================
