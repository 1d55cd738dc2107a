------------------------------- MODULE DiskLayout -------------------------------
(***************************************************************************)
(* The data zone of the disk image and the free-block list that            *)
(* server/Disk.cpp writes on it: groups of Group blocks, each group's      *)
(* table in the first block of the group above, the highest group in the   *)
(* superblock.  A table, like the superblock's list, is the sequence       *)
(* s_free[0 .. s_nfree-1]; block 0 ends the chain.                         *)
(***************************************************************************)
EXTENDS Integers, Sequences, FiniteSets

CONSTANTS
  Group,               \* entries of s_free: 100
  DataStart,           \* DATA_ZONE_START_SECTOR: 27
  DataSize             \* DATA_ZONE_SIZE: 9973

\* 9973 - 99 is no multiple of 100: the superblock's list would start empty.  Nor is
\* 9973: init_superblock would leave the last whole group out.
ASSUME GeometryAssumption ==
  /\ Group \in Nat /\ Group >= 2
  /\ DataStart \in Nat \ {0}
  /\ DataSize \in Nat /\ DataSize >= Group
  /\ (DataSize - (Group - 1)) % Group # 0 /\ DataSize % Group # 0

DataEnd == DataStart + DataSize - 1         \* DATA_ZONE_END_SECTOR

DataZone == DataStart .. DataEnd

\* The loop of init_superblock stops at the first start from which less than a
\* whole group is left.
StartLast ==
  LET turns == CHOOSE k \in 0 .. DataSize :
                 /\ DataStart + k * Group + Group - 1 >= DataEnd
                 /\ \A l \in 0 .. k - 1 : DataStart + l * Group + Group - 1 < DataEnd
  IN  DataStart + turns * Group

SuperList ==
  [j \in 1 .. (DataSize - (Group - 1)) % Group |-> StartLast + (j - 1) - 1]

\* Mutant: without the last "- 1".
GroupListOffByOne(i, size) ==
  [j \in 1 .. size |->
     IF i = 0 /\ j = 1 THEN 0 ELSE Group * i + (j - 1) + DataStart]

\* temp of init_datablock in turn i of its loop (i and j count from 0 there).
GroupList(i, size) ==
  [j \in 1 .. size |->
     IF i = 0 /\ j = 1 THEN 0 ELSE Group * i + (j - 1) + DataStart - 1]

\* The sector it is copied to.
TableSector(i) == DataStart + (Group - 1) + i * Group

\* What a formatted disk reads as free tables: zero-filled blocks but for one
\* in every group.
FormattedTables ==
  [s \in DataZone |->
     IF \E i \in 0 .. DataSize \div Group : s = TableSector(i)
       THEN GroupList((s - TableSector(0)) \div Group, Group)
       ELSE <<>>]

-----------------------------------------------------------------------------
(***************************************************************************)
(* The free list as Alloc will meet it: the list in memory, then the table *)
(* in the block at its bottom, and so on down to block 0.                  *)
(***************************************************************************)
Below(list, tables) ==
  IF list = <<>> \/ Head(list) = 0 THEN <<>> ELSE tables[Head(list)]

Chain(list, tables) ==
  LET layer[k \in 0 .. DataSize] ==
        IF k = 0 THEN list ELSE Below(layer[k - 1], tables)
  IN  [k \in 0 .. DataSize \div Group + 1 |-> layer[k]]

Places(chain) == UNION {{<<k, j>> : j \in DOMAIN chain[k]} : k \in DOMAIN chain}

Blocks(chain) == {chain[p[1]][p[2]] : p \in Places(chain)}

\* The chain holds exactly the blocks of S, each once, and block 0 at its end.
ChainIs(chain, S) ==
  /\ Blocks(chain) \ {0} = S
  /\ Cardinality(Places(chain)) = Cardinality(Blocks(chain))

=============================================================================
