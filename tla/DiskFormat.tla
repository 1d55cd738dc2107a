------------------------------- MODULE DiskFormat -------------------------------
(***************************************************************************)
(* Disk::init_disk on a fresh image: init_superblock's list, then the loop *)
(* of init_datablock over the groups of the data zone, one turn a step.    *)
(* StartUp runs it.  (The loop ends when leftBlock is 0; one that passed 0 *)
(* would go on for ever, and has no more turns here.)                      *)
(***************************************************************************)
EXTENDS DiskLayout

VARIABLES
  leftBlock,           \* blocks not yet in a group
  i,                   \* turns made
  image                \* the data zone as free tables

Init ==
  /\ leftBlock = DataSize
  /\ i = 0
  /\ image = [s \in DataZone |-> <<>>]

\* Mutant: the last group is not shortened.
GroupSizeWhole == Group

GroupSize == IF leftBlock < Group THEN leftBlock ELSE Group

\* One turn of init_datablock's loop.  The table of the last group belongs in
\* sector 10026 of a zone that ends at 9999: its memcpy lands in the heap behind
\* datablock[], and the image does not change.
FormatGroup ==
  /\ leftBlock > 0
  /\ leftBlock' = leftBlock - GroupSize
  /\ i' = i + 1
  /\ IF TableSector(i) \in DataZone
       THEN image' = [image EXCEPT ![TableSector(i)] = GroupList(i, GroupSize)]
       ELSE UNCHANGED image

-----------------------------------------------------------------------------
TypeOK ==
  /\ leftBlock \in 0 .. DataSize
  /\ i \in Nat
  /\ \A s \in DataZone : image[s] \in Seq({0} \cup DataZone)

=============================================================================
