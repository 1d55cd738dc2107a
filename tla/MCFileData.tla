------------------------------ MODULE MCFileData ------------------------------
(***************************************************************************)
(* FileData with two ints to a block and one direct entry: the largest     *)
(* file has 13 blocks, and the offsets reach every kind of entry, the last *)
(* block of each kind, and the block after the largest file.               *)
(***************************************************************************)
EXTENDS FileData

CONSTANTS f, g

MCFile == {f, g}

MCBlock == 1 .. 6

\* The first block on the free list is the head of a group, and has a table.
MCBootStore ==
  [b \in MCBlock |-> IF b = 1 THEN [i \in 0 .. 1 |-> i + 2] ELSE [i \in 0 .. 1 |-> 0]]

MCOffsets == {1, 4, 13, 24}

MCCounts == {3}

=============================================================================
