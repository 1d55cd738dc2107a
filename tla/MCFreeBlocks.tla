----------------------------- MODULE MCFreeBlocks -----------------------------
(***************************************************************************)
(* FreeBlocks with two threads on a data zone of a group and a half: three *)
(* blocks in the superblock's list, three and the end mark in the table    *)
(* below it, so that a list is loaded, exhausted and spilled.              *)
(***************************************************************************)
EXTENDS FreeBlocks, TLC

CONSTANTS t1, t2

MCThread == {t1, t2}

MCSbOutcomes == {"wild", "superblock"}

ThreadSymmetry == Permutations(MCThread)

=============================================================================
