---------------------------- MODULE MCBufferThreads ----------------------------
(***************************************************************************)
(* BufferThreads with fewer buffers than blocks, so that every call after  *)
(* the first few takes a victim.                                           *)
(***************************************************************************)
EXTENDS BufferThreads, TLC

CONSTANTS t1, t2, t3, n1, n2, n3

TwoThreads == {t1, t2}

ThreeThreads == {t1, t2, t3}

TwoBlocks == {n1, n2}

ThreeBlocks == {n1, n2, n3}

Nobody == {}

\* What follows two relinkings at once is not looked at.
Untangled == ~ tangled

ThreeSymmetry == Permutations(ThreeThreads) \cup Permutations(ThreeBlocks)

=============================================================================
