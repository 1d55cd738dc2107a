----------------------------- MODULE MCBufferCache -----------------------------
(***************************************************************************)
(* BufferCache on a small pool: one buffer more than a caller holds at     *)
(* once, and more blocks than buffers, so that misses take dirty victims.  *)
(* The sectors other than sector 0 are interchangeable.                    *)
(***************************************************************************)
EXTENDS BufferCache, TLC

CONSTANTS n1, n2, n3, d1, d2

MCBlock == {BlockZero, n1, n2, n3}

MCData == {d1, d2}

SectorSymmetry == Permutations({n1, n2, n3})

=============================================================================
