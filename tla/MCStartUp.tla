------------------------------- MODULE MCStartUp -------------------------------
(***************************************************************************)
(* StartUp at the real geometry of the disk, with five buffers.  The cuts  *)
(* are inside the inode zone, before and behind the inodes that the first  *)
(* mkdir takes, at the end of the page the inode zone ends in, and in the  *)
(* data zone.                                                              *)
(***************************************************************************)
EXTENDS StartUp

MCCuts == {8, 16, 32, 5000}

=============================================================================
