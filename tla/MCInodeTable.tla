------------------------------ MODULE MCInodeTable ------------------------------
(***************************************************************************)
(* InodeTable on a disk of four inodes: the root, a directory in it, and   *)
(* two for files.                                                          *)
(***************************************************************************)
EXTENDS InodeTable

CONSTANTS t1, t2

OneThread == {t1}

TwoThreads == {t1, t2}

MCIno == 0 .. 3

MCDir == {0, 1}

MCSlot == 1 .. 2

\* The directory is the first entry of the root, and has a file.
MCBootDir ==
  [d \in MCDir |-> [s \in MCSlot |->
     IF d = 0 /\ s = 1 THEN 1 ELSE IF d = 1 /\ s = 1 THEN 3 ELSE 0]]

\* A full list, as on a fresh disk, with the root at its bottom; and the empty one
\* that a session's exit saves while another has just popped the last.
MCBootLists == {<<0, 2>>, <<>>}

=============================================================================
