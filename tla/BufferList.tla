------------------------------- MODULE BufferList -------------------------------
(***************************************************************************)
(* The doubly linked list of buffers of server/BufferManager.cpp: bFreeList *)
(* and the m_Buf entries, threaded through b_forw and b_back, as built by   *)
(* Initialize and rearranged by Bflush, by one thread at a time (for        *)
(* several see BufferThreads).                                              *)
(***************************************************************************)
EXTENDS Integers, Sequences, FiniteSets

CONSTANT NBUF

VARIABLES
  forw,      \* b_forw of every buffer and of bFreeList
  back,      \* b_back
  built      \* how many turns the loop of Initialize has made

Buf == 0 .. NBUF - 1

bFreeList == NBUF                 \* the head of the list

Node == Buf \cup {bFreeList}

TypeOK ==
  /\ forw \in [Node -> Node]
  /\ back \in [Node -> Node]
  /\ built \in 0 .. NBUF

\* b_forw and b_back of the buffers are zero-filled before Initialize gets to
\* them and nothing reads them; the head stands for that value.
Init ==
  /\ forw = [x \in Node |-> bFreeList]
  /\ back = [x \in Node |-> bFreeList]
  /\ built = 0

MoreBuffers == built < NBUF

\* One turn of Initialize's loop: buffer i goes in at the front.
InitializeBuf ==
  LET bp == built
      f1 == [forw EXCEPT ![bp] = forw[bFreeList]]
      b1 == [back EXCEPT ![bp] = bFreeList]
  IN  /\ MoreBuffers
      /\ back' = [b1 EXCEPT ![f1[bFreeList]] = bp]
      /\ forw' = [f1 EXCEPT ![bFreeList] = bp]
      /\ built' = built + 1

\* n steps along b_forw from the head.
Step[n \in 0 .. NBUF + 1] == IF n = 0 THEN bFreeList ELSE forw[Step[n - 1]]

\* The buffers a loop over b_forw visits before it is back at the head.
Length == CHOOSE n \in 0 .. NBUF : 
            /\ Step[n + 1] = bFreeList
            /\ \A m \in 1 .. n : Step[m] # bFreeList

Chain == [i \in 1 .. Length |-> Step[i]]

Linked == {Chain[i] : i \in DOMAIN Chain}

\* Mutant: the last assignment is missing, b_back of the head stays.
RelinkKeepsTail(bp) ==
  LET f1 == [forw EXCEPT ![back[bp]] = forw[bp]]
      b1 == [back EXCEPT ![forw[bp]] = back[bp]]
      f2 == [f1 EXCEPT ![b1[bFreeList]] = bp]
  IN  /\ forw' = [f2 EXCEPT ![bp] = bFreeList]
      /\ back' = [b1 EXCEPT ![bp] = f1[b1[bFreeList]]]

\* Mutant: the third and the fourth assignment in the other order.
RelinkSwapped(bp) ==
  LET f1 == [forw EXCEPT ![back[bp]] = forw[bp]]
      b1 == [back EXCEPT ![forw[bp]] = back[bp]]
      f2 == [f1 EXCEPT ![b1[bFreeList]] = bp]
      b2 == [b1 EXCEPT ![bp] = f2[b1[bFreeList]]]
  IN  /\ forw' = [f2 EXCEPT ![bp] = bFreeList]
      /\ back' = [b2 EXCEPT ![bFreeList] = bp]

\* The six assignments Bflush makes for the delayed-write buffer bp it found.
\* After them bp->b_forw is the head, so the loop of Bflush is over.
Relink(bp) ==
  LET f1 == [forw EXCEPT ![back[bp]] = forw[bp]]
      b1 == [back EXCEPT ![forw[bp]] = back[bp]]
      b2 == [b1 EXCEPT ![bp] = f1[b1[bFreeList]]]
      f2 == [f1 EXCEPT ![b2[bFreeList]] = bp]
  IN  /\ forw' = [f2 EXCEPT ![bp] = bFreeList]
      /\ back' = [b2 EXCEPT ![bFreeList] = bp]

BflushMove(bp) ==
  /\ built = NBUF
  /\ Relink(bp)
  /\ UNCHANGED built

-----------------------------------------------------------------------------
\* The buffers whose b_back wrongly names the head (see BufferQueue).
StaleBack == {b \in Linked :
                back[b] = bFreeList /\ forw[bFreeList] # b}

\* A loop over b_forw is back at bFreeList after every linked buffer, and b_back
\* of the head is the last one.
Ring ==
  /\ Step[Length + 1] = bFreeList
  /\ back[bFreeList] = Step[Length]
  /\ Cardinality(Linked) = Length

=============================================================================
