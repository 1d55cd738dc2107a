------------------------------ MODULE BufferQueue ------------------------------
(***************************************************************************)
(* The list of buffers that BufferManager reaches from bFreeList through   *)
(* b_forw, as a sequence, and what BufferManager::Bflush does to it.       *)
(*                                                                         *)
(* Bflush takes a buffer out of the list and puts it back at the end, but  *)
(* it stores the list head in the b_back of the buffer it has moved        *)
(* (BufferManager.cpp:196 reads b_forw of the last buffer, which is the    *)
(* head).  Such a buffer is "stale": its b_back names the head although it *)
(* is not first.  Taking a stale buffer out of the list links the head to  *)
(* its successor, so every buffer in front of it leaves the list as well.  *)
(*                                                                         *)
(* BufferList.tla has the pointers themselves and implements this module.  *)
(***************************************************************************)
EXTENDS Integers, Sequences

CONSTANT NBUF          \* BufferManager::NBUF, 15 in the code

ASSUME NBUFAssumption == NBUF \in Nat \ {0}

VARIABLES
  queue,               \* the buffers from bFreeList.b_forw on
  stale                \* the buffers whose b_back wrongly names bFreeList

queueVars == <<queue, stale>>

Buf == 0 .. NBUF - 1   \* indices of m_Buf

Elements(q) == {q[i] : i \in DOMAIN q}

Linked == Elements(queue)

\* b is the first buffer of the list q, from the head on, that is in S.
FirstIn(q, b, S) ==
  \E i \in DOMAIN q :
    /\ q[i] = b
    /\ b \in S
    /\ \A j \in DOMAIN q : j < i => q[j] \notin S

Injective(q) == \A i, j \in DOMAIN q : q[i] = q[j] => i = j

(***************************************************************************)
(* The list after the i-th buffer has been taken out and put back last.    *)
(***************************************************************************)
\* Mutant: the b_forw of the buffer in front is left alone.
BeforeKeepsIt(q, s, i) == SubSeq(q, 1, i)

Before(q, s, i) == IF q[i] \in s THEN <<>> ELSE SubSeq(q, 1, i - 1)

Requeued(q, s, i) == Before(q, s, i) \o SubSeq(q, i + 1, Len(q)) \o <<q[i]>>

\* The successor of the moved buffer gets its b_back, which is right for it;
\* the moved buffer gets the head.  The head is right for whoever is first.
StaleAfter(q, s, i) ==
  LET q2    == Requeued(q, s, i)
      fixed == {q[j] : j \in {i + 1} \cap DOMAIN q}
  IN  (((s \ fixed) \cup {q[i]}) \cap Elements(q2)) \ {q2[1]}

Requeue(i) ==
  /\ queue' = Requeued(queue, stale, i)
  /\ stale' = StaleAfter(queue, stale, i)

-----------------------------------------------------------------------------
(***************************************************************************)
(* The list on its own: Initialize links every buffer at the front, then   *)
(* any linked buffer may be the one that Bflush moves.                     *)
(***************************************************************************)
QueueInit == queue = <<>> /\ stale = {}

InsertFront(b) ==
  /\ b \notin Linked
  /\ queue' = <<b>> \o queue
  /\ UNCHANGED stale

QueueNext ==
  \/ \E b \in Buf : InsertFront(b)
  \/ \E i \in DOMAIN queue : Requeue(i)

QueueSpec == QueueInit /\ [][QueueNext]_queueVars

\* Mutant: one turn too many.
BootQueueOneMore == [i \in 1 .. NBUF + 1 |-> NBUF + 1 - i]

\* The list after BufferManager::Initialize: the last buffer inserted is first.
BootQueue == [i \in 1 .. NBUF |-> NBUF - i]

=============================================================================
