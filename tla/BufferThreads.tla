----------------------------- MODULE BufferThreads -----------------------------
(***************************************************************************)
(* server/BufferManager.cpp under several session threads, step by step:   *)
(* what GetBlk and Bflush read and write between two operations on a       *)
(* b_lock.  A call is GetBlk (alone or in Bread), the use of the buffer,   *)
(* and the call that gives it back; or it is Bflush.                       *)
(*                                                                         *)
(* Of the contents only B_DELWRI is kept.  Each of the six assignments of   *)
(* Bflush to the list is a step, as nothing keeps other threads out of     *)
(* them; so are the read and the write-back of b_flags |= B_BUSY, which    *)
(* GetBlk does before it has the lock.  An assignment reads and stores at  *)
(* once: exact while one thread at a time rearranges the list.  When two   *)
(* do, "tangled" is set, and the properties claim nothing from then on.    *)
(***************************************************************************)
EXTENDS Integers

CONSTANTS
  NBUF,
  Thread,
  NoOne,               \* the owner of a free lock
  Block,               \* sectors that are asked for
  BlockZero,           \* the zero-filled b_blkno
  Flusher,             \* threads that call Bflush
  MaxCalls             \* bound on the calls of each thread

ASSUME ThreadsAssumption ==
  /\ NBUF \in Nat \ {0}
  /\ NoOne \notin Thread
  /\ Flusher \subseteq Thread
  /\ MaxCalls \in Nat

VARIABLES
  forw, back,          \* the list
  blkno,               \* b_blkno
  delwri,              \* B_DELWRI is set
  lock,                \* the owner of b_lock
  pc,                  \* where each thread is in GetBlk or Bflush
  bp,                  \* its bp
  want,                \* the argument of GetBlk
  saw,                 \* the B_DELWRI it read for b_flags |= B_BUSY
  calls,               \* calls it has made
  tangled              \* two threads have been in Bflush's assignments at once

listVars == <<forw, back, tangled>>

threadsVars ==
  <<forw, back, tangled, blkno, delwri, lock, pc, bp, want, saw, calls>>

Buf == 0 .. NBUF - 1

bFreeList == NBUF

\* In Bflush's assignments, with one or more of the six made.
Relinking == {"out2", "in1", "in2", "in3", "in4"}

Flushing == Relinking \cup {"flush", "out1", "flushwrite"}

\* "dead": the server is.
Pc == {"idle", "search", "mark", "hitlock", "try", "headlock",
       "victim", "relock", "claim", "use", "dead"} \cup Flushing

\* Places where bp is a buffer; elsewhere it may have run into bFreeList.
OnBuffer == Pc \ {"idle", "search", "try", "headlock", "flush", "dead"}

ThreadsTypeOK ==
  /\ forw \in [Buf \cup {bFreeList} -> Buf \cup {bFreeList}]
  /\ back \in [Buf \cup {bFreeList} -> Buf \cup {bFreeList}]
  /\ blkno \in [Buf -> Block \cup {BlockZero}]
  /\ delwri \in [Buf -> BOOLEAN]
  /\ lock \in [Buf -> Thread \cup {NoOne}]
  /\ pc \in [Thread -> Pc]
  /\ bp \in [Thread -> Buf \cup {bFreeList}]
  /\ \A t \in Thread : pc[t] \in OnBuffer => bp[t] \in Buf
  /\ want \in [Thread -> Block \cup {BlockZero}]
  /\ saw \in [Thread -> BOOLEAN]
  /\ calls \in [Thread -> 0 .. MaxCalls]
  /\ tangled \in BOOLEAN

\* After Initialize: buffer NBUF - 1 first, buffer 0 last.
ThreadsInit ==
  /\ forw = [x \in Buf \cup {bFreeList} |-> IF x = 0 THEN bFreeList ELSE x - 1]
  /\ back = [x \in Buf \cup {bFreeList} |-> IF x = bFreeList THEN 0 ELSE x + 1]
  /\ blkno = [b \in Buf |-> BlockZero]
  /\ delwri = [b \in Buf |-> FALSE]
  /\ lock = [b \in Buf |-> NoOne]
  /\ pc = [t \in Thread |-> "idle"]
  /\ bp = [t \in Thread |-> bFreeList]
  /\ want = [t \in Thread |-> BlockZero]
  /\ saw = [t \in Thread |-> FALSE]
  /\ calls = [t \in Thread |-> 0]
  /\ tangled = FALSE

-----------------------------------------------------------------------------
Goto(t, from, to) == pc[t] = from /\ pc' = [pc EXCEPT ![t] = to]

Follow(t) == bp' = [bp EXCEPT ![t] = forw[bp[t]]]

FromHead(t) == bp' = [bp EXCEPT ![t] = forw[bFreeList]]

AtEnd(t) == bp[t] = bFreeList

\* Mutant: the lock is not waited for.
NoLock(t) == lock' = [lock EXCEPT ![bp[t]] = t]

Lock(t) == lock[bp[t]] = NoOne /\ lock' = [lock EXCEPT ![bp[t]] = t]

\* pthread_mutex_unlock asks nobody who owns the mutex.
Unlock(t) == lock' = [lock EXCEPT ![bp[t]] = NoOne]

SetDelwri(t, on) == delwri' = [delwri EXCEPT ![bp[t]] = on]

Call(t) == calls[t] < MaxCalls /\ calls' = [calls EXCEPT ![t] = @ + 1]

-----------------------------------------------------------------------------
GetBlk(t, n) ==
  /\ Call(t)
  /\ Goto(t, "idle", "search")
  /\ want' = [want EXCEPT ![t] = n]
  /\ FromHead(t)
  /\ UNCHANGED <<listVars, blkno, delwri, lock, saw>>

\* for(bp = head->b_forw; bp != head; bp = bp->b_forw): not this one.
SearchNext(t) ==
  /\ pc[t] = "search" /\ ~ AtEnd(t)
  /\ blkno[bp[t]] # want[t]
  /\ Follow(t)
  /\ UNCHANGED <<listVars, blkno, delwri, lock, pc, want, saw, calls>>

\* This one: b_flags is read for the |= ...
SearchHit(t) ==
  /\ Goto(t, "search", "mark") /\ ~ AtEnd(t)
  /\ blkno[bp[t]] = want[t]
  /\ saw' = [saw EXCEPT ![t] = delwri[bp[t]]]
  /\ UNCHANGED <<listVars, blkno, delwri, lock, bp, want, calls>>

\* ... and written back,
MarkBusy(t) ==
  /\ Goto(t, "mark", "hitlock")
  /\ SetDelwri(t, saw[t])
  /\ saw' = [saw EXCEPT ![t] = FALSE]
  /\ UNCHANGED <<listVars, blkno, lock, bp, want, calls>>

\* and the lock is waited for; nothing is looked at again.
HitLock(t) ==
  /\ Goto(t, "hitlock", "use")
  /\ Lock(t)
  /\ UNCHANGED <<listVars, blkno, delwri, bp, want, saw, calls>>

SearchMiss(t) ==
  /\ Goto(t, "search", "try") /\ AtEnd(t)
  /\ FromHead(t)
  /\ UNCHANGED <<listVars, blkno, delwri, lock, want, saw, calls>>

\* pthread_mutex_trylock along the list
TryNext(t) ==
  /\ pc[t] = "try" /\ ~ AtEnd(t)
  /\ lock[bp[t]] # NoOne
  /\ Follow(t)
  /\ UNCHANGED <<listVars, blkno, delwri, lock, pc, want, saw, calls>>

TryGot(t) ==
  /\ Goto(t, "try", "victim") /\ ~ AtEnd(t)
  /\ Lock(t)
  /\ UNCHANGED <<listVars, blkno, delwri, bp, want, saw, calls>>

\* Mutant: without the test of "has".
TryNoneGoesOn(t) ==
  /\ Goto(t, "try", "victim") /\ AtEnd(t)
  /\ UNCHANGED <<listVars, blkno, delwri, lock, bp, want, saw, calls>>

\* All are locked: wait for the first.
TryNone(t) ==
  /\ Goto(t, "try", "headlock") /\ AtEnd(t)
  /\ FromHead(t)
  /\ UNCHANGED <<listVars, blkno, delwri, lock, want, saw, calls>>

HeadLock(t) ==
  /\ Goto(t, "headlock", "victim") /\ ~ AtEnd(t)
  /\ Lock(t)
  /\ UNCHANGED <<listVars, blkno, delwri, bp, want, saw, calls>>

\* The list was empty and "the first" is bFreeList: its zero-filled b_lock is
\* free, its b_addr NULL, which the caller reads or fills at once.
HeadFaults(t) ==
  /\ pc[t] = "headlock" /\ AtEnd(t)
  /\ pc' = [u \in Thread |-> "dead"]
  /\ UNCHANGED <<listVars, blkno, delwri, lock, bp, want, saw, calls>>

VictimClean(t) ==
  /\ Goto(t, "victim", "claim") /\ ~ delwri[bp[t]]
  /\ UNCHANGED <<listVars, blkno, delwri, lock, bp, want, saw, calls>>

\* Mutant: the lock is not taken again after Bwrite has released it.
VictimWriteNoRelock(t) ==
  /\ Goto(t, "victim", "claim") /\ delwri[bp[t]]
  /\ SetDelwri(t, FALSE)
  /\ Unlock(t)
  /\ UNCHANGED <<listVars, blkno, bp, want, saw, calls>>

\* Bwrite of the victim's delayed write, which unlocks it ...
VictimWrite(t) ==
  /\ Goto(t, "victim", "relock") /\ delwri[bp[t]]
  /\ SetDelwri(t, FALSE)
  /\ Unlock(t)
  /\ UNCHANGED <<listVars, blkno, bp, want, saw, calls>>

\* ... and the lock again.
Relock(t) ==
  /\ Goto(t, "relock", "claim")
  /\ Lock(t)
  /\ UNCHANGED <<listVars, blkno, delwri, bp, want, saw, calls>>

\* b_blkno = blkno, b_flags = B_BUSY
Claim(t) ==
  /\ Goto(t, "claim", "use")
  /\ blkno' = [blkno EXCEPT ![bp[t]] = want[t]]
  /\ SetDelwri(t, FALSE)
  /\ UNCHANGED <<listVars, lock, bp, want, saw, calls>>

\* Brelse leaves the flag, Bwrite and Bawrite clear it, Bdwrite sets it.
Release(t) ==
  /\ Goto(t, "use", "idle")
  /\ \/ UNCHANGED delwri
     \/ SetDelwri(t, FALSE)
     \/ SetDelwri(t, TRUE)
  /\ Unlock(t)
  /\ UNCHANGED <<listVars, blkno, bp, want, saw, calls>>

-----------------------------------------------------------------------------
Bflush(t) ==
  /\ t \in Flusher
  /\ Call(t)
  /\ Goto(t, "idle", "flush")
  /\ FromHead(t)
  /\ UNCHANGED <<listVars, blkno, delwri, lock, want, saw>>

FlushNext(t) ==
  /\ pc[t] = "flush" /\ ~ AtEnd(t)
  /\ ~ delwri[bp[t]]
  /\ Follow(t)
  /\ UNCHANGED <<listVars, blkno, delwri, lock, pc, want, saw, calls>>

FlushFound(t) ==
  /\ Goto(t, "flush", "out1") /\ ~ AtEnd(t)
  /\ delwri[bp[t]]
  /\ UNCHANGED <<listVars, blkno, delwri, lock, bp, want, saw, calls>>

\* The assignments: bp out of the list and in at the end, without a lock.
Assign(t, from, to) ==
  /\ Goto(t, from, to)
  /\ UNCHANGED <<blkno, delwri, lock, bp, want, saw, calls>>

\* bp->b_back->b_forw = bp->b_forw
Out1(t) ==
  /\ Assign(t, "out1", "out2")
  /\ forw' = [forw EXCEPT ![back[bp[t]]] = forw[bp[t]]]
  /\ tangled' = (tangled \/ \E u \in Thread : pc[u] \in Relinking)
  /\ UNCHANGED back

\* bp->b_forw->b_back = bp->b_back
Out2(t) ==
  /\ Assign(t, "out2", "in1")
  /\ back' = [back EXCEPT ![forw[bp[t]]] = back[bp[t]]]
  /\ UNCHANGED <<forw, tangled>>

\* bp->b_back = bFreeList.b_back->b_forw
In1(t) ==
  /\ Assign(t, "in1", "in2")
  /\ back' = [back EXCEPT ![bp[t]] = forw[back[bFreeList]]]
  /\ UNCHANGED <<forw, tangled>>

\* Mutant: the assignment to the last buffer's b_forw is missing.
In2Nothing(t) ==
  /\ Assign(t, "in2", "in3")
  /\ UNCHANGED listVars

\* bFreeList.b_back->b_forw = bp
In2(t) ==
  /\ Assign(t, "in2", "in3")
  /\ forw' = [forw EXCEPT ![back[bFreeList]] = bp[t]]
  /\ UNCHANGED <<back, tangled>>

\* bp->b_forw = &bFreeList
In3(t) ==
  /\ Assign(t, "in3", "in4")
  /\ forw' = [forw EXCEPT ![bp[t]] = bFreeList]
  /\ UNCHANGED <<back, tangled>>

\* bFreeList.b_back = bp
In4(t) ==
  /\ Assign(t, "in4", "flushwrite")
  /\ back' = [back EXCEPT ![bFreeList] = bp[t]]
  /\ UNCHANGED <<forw, tangled>>

\* Mutant: bp = bp->b_forw is left out.
FlushWriteStays(t) ==
  /\ Goto(t, "flushwrite", "flushwrite")
  /\ SetDelwri(t, FALSE)
  /\ Unlock(t)
  /\ UNCHANGED <<listVars, blkno, bp, want, saw, calls>>

\* Bwrite unlocks the buffer, whoever has it.
FlushWrite(t) ==
  /\ Goto(t, "flushwrite", "flush")
  /\ SetDelwri(t, FALSE)
  /\ Unlock(t)
  /\ Follow(t)
  /\ UNCHANGED <<listVars, blkno, want, saw, calls>>

FlushEnd(t) ==
  /\ Goto(t, "flush", "idle") /\ AtEnd(t)
  /\ UNCHANGED <<listVars, blkno, delwri, lock, bp, want, saw, calls>>

-----------------------------------------------------------------------------
\* What a thread does in a call it has begun.
ThreadStep(t) ==
  \/ SearchNext(t) \/ SearchHit(t) \/ MarkBusy(t) \/ HitLock(t)
  \/ SearchMiss(t) \/ TryNext(t) \/ TryGot(t) \/ TryNone(t) \/ HeadLock(t)
  \/ HeadFaults(t) \/ VictimClean(t) \/ VictimWrite(t) \/ Relock(t) \/ Claim(t)
  \/ Release(t)
  \/ FlushNext(t) \/ FlushFound(t) \/ FlushWrite(t) \/ FlushEnd(t)
  \/ Out1(t) \/ Out2(t) \/ In1(t) \/ In2(t) \/ In3(t) \/ In4(t)

ThreadsNext ==
  \E t \in Thread :
    \/ \E n \in Block : GetBlk(t, n)
    \/ Bflush(t)
    \/ ThreadStep(t)

ThreadsSpec == ThreadsInit /\ [][ThreadsNext]_threadsVars

\* A thread that can run does; a thread need not make another call.
FairThreadsSpec == ThreadsSpec /\ \A t \in Thread : WF_threadsVars(ThreadStep(t))

-----------------------------------------------------------------------------
(***************************************************************************)
(* Properties.                                                             *)
(***************************************************************************)

Working(t) == pc[t] \in {"victim", "claim", "use"}

\* Between GetBlk's lock and the release the buffer is the thread's alone, also
\* across the Bwrite of a victim that gives the lock away and takes it back:
\* what b_lock is for ("mutex", Buf.h:43).  It holds as long as nobody calls
\* Bflush, which unlocks buffers it has not locked.
OwnersWork == \A t \in Thread : Working(t) => lock[bp[t]] = t

Found(t) == pc[t] \in {"mark", "hitlock", "use"}

\* "Get a buffer to read or write the block blkno" (BufferManager.h:19).  A
\* caller does not always get that (GetBlk does not look at b_blkno again when
\* it has the lock), but there is one way only to get another block: the buffer
\* that GetBlk found changes hands while GetBlk waits for it.  From the lock on,
\* across the write of a victim, nobody gives the buffer another block.
BlockStays ==
  [][\A t \in Thread :
       /\ Found(t) /\ blkno[bp[t]] = want[t]
       /\ Found(t)' /\ blkno'[bp'[t]] # want'[t]
       => pc[t] \in {"mark", "hitlock"} /\ pc'[t] = pc[t]]_threadsVars

\* The list is empty only while a Bflush has taken its one buffer out (line
\* 192) and not put it in again (line 197), whatever b_back it goes by.  In that
\* window GetBlk finds all buffers locked and takes bFreeList for the first
\* (HeadFaults, of which the server dies); outside it there is a buffer to wait
\* for.
ListNotEmpty ==
  \/ forw[bFreeList] # bFreeList
  \/ \E t \in Thread : pc[t] \in {"out2", "in1", "in2", "dead"}
  \/ tangled

\* Every call comes back, unless the server dies of an empty list or two Bflush
\* have been in their assignments at once: GetBlk's and Bflush's loops find the
\* end of a list that is taken apart under them, and round in a circle between
\* lines 197 and 198; and a thread with one buffer at a time never waits for
\* itself or in a ring.
CallsReturn ==
  \A t \in Thread :
    pc[t] # "idle" ~> pc[t] \in {"idle", "dead"} \/ tangled

\* "Delayed write: when the buffer is to be put to other use, its contents are
\* written to the device" (Buf.h:23): B_DELWRI goes away with a write only.
DelayedIsWritten ==
  [][\A b \in Buf :
       delwri[b] /\ ~ delwri'[b] =>
         \E t \in Thread : 
           bp[t] = b /\ (VictimWrite(t) \/ FlushWrite(t) \/ Release(t))]_threadsVars

=============================================================================
