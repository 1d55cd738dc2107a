------------------------------- MODULE BlockStore -------------------------------
(***************************************************************************)
(* What the buffer cache owes the file system above it: blocks that read   *)
(* as they were last written, whatever the cache keeps in memory, and a    *)
(* disk that holds for each block the last write or, where that write was  *)
(* delayed, some earlier one.  A crash takes every block back to the disk. *)
(***************************************************************************)
CONSTANTS
  Block,       \* sectors of the disk
  Data,        \* what a sector may hold
  Absent,      \* view[n] when nobody has block n checked out
  Unread       \* view[n] when block n is checked out to be overwritten

VARIABLES
  store,       \* the block as the file system last wrote it
  durable,     \* the block as it is in the disk image
  view         \* what the holder of a checked-out block sees in it

vars == <<store, durable, view>>

Init ==
  /\ store \in [Block -> Data]
  /\ durable = store
  /\ view = [n \in Block |-> Absent]

\* Making room or flushing may bring one delayed write to the disk.
WriteBack ==
  \/ UNCHANGED durable
  \/ \E n \in Block : durable' = [durable EXCEPT ![n] = store[n]]

CheckOut(n, seen) ==
  /\ view[n] = Absent
  /\ view' = [view EXCEPT ![n] = seen]
  /\ WriteBack
  /\ UNCHANGED store

\* GetBlk, Bread and Brelse
Take(n) == CheckOut(n, Unread)

Read(n) == CheckOut(n, store[n])

Return(n) ==
  /\ view[n] \in Data
  /\ view' = [view EXCEPT ![n] = Absent]
  /\ UNCHANGED <<store, durable>>

\* Bwrite and Bdwrite
Write(n, d) ==
  /\ view[n] # Absent
  /\ store' = [store EXCEPT ![n] = d]
  /\ view' = [view EXCEPT ![n] = Absent]

WriteThrough(n, d) == Write(n, d) /\ durable' = [durable EXCEPT ![n] = d]

WriteDelayed(n, d) == Write(n, d) /\ UNCHANGED durable

Flush == WriteBack /\ UNCHANGED <<store, view>>

Crash ==
  /\ store' = durable
  /\ view' = [n \in Block |-> Absent]
  /\ UNCHANGED durable

Next ==
  \/ \E n \in Block : Take(n) \/ Read(n) \/ Return(n)
  \/ \E n \in Block, d \in Data : WriteThrough(n, d) \/ WriteDelayed(n, d)
  \/ Flush
  \/ Crash

Spec == Init /\ [][Next]_vars

=============================================================================
