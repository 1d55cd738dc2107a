------------------------------- MODULE FileArray -------------------------------
(***************************************************************************)
(* What Inode::ReadI, WriteI and ITrunc (server/INode.cpp) owe their       *)
(* callers: each file is an array of units with a size.  A write changes   *)
(* the units it names in the file it names, a read returns them, a unit    *)
(* never written reads as 0, truncation empties the file; nothing else     *)
(* changes any file.                                                       *)
(***************************************************************************)
EXTENDS Integers

CONSTANTS
  File,
  MaxUnits,            \* the largest file
  PerBlock,            \* the most that is transferred at a time
  Datum

VARIABLES
  content,             \* the units of each file
  size,
  out                  \* what the last step has read

arrayVars == <<content, size, out>>

Unit == 0 .. MaxUnits - 1

Init ==
  /\ content = [f \in File |-> [u \in Unit |-> 0]]
  /\ size = [f \in File |-> 0]
  /\ out = <<>>

Write(f) ==
  \E o \in Unit, n \in 1 .. PerBlock, d \in Datum :
    /\ o + n <= MaxUnits
    /\ content' = [content EXCEPT ![f] =
                     [u \in Unit |-> IF u \in o .. o + n - 1 THEN d ELSE @[u]]]
    /\ size' = [size EXCEPT ![f] = IF @ < o + n THEN o + n ELSE @]
    /\ out' = <<>>

Read(f) ==
  \E o \in Unit, n \in 1 .. PerBlock :
    /\ o + n <= size[f]
    /\ out' = [i \in 1 .. n |-> content[f][o + i - 1]]
    /\ UNCHANGED <<content, size>>

Truncate(f) ==
  /\ content' = [content EXCEPT ![f] = [u \in Unit |-> 0]]
  /\ size' = [size EXCEPT ![f] = 0]
  /\ out' = <<>>

Quiet == out' = <<>> /\ UNCHANGED <<content, size>>

Next == Quiet \/ \E f \in File : Write(f) \/ Read(f) \/ Truncate(f)

Spec == Init /\ [][Next]_arrayVars

=============================================================================
