------------------------------ MODULE FileCursors ------------------------------
(***************************************************************************)
(* What the calls on open files (server/FileManager.cpp, SystemCall.cpp)   *)
(* owe the sessions: a descriptor is a cursor of its own in a file.  Only  *)
(* its session opens, moves and closes it; a command that is answered with *)
(* success has done what it says, and one that is answered with an error   *)
(* opens and closes nothing.                                               *)
(***************************************************************************)
EXTENDS Integers

CONSTANTS
  Session,
  Fd,                  \* descriptors of a session
  Inode,               \* files
  Off,                 \* positions in a file and lengths
  Count,               \* numbers of units asked for
  Closed               \* the cursor of a descriptor not in use

VARIABLES
  cursor,              \* of each session and descriptor
  length,              \* of each file
  said                 \* the last answer: whose, to what, with what

cursorVars == <<cursor, length, said>>

Cursor == [ino : Inode, mode : SUBSET {"read", "write"}, off : Off]

Init ==
  /\ cursor = [s \in Session |-> [d \in Fd |-> Closed]]
  /\ length \in [Inode -> Off]
  /\ said.cmd = "login"

Says(s, c, ok, asked, n) ==
  said' = [by |-> s, cmd |-> c, ok |-> ok, asked |-> asked, n |-> n]

Opens(s, d) ==
  /\ cursor[s][d] = Closed
  /\ \E i \in Inode, m \in SUBSET {"read", "write"} :
       cursor' = [cursor EXCEPT ![s][d] = [ino |-> i, mode |-> m, off |-> 0]]

Closes(s, d) ==
  /\ cursor[s][d] # Closed
  /\ cursor' = [cursor EXCEPT ![s][d] = Closed]

\* One cursor of the session moves, or none.
Moves(s) ==
  \/ UNCHANGED cursor
  \/ \E d \in Fd, to \in Off :
       /\ cursor[s][d] # Closed
       /\ cursor' = [cursor EXCEPT ![s][d].off = to]

\* One file gets another length, or none.
Resizes == \E i \in Inode, n \in Off : length' = [length EXCEPT ![i] = n]

\* A command or a transfer begins: there is no answer yet.
Begins == said'.cmd = "login" /\ UNCHANGED <<cursor, length>>

Open(s) == \E d \in Fd : Says(s, "open", TRUE, 0, d) /\ Opens(s, d) /\ UNCHANGED length

\* A removed file goes with its last descriptor.
Close(s) ==
  /\ Says(s, "close", TRUE, 0, 0)
  /\ \E d \in Fd : Closes(s, d)
  /\ \E i \in Inode : length' \in {length, [length EXCEPT ![i] = 0]}

\* As much as was asked for, or as there is.
Read(s) ==
  \E asked \in Count, n \in Off, d \in Fd :
    /\ Says(s, "read", TRUE, asked, n)
    /\ cursor[s][d] # Closed /\ "read" \in cursor[s][d].mode
    /\ LET rest == length[cursor[s][d].ino] - cursor[s][d].off
       IN  n = IF rest < 0 THEN 0 ELSE IF rest < asked THEN rest ELSE asked
    /\ cursor' = [cursor EXCEPT ![s][d].off = @ + n]
    /\ UNCHANGED length

\* All of it, and the file is as long as that takes.
Write(s) ==
  \E n \in Off, d \in Fd :
    /\ Says(s, "write", TRUE, n, n)
    /\ cursor[s][d] # Closed /\ "write" \in cursor[s][d].mode
    /\ cursor' = [cursor EXCEPT ![s][d].off = @ + n]
    /\ length' = [length EXCEPT ![cursor[s][d].ino] =
                    IF n > 0 /\ @ < cursor'[s][d].off THEN cursor'[s][d].off ELSE @]

\* The answer does not tell where the cursor is.
Seek(s) == Says(s, "seek", TRUE, 0, 0) /\ Moves(s) /\ UNCHANGED length

\* A read of more than the server's buffer is not made, whatever is answered.
ReadTooLong(s) ==
  /\ \E ok \in BOOLEAN, asked \in Count : Says(s, "read", ok, asked, -1)
  /\ UNCHANGED <<cursor, length>>

\* What fails may have been done in part: a cursor moved, a file emptied.
Fails(s) ==
  /\ said' \in [by : {s}, ok : {FALSE}, asked : Count, n : Int,
               cmd : {"open", "close", "read", "write", "seek", "touch",
                      "rm", "cd", "ls", "cat", "fin", "fout"}]
  /\ Moves(s)
  /\ Resizes

Succeeds(s, commands) ==
  said' \in [by : {s}, cmd : commands, ok : {TRUE}, asked : {0}, n : {0}]

\* The other commands end.  Only cat, fin and fout close what they have opened.
Ends(s) ==
  /\ \/ Succeeds(s, {"rm", "cd", "ls"}) /\ UNCHANGED cursor
     \/ Succeeds(s, {"touch"}) /\ \E d \in Fd : Opens(s, d)
     \/ Succeeds(s, {"cat", "fin", "fout"}) /\ \E d \in Fd : Closes(s, d)
  /\ \E i \in Inode : length' \in {length, [length EXCEPT ![i] = 0]}

\* A command that takes several steps opens a file, then moves in it.
Works(s) ==
  /\ UNCHANGED said
  /\ Moves(s) \/ \E d \in Fd : Opens(s, d)
  /\ Resizes

\* Nothing is left of a session that has ended.
Leaves(s) ==
  /\ Succeeds(s, {"exit", "login"})
  /\ cursor' = [cursor EXCEPT ![s] = [d \in Fd |-> Closed]]
  /\ UNCHANGED length

Next ==
  \/ Begins
  \/ \E s \in Session :
       \/ Open(s) \/ Close(s) \/ Read(s) \/ Write(s) \/ Seek(s) \/ ReadTooLong(s)
       \/ Fails(s) \/ Ends(s) \/ Works(s) \/ Leaves(s)

Spec == Init /\ [][Next]_cursorVars

=============================================================================
