------------------------------- MODULE MCSession -------------------------------
(* Two sessions, two descriptors each, two File structures, two files of up to *)
(* two blocks of one unit.  The name that users type is there or has to be     *)
(* made.  A read or write asks for two, which is the whole buffer, a read also *)
(* for three.                                                                  *)
EXTENDS Session

Entry(n, i) == [name |-> n, ino |-> i]

MCDirs == {<<Entry("b", 2), Entry("a", 1)>>, <<Entry("b", 2)>>}

MCModes == {{"read"}, {"write"}}

MCJumps == {<<1, 4>>, <<1, 2>>}
=============================================================================
