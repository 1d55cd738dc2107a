------------------------------ MODULE MCDirectory ------------------------------
(* Two sessions of one user, over an empty image or one with /a/b, a
   file, and a free entry before a. *)
EXTENDS Directory, TLC

P(a, n) == [abs |-> a, names |-> n]

MCPath == {P(TRUE, <<>>), P(FALSE, <<"a">>), P(FALSE, <<"b">>),
           P(TRUE, <<"a">>), P(TRUE, <<"b">>), P(TRUE, <<"a", "b">>)}

\* The sessions are the same user's, and no property tells them apart.
Symmetric == Permutations(Session)

MCHome == [s \in Session |-> "a"]

MCBoot == {
  [kind |-> [i \in Ino |-> IF i = 0 THEN "dir" ELSE "free"], entry |-> [i \in Ino |-> <<>>]],
  [kind |-> [i \in Ino |-> CASE i \in {0, 1} -> "dir" [] i = 2 -> "file" [] OTHER -> "free"],
   entry |-> [i \in Ino |-> CASE i = 0 -> <<FreeEntry, [name |-> "a", ino |-> 1]>>
                               [] i = 1 -> <<[name |-> "b", ino |-> 2]>>
                               [] OTHER -> <<>>]]}
=============================================================================
