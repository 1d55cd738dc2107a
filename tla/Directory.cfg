CONSTANTS
  Session = {s1, s2}
  Name = {"a", "b"}
  Ino = {0, 1, 2, 3}
  Home <- MCHome
  Path <- MCPath
  Boot <- MCBoot
  MaxCalls = 5
SPECIFICATION Spec
INVARIANTS NamesInv ClearsWhatItFound CurDirAgrees
PROPERTIES OrphansFromDirectories
SYMMETRY Symmetric
CHECK_DEADLOCK FALSE
