CONSTANTS
  Session = {s1, s2}
  Name = {"a", "b"}
  Inode = {1, 2}
  NINODE = 1
  NFILE = 2
  NOFILES = 2
  BUF = 2
  Sector = 1
  Nobody = Nobody
  BootDir <- MCDirs
  Typed = {"a"}
  Modes <- MCModes
  Fds = {0, 2}
  Counts = {2, 3}
  Jumps <- MCJumps
  MaxOff = 2
  MaxCalls = 3
SPECIFICATION Spec
INVARIANTS CountsInv
PROPERTIES ImplementsCursors CommandsReturn LeavesOthersAlone
CHECK_DEADLOCK FALSE
