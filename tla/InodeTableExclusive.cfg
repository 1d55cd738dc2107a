SPECIFICATION Spec
CONSTANTS
  t1 = t1
  t2 = t2
  NoOne = NoOne
  Thread <- TwoThreads
  NINODE = 3
  Ino <- MCIno
  Dir <- MCDir
  NLISTED = 2
  Slot <- MCSlot
  BootLists <- MCBootLists
  BootDir <- MCBootDir
  MaxOpen = 2
  MaxLeft = 1
INVARIANT ExclusiveIO
CHECK_DEADLOCK FALSE
