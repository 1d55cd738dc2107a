SPECIFICATION Spec
CONSTANTS
  t1 = t1
  t2 = t2
  NoOne = NoOne
  Thread <- OneThread
  NINODE = 3
  Ino <- MCIno
  Dir <- MCDir
  NLISTED = 2
  Slot <- MCSlot
  BootLists <- MCBootLists
  BootDir <- MCBootDir
  MaxOpen = 2
  MaxLeft = 1
INVARIANTS TableInv OneCopy FilesKept ListInv WaitsForItself
CHECK_DEADLOCK FALSE
