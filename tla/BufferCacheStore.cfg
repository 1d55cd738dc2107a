SPECIFICATION Spec
CONSTANTS
  NBUF = 3
  MaxHold = 2
  BlockZero = BlockZero
  n1 = n1
  n2 = n2
  n3 = n3
  d1 = d1
  d2 = d2
  Absent = Absent
  Unread = Unread
  Block <- MCBlock
  Data <- MCData
  Zero <- d1
SYMMETRY SectorSymmetry
INVARIANTS TypeOK LiveFound CacheInv
PROPERTY ImplementsStore
