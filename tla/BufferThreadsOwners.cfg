CONSTANTS
  t1 = t1
  t2 = t2
  t3 = t3
  n1 = n1
  n2 = n2
  n3 = n3
  NoOne = NoOne
  BlockZero = BlockZero
  NBUF = 2
CHECK_DEADLOCK FALSE
SPECIFICATION ThreadsSpec
CONSTANTS
  Thread <- ThreeThreads
  Block <- ThreeBlocks
  Flusher <- Nobody
  MaxCalls = 2
SYMMETRY ThreeSymmetry
INVARIANTS ThreadsTypeOK OwnersWork
PROPERTY BlockStays
