CONSTANTS
  t1 = t1
  t2 = t2
  t3 = t3
  n1 = n1
  n2 = n2
  n3 = n3
  NoOne = NoOne
  BlockZero = BlockZero
  NBUF = 2
CHECK_DEADLOCK FALSE
SPECIFICATION ThreadsSpec
CONSTANTS
  Thread <- TwoThreads
  Block <- TwoBlocks
  Flusher <- Nobody
  MaxCalls = 3
PROPERTY DelayedIsWritten
