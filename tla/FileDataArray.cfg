SPECIFICATION Spec
CONSTANTS
  f = f
  g = g
  File <- MCFile
  Block <- MCBlock
  PerBlock = 2
  SMALL = 1
  Datum = {3,4}
  BootStore <- MCBootStore
  Offsets <- MCOffsets
  Counts <- MCCounts
  MaxCalls = 5
INVARIANTS BlocksInv TornMeansStuck
PROPERTY ImplementsArray
CHECK_DEADLOCK FALSE
