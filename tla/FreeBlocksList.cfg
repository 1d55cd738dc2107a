SPECIFICATION Spec
CONSTANTS
  Group = 4
  DataStart = 2
  DataSize = 6
  t1 = t1
  t2 = t2
  NoOne = NoOne
  Thread <- MCThread
  SbOutcomes <- MCSbOutcomes
  MaxFree = 3
SYMMETRY ThreadSymmetry
INVARIANTS ListInv BlocksInv UnmodifiedMeansSaved LockedMeansInUse SaveIsRecent
CHECK_DEADLOCK FALSE
