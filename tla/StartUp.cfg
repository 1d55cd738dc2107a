SPECIFICATION Spec
CONSTANTS
  NBUF = 5
  Group = 100
  DataStart = 27
  DataSize = 9973
  NoFile = NoFile
  Page = 8
  Cuts <- MCCuts
INVARIANTS ListInv ZoneOnTheList ServesWhole
PROPERTIES ImplementsQueue StartEnds
