CONSTANTS
  Client = {1, 2}
  Other = other
  None = none
  MAX_USER_NUM = 3
  MaxLines = 4
SPECIFICATION Spec
INVARIANTS OwnInv InTurn
PROPERTIES Answered SlotsReturned
CHECK_DEADLOCK FALSE
