SPECIFICATION Spec
CONSTANTS
  Arrays <- MCArrays
  MaxMessages = 3
  MaxLast = 3
  MaxSpare = 1
  MaxHandedOut = 1
INVARIANTS
  TypeOK
  HandedOutNeverChanges
  ArraysHoldTheLog
CHECK_DEADLOCK FALSE
