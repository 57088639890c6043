SPECIFICATION Spec
CONSTANTS
  DEGREE = 2
  CachePage = 8
  Key <- MCKey
  Value <- MCValue
  PtrSize = 2
  Rid <- MCRid
  OneBlock = TRUE
  MaxUpdates = 5
CONSTRAINTS
  Alternating
  OthersOnce
VIEW StoreAndUpdates
CHECK_DEADLOCK FALSE
INVARIANTS
  OwnedOnce
  LoneKeyServed
  AscendingServed
  AnswersBelong
