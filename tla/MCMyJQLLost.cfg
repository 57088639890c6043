SPECIFICATION Spec
CONSTANTS
  DEGREE = 3
  CachePage = 4
  Key <- MCTwoKeys
  Value <- MCValue
  PtrSize = 2
  Rid <- MCRid
  OneBlock = TRUE
  MaxUpdates = 4
CHECK_DEADLOCK FALSE
INVARIANT GetFinds
