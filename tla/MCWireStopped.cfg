SPECIFICATION FairSpec
CONSTANTS
  Line <- MCLine
  BufferSize = 8
  MaxStrLen = 2
  MaxLines = 3
  MayStop = TRUE
CHECK_DEADLOCK FALSE
INVARIANT OkMeansServed
