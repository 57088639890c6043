SPECIFICATION FairSpec
CONSTANTS
  Line <- MCLine
  BufferSize = 8
  MaxStrLen = 2
  MaxLines = 4
  MayStop = TRUE
CHECK_DEADLOCK FALSE
INVARIANTS
  TypeOK
  ResultsTrue
  InStep
PROPERTY CommandEnds
