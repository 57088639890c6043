SPECIFICATION Spec
CONSTANTS
  W = 8
  OffSize = 2
  SizeBits = 10
  Capacity = 2
  NBlocks = 4
  Size <- MCSize
  Request <- MCRequest
  Block <- MCBlock
INVARIANTS
  TypeOK
  ChainsPacked
  NeverSpins
  OneOwner
  ControlIntact
PROPERTY ImplementsSpaceIndex
