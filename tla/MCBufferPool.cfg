SPECIFICATION Spec
CONSTANTS
  CachePage = 2
  MaxPages = 3
  MaxPins = 2
  zero = zero
  d1 = d1
  Data <- MCData
  EmptyPage = zero
INVARIANTS
  TypeOK
  OneFramePerPage
  PointersValid
  UnpinnedIsClean
PROPERTY ImplementsPageStore
