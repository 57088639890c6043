SPECIFICATION Spec
CONSTANTS
  DEGREE = 2
  CachePage = 6
  MaxCalls = 3
  Key <- MCKey
  Growth <- MCGrowth
VIEW IndexAndCalls
INVARIANTS
  TypeOK
  FramesSuffice
  NoPinLeft
  NothingUnwritten
  SearchTree
  UnusedIsNull
  LeavesChained
PROPERTY ImplementsOrderedIndex
