SPECIFICATION SpecStr
CONSTANTS
  PageSize = 13
  HeaderSize = 1
  IdSize = 2
  MaxBlocks = 2
  noByte = noByte
  NoByte = noByte
  ChunkLen = 2
  MaxStrings = 2
  Text <- MCText
  Record <- Chunks
VIEW ReadState
INVARIANTS
  BlocksWellFormed
  FsmExact
  LoadsBack
  ComparesAsText
  ChunksOwnedOnce
PROPERTIES
  GrowsOnlyWhenFull
  ImplementsRecordStore
