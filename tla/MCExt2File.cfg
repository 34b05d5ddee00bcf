SPECIFICATION Spec
CONSTANTS
  BlockSize = 4
  DirectBlocks = 3
  SizeMod = 64
  FileSizes <- MCFileSizes
  Counts <- MCCounts
INVARIANTS
  PositionsAgree
  ReadsStayInFile
PROPERTIES
  SmallFilesReadable
  ReadReturns
  RefinesStream
