SPECIFICATION Spec
CONSTANTS
  READ_SIZE = 2
  ROOT_INODE = 2
  DirectBytes = 10
  Empty <- MCEmpty
  Trees <- MCTrees
  Paths <- MCPaths
  MaxLookUps = 2
INVARIANTS
  LookUpCorrect
  AtEntryBoundary
  NothingLeftBehind
PROPERTY LookUpReturns
