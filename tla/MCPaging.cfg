SPECIFICATION Spec
CONSTANTS
  PageSize = 8
  ByteBits = 4
  WordBytes = 2
  NumFrames = 24
  PagesPerTable = 4
  InitrdEnd = 16
  DirSize = 17
  HeapStructSize = 8
  HeapPage = 16
  IndexPages = 1
  HeapInitPages = 4
  HeapMinPages = 2
  HeapMaxPages = 6
  Garbage <- MCGarbage
INVARIANTS
  TypeOK
  KernelIdentityMapped
  TablesTranslate
  ExclusiveFrames
PROPERTIES
  BootCompletes
  ResizeReturns
