SPECIFICATION Spec
CONSTANTS
  W = 512
  PageWords = 16
  StartAddr = 64
  InitPages = 6
  MinPages = 5
  MaxPages = 12
  LowWords = 32
  HEAP_MAGIC = 500
  NullSizes = {0, 510}
  Sizes = {1, 14, 90}
  Alignments = {TRUE, FALSE}
  Values = {7}
  IndexBound = 10
  WithinLimits = TRUE
  FreeRule = "clean"
INVARIANTS
  HeapTiled
  NeverStops
PROPERTIES
  RefinesAllocator
  GrowthSuffices
  AlignedAsAsked
