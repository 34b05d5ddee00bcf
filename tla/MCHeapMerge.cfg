SPECIFICATION Spec
CONSTANTS
  W = 256
  PageWords = 16
  StartAddr = 64
  InitPages = 4
  MinPages = 3
  MaxPages = 10
  LowWords = 32
  HEAP_MAGIC = 240
  NullSizes = {0, 250}
  Sizes = {1, 4}
  Alignments = {FALSE}
  Values = {7}
  IndexBound = 16
  WithinLimits = TRUE
  FreeRule = "written"
INVARIANT HolesMerged
