SPECIFICATION Spec
CONSTANTS
  MaxFiles = 2
  NameLen = 6
  SizeMod = 8
  ImageSize = 36
  Location = 100
  Junk = 63
  Directories <- MCDirectories
  Clients = {n1, n2}
  Paths = {"", "a", "b"}
  Volume <- MCVolume
  Addrs = {1, 2}
CHECK_DEADLOCK FALSE
INVARIANTS
  AllOrNothing
  FilesCounted
  ReadsRight
  HandleOfFile
