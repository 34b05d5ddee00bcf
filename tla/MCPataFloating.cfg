SPECIFICATION Spec
CONSTANTS
  Machines <- MCHalfMachines
  ByteMod = 2
  TopMod = 2
  LastSector = 10
  Requests <- MCRequests
  MaxReads = 2
PROPERTY InitReturns
