SPECIFICATION Spec
CONSTANTS
  Machines <- MCMachines
  ByteMod = 2
  TopMod = 2
  LastSector = 10
  Requests <- MCRequests
  MaxReads = 2
INVARIANTS
  FirstDriveSelected
  SectorsInOrder
  TransferComplete
PROPERTIES
  InitReturns
  ReadReturns
