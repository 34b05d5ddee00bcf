SPECIFICATION Spec
CONSTANTS
  WordBits = 8
  LogKib = 3
  Lines = {0, 1, 14}
  Exceptions = {14}
  BiosMasks = {184}
  UptimeMod = 2
  ModuleCounts = {0, 1}
  FileCounts = {10, 240}
  DiskValues = {0, 64, 255}
  MaxTicks = 2
  MaxSpurious = 1
CHECK_DEADLOCK FALSE
INVARIANTS
  ReadyForInterrupts
  NothingInService
  TicksCounted
  TextRight
PROPERTIES
  IrqServed
  PrintReturns
