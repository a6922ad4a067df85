CONSTANTS
  Name <- MCName
  Module <- MCModule
  NoModule = NoModule
  Machines <- MCMachines
  Consoles = 1
  MaxOpen = 1
  File <- MCFile
  RecordSize <- MCRecordSize
  Room = {1, 5}
SPECIFICATION ListSpec
INVARIANT LoadedClosed
INVARIANT LoadsOnce
INVARIANT DrivesRegistered
INVARIANT ListingAccurate
PROPERTY LoadReturns
CHECK_DEADLOCK FALSE
