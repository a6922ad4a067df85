SPECIFICATION Spec
CONSTANTS
  SECTOR = 2
  Identity <- MCIdentity
  LBA24 = 2
  Slot = {0, 1}
  Mbr <- MCMbr
  Extent <- MCExtent
  Value = {7}
  AHCI_TIMEOUT = 2
  MaxLate = 2
  NoCall = NoCall
  NoCommand = NoCommand
INVARIANT OutcomeTrue
PROPERTY CallReturns
CHECK_DEADLOCK FALSE
