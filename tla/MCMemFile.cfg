SPECIFICATION Spec
CONSTANTS
  File = {1}
  PAGE_SIZE = 2
  Buf <- MCBuf
  Fd = {d1, d2}
  FileOf <- MCFileOf
  PageLimit = 2
  MaxSize = 5
INVARIANTS
  PagesCharged
PROPERTIES
  ContentImplemented
SYMMETRY FdSymmetry
CHECK_DEADLOCK FALSE
