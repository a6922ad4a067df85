SPECIFICATION Spec
CONSTANTS
  Pid = {1, 2}
  ROOT_PID = 1
  NrFrames = 7
  Word = 16
  page_size = 2
  user_end = 8
  BrkMax = 6
  MmapBase = 6
  PathOf <- MCPathOf
  Segments <- MCSegments
  StackPages <- MCStackPages
  Supervisor <- MCSupervisor
  Hints = {3}
  MaxLen = 3
INVARIANTS
  FrameOwnedOnce
  AreasBacked
  RangeIsLeastFit
PROPERTY MemoryImplemented
VIEW ByRenaming
CHECK_DEADLOCK FALSE
