SPECIFICATION Spec
CONSTANTS
  Name = {"a", "b"}
  Dot = Dot
  DotDot = DotDot
  Zero = Zero
  Deleted = Deleted
  Garbage = Garbage
  Handle = {h1, h2}
  NoInode = NoInode
  NoSlot = NoSlot
  NoCache = NoCache
  Idle = Idle
  Torn = Torn
  Image <- MCImage
  CLUSTER = 2
  FAT12_LIMIT = 3
  FAT16_LIMIT = 4
  MaxFile = 3
  Buf <- MCBuf
  MaxFaults = 1
INVARIANTS
  ChainsApart
  OnlyOwnBytes
  ContentKept
  NamesFound
SYMMETRY HandleSymmetry
CONSTRAINT OneOwner
