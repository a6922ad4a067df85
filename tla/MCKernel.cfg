SPECIFICATION KernelSpec
CONSTANTS
  MaxPid = 4
  Inode = {tty, file}
  Device = {tty}
  Stdio = tty
  StdFds = 1
  MaxFd = 2
  MaxOpen = 2
  MaxLost = 1
  MaxCalls = 2
INVARIANTS
  OpenFilesCounted
  RootHoldsTheRest
PROPERTY DescriptorsImplemented
CHECK_DEADLOCK FALSE
