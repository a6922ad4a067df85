SPECIFICATION Spec
CONSTANTS
  Name = {"proc", "dev"}
  MaxDepth = 3
  MaxNodes = 6
  DEFAULT_SYMLINK_RESOLUTION_LIMIT = 3
  MAX_INTERPRETER_REDIRECTS = 2
  PageBytes = 48
  StackPages = 9
  Load = Load
  Redirect = Redirect
  Failed = Failed
  NotFound = NotFound
  Loop = Loop
  Fstab <- MCFstab
  Source <- MCSource
  BootConfig <- MCBootConfig
  InitArg <- MCInitArg
  Legacy <- MCLegacy
  MaxEntries = 3
  MaxImages = 2
  NoFile = NoFile
  Init1 <- MCInit1
VIEW MCView
INVARIANTS LookupIsWalk LinksFollowed BootAsConfigured ProgramGetsArguments MadeDiskAccepted
CHECK_DEADLOCK FALSE
