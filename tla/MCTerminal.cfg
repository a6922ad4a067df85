SPECIFICATION Spec
CONSTANTS
  Console = {"tty0", "tty1"}
  Key = {"x", "nl", "del", "hist", "kill", "intr", "cr"}
  Script <- MCScript
  Settings <- MCSettings
  Default <- MCDefault
  ReadSize = {2}
  CANON_BUF_MAX = 2
  PTY_BUF_SIZE = 3
  MaxChanges = 1
INVARIANT PtyKeepsOrder
PROPERTIES EditorImplemented LineArrives
CHECK_DEADLOCK FALSE
