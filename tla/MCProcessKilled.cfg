CONSTANT MaxPid = 3
SPECIFICATION Spec
INVARIANT TerminatedTaskStops
CHECK_DEADLOCK FALSE
