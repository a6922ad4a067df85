CONSTANT MaxPid = 6
SPECIFICATION FairQuietSpec
INVARIANT LineOfDescent
INVARIANT WaitNeverIdles
PROPERTY ShellRegainsPrompt
