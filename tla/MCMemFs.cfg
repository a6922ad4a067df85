SPECIFICATION Spec
CONSTANTS
  Name = {a, b}
  NrInodes = 4
  MaxIno = 5
INVARIANTS
  TreeConsistent
  ChargedExactly
PROPERTY LosesAtMostOne
CHECK_DEADLOCK FALSE
