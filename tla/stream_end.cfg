SPECIFICATION Spec
CONSTANTS
  Fragment = 4
  MaxFrame = 24
  ReadSizes = {32}
  MaxStarts = 1
  MaxPolls = 0
INVARIANTS EndNamesSession
CHECK_DEADLOCK FALSE
