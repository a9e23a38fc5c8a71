SPECIFICATION Spec
CONSTANTS
  Fragment = 4
  MaxFrame = 24
  ReadSizes = {16, 32}
  MaxStarts = 2
  MaxPolls = 1
INVARIANTS Intact KeysAgree
CHECK_DEADLOCK FALSE
